------------------------- MODULE SystemServiceProofs -------------------------
(***************************************************************************)
(* What the privileged service promises, for every value of its constants: *)
(* no privileged process is left alone; the split-tunnel driver holds only *)
(* rules a client was told of; a Linux daemon that reports a cleanup has   *)
(* cleaned up; a Windows host whose kill switch is engaged is never open.  *)
(***************************************************************************)
EXTENDS SplitTunnel, WindowsTunnel, LinuxTunnel, ProcessCapabilities,
        FiniteSetTheorems, SequenceTheorems, TLAPS

-----------------------------------------------------------------------------
(***************************************************************************)
(* Privileged processes.  The invariant says what holds of each descriptor *)
(* between two events, and that no user has more than the quota.           *)
(***************************************************************************)

Phases == {"none", "awaiting claim", "awaiting start", "running", "terminating", "finished"}

Descriptors ==
    [phase : Phases, user : Users \cup {"none"}, conn : {"none", "up", "closed"},
     goneQueued : BOOLEAN, timer : BOOLEAN,
     state : {"not running", "starting", "running"},
     real : {"not running", "starting", "running", "killed"}, rejected : Nat,
     program : Programs \cup {"none"}, arguments : BOOLEAN, refused : BOOLEAN,
     inProgram : Programs \cup {"none"}, inArguments : Programs \cup {"none"}, late : BOOLEAN]

\* What the wrapper was told against what its QProcess holds: a running process
\* fits, so does a launch that is ready, and the program the wrapper knows is the
\* one QProcess holds unless it was named too late.
LaunchKept(d) ==
    /\ d.real # "not running" => Fits(d)
    /\ d.arguments => Fits(d)
    /\ d.program # "none" => d.inProgram # "none" /\ (d.late \/ d.inProgram = d.program)

\* What holds of one descriptor between two events.  The state QProcess shows
\* follows the real process except that it does not know of a kill; a phase
\* without a timer is "running", and then a client or its loss is there.
Sound(d) ==
    /\ d.phase = "none" => d = NoDescriptor
    /\ d.phase = "awaiting claim" =>
         d.user = "none" /\ d.conn = "none" /\ ~d.goneQueued /\ d.real = "not running"
    /\ d.state = IF d.real = "killed" THEN "running" ELSE d.real
    /\ d.phase = "running" => d.real \in {"running", "killed"} /\ (d.conn = "up" \/ d.goneQueued)
    /\ d.phase \notin {"none", "running"} => d.timer
    /\ LaunchKept(d)

Of(u) == {c \in Live : processes[c].user = u}
WithinQuota == \A u \in Users : Cardinality(Of(u)) <= MaxPerUser

\* The inductive invariant.
ProcessesInv ==
    /\ processes \in [Capabilities -> Descriptors]
    /\ \A c \in Capabilities : Sound(processes[c])
    /\ IsFiniteSet(Live)
    /\ WithinQuota

-----------------------------------------------------------------------------

\* A descriptor that is not there is sound.
LEMMA NothingIsSound ==
    /\ NoDescriptor \in Descriptors /\ Sound(NoDescriptor)
    /\ NoDescriptor.conn = "none" /\ ~NoDescriptor.goneQueued /\ ~NoDescriptor.timer
    /\ NoDescriptor.real = "not running" /\ NoDescriptor.user = "none"
BY DEF NoDescriptor, Descriptors, Phases, Sound, LaunchKept, Fits

\* Nothing is there when the service starts.
LEMMA ProcessesInitHolds == CapabilitiesInit => ProcessesInv
<1> SUFFICES ASSUME CapabilitiesInit PROVE ProcessesInv OBVIOUS
<1>1. Live = {} /\ \A u \in Users : Of(u) = {} BY DEF CapabilitiesInit, Live, Exists, Of, NoDescriptor
<1>4. processes \in [Capabilities -> Descriptors] /\ \A c \in Capabilities : Sound(processes[c])
  BY NothingIsSound DEF CapabilitiesInit
<1> QED BY <1>1, <1>4, CapabilityAssumption, FS_EmptySet DEF ProcessesInv, WithinQuota

\* An event that neither makes a capability nor lets a user claim one keeps the
\* invariant when it leaves a sound descriptor.
LEMMA DescriptorStep ==
    ASSUME ProcessesInv, NEW c \in Capabilities, NEW d \in Descriptors, Sound(d), Becomes(c, d),
           d.user = processes[c].user \/ d.user = "none",
           Exists(c) \/ d.phase = "none"
    PROVE  ProcessesInv'
<1>2. Live' \in SUBSET Live BY DEF ProcessesInv, Becomes, Live, Exists
<1>4. WithinQuota'
  <2> SUFFICES ASSUME NEW u \in Users PROVE Cardinality(Of(u)') <= MaxPerUser BY DEF WithinQuota
  <2>1. Of(u)' \in SUBSET Of(u) BY <1>2, CapabilityAssumption DEF Of, ProcessesInv, Becomes, Live
  <2>3. IsFiniteSet(Of(u)) /\ IsFiniteSet(Of(u)') BY <2>1, FS_Subset DEF ProcessesInv, Of
  <2> QED BY <2>1, <2>3, FS_Subset, FS_CardinalityType, CapabilityAssumption DEF ProcessesInv, WithinQuota
<1> QED BY <1>2, <1>4, FS_Subset DEF ProcessesInv, Becomes

\* finalizeProcessCapability takes the descriptor off the table.
LEMMA FinalizeHolds ==
    ASSUME ProcessesInv, NEW c \in Capabilities, FinalizeProcessCapability(c)
    PROVE  ProcessesInv'
BY NothingIsSound, DescriptorStep DEF FinalizeProcessCapability, NoDescriptor

\* beginProcessTermination, whatever its caller has changed so far: a process
\* that is not there is forgotten, and one that is has a timer from here on.
LEMMA TerminationHolds ==
    ASSUME ProcessesInv, NEW c \in Capabilities, Exists(c), NEW d \in Descriptors,
           d.user = processes[c].user,
           d.state = IF d.real = "killed" THEN "running" ELSE d.real,
           LaunchKept(d),
           BeginProcessTermination(c, d)
    PROVE  ProcessesInv'
<1>1. CASE d.state = "not running" BY <1>1, FinalizeHolds DEF BeginProcessTermination
<1>2. CASE d.state # "not running"
  <2> DEFINE e == [d EXCEPT !.conn = "none", !.phase = "terminating", !.timer = TRUE,
                            !.goneQueued = @ \/ d.conn # "none",
                            !.real = IF @ = "running" THEN "killed" ELSE @]
  <2>1. e \in Descriptors BY ZenonT(40) DEF Descriptors, Phases
  <2>2. Sound(e) /\ e.user = processes[c].user BY <1>2, ZenonT(40) DEF Sound, Descriptors, Phases, LaunchKept, Fits
  <2>3. Becomes(c, e) BY <1>2 DEF BeginProcessTermination
  <2> HIDE DEF e
  <2> QED BY <2>1, <2>2, <2>3, DescriptorStep
<1> QED BY <1>1, <1>2

\* A new capability belongs to nobody.
LEMMA CreateHolds ==
    ASSUME ProcessesInv, NEW c \in Capabilities, CreatePrivilegedProcess(c)
    PROVE  ProcessesInv'
<1> DEFINE d == [NoDescriptor EXCEPT !.phase = "awaiting claim", !.timer = TRUE]
<1>1. d \in Descriptors /\ Sound(d) /\ d.user = "none" /\ d.phase = "awaiting claim"
  BY NothingIsSound DEF NoDescriptor, Descriptors, Phases, Sound, LaunchKept, Fits
<1>2. processes' = [processes EXCEPT ![c] = d] BY DEF CreatePrivilegedProcess, Becomes
<1> HIDE DEF d
<1>3. processes' \in [Capabilities -> Descriptors] /\ \A x \in Capabilities : Sound(processes'[x])
  BY <1>1, <1>2 DEF ProcessesInv
<1>4. Live' = Live \cup {c} BY <1>1, <1>2 DEF ProcessesInv, Live, Exists
<1>6. \A u \in Users : Of(u)' = Of(u)
  <2> SUFFICES ASSUME NEW u \in Users PROVE Of(u)' = Of(u) OBVIOUS
  <2>1. c \notin Of(u) /\ c \notin Of(u)'
    BY <1>1, <1>2, CapabilityAssumption DEF Of, Live, ProcessesInv, CreatePrivilegedProcess
  <2> QED BY <1>2, <1>4, <2>1 DEF Of, ProcessesInv, Live
<1> QED BY <1>3, <1>4, <1>6, FS_AddElement DEF ProcessesInv, WithinQuota

\* A claim is counted against its user's quota before it is made.
LEMMA ClaimHolds ==
    ASSUME ProcessesInv, NEW c \in Capabilities, NEW u \in Users, HandleProcessConnection(c, u)
    PROVE  ProcessesInv'
<1>1. CASE FinalizeProcessCapability(c) BY <1>1, FinalizeHolds
<1>2. CASE ~FinalizeProcessCapability(c)
  <2> DEFINE d == [processes[c] EXCEPT !.phase = "awaiting start", !.user = u, !.rejected = 0, !.conn = "up", !.timer = TRUE]
  <2>1. processes' = [processes EXCEPT ![c] = d] /\ QuotaAvailable(u) /\ processes[c].phase = "awaiting claim"
    BY <1>2 DEF HandleProcessConnection, Becomes
  <2>2. d \in Descriptors /\ d.user = u /\ d.phase = "awaiting start"
    <3>1. processes[c] \in Descriptors BY DEF ProcessesInv
    <3> QED BY <3>1 DEF Descriptors, Phases
  <2>3. Sound(d)
    <3>1. processes[c] \in Descriptors /\ Sound(processes[c]) BY DEF ProcessesInv
    <3> QED BY <2>1, <3>1 DEF Sound, Descriptors, LaunchKept, Fits
  <2> HIDE DEF d
  <2>4. processes' \in [Capabilities -> Descriptors] /\ \A x \in Capabilities : Sound(processes'[x])
    BY <2>1, <2>2, <2>3 DEF ProcessesInv
  <2>5. c \in Live /\ Live' = Live BY <2>1, <2>2 DEF ProcessesInv, Live, Exists
  <2>6. \A v \in Users \ {u} : Of(v)' = Of(v)
    <3> SUFFICES ASSUME NEW v \in Users \ {u} PROVE Of(v)' = Of(v) OBVIOUS
    <3>1. c \notin Of(v) /\ c \notin Of(v)' BY <2>1, <2>2, CapabilityAssumption DEF Of, Live, ProcessesInv, Sound, LaunchKept, Fits
    <3> QED BY <2>1, <2>5, <3>1 DEF Of, ProcessesInv, Live
  <2>7. Of(u)' = Of(u) \cup {c} /\ c \notin Of(u)
    <3>1. c \in Of(u)' /\ c \notin Of(u) BY <2>1, <2>2, <2>5, CapabilityAssumption DEF Of, Live, ProcessesInv, Sound, LaunchKept, Fits
    <3> QED BY <2>1, <2>5, <3>1 DEF Of, ProcessesInv, Live
  <2>8. Of(u) = {x \in Live : processes[x].phase # "awaiting claim" /\ processes[x].user = u}
    <3>1. \A x \in Live : processes[x].phase = "awaiting claim" => processes[x].user # u
      BY CapabilityAssumption DEF Live, ProcessesInv, Sound, LaunchKept, Fits
    <3> QED BY <3>1 DEF Of
  <2>9. IsFiniteSet(Of(u)) BY FS_Subset DEF Of, ProcessesInv
  <2>10. Cardinality(Of(u)) < MaxPerUser BY <2>1, <2>8 DEF QuotaAvailable
  <2>11. Cardinality(Of(u)') <= MaxPerUser
    <3>1. Cardinality(Of(u)') = Cardinality(Of(u)) + 1 /\ Cardinality(Of(u)) \in Nat
      BY <2>7, <2>9, FS_AddElement, FS_CardinalityType
    <3> QED BY <3>1, <2>10, CapabilityAssumption
  <2> QED BY <2>4, <2>5, <2>6, <2>11 DEF ProcessesInv, WithinQuota
<1> QED BY <1>1, <1>2

\* A step that leaves a sound descriptor of the same user in its place.
LEMMA SameUser ==
    ASSUME ProcessesInv, NEW c \in Capabilities, Exists(c), NEW d \in Descriptors, Sound(d),
           d.user = processes[c].user, Becomes(c, d)
    PROVE  ProcessesInv'
BY DescriptorStep

\* A connection belongs to a capability that was claimed.
LEMMA UpIsClaimed ==
    ASSUME ProcessesInv, NEW c \in Capabilities, processes[c].conn # "none" \/ processes[c].goneQueued
                                          \/ processes[c].real # "not running"
    PROVE  Exists(c) /\ processes[c].phase # "awaiting claim"
<1>1. Sound(processes[c]) BY DEF ProcessesInv
<1> QED BY <1>1, NothingIsSound DEF Sound, Exists, LaunchKept, Fits

\* A refusal leaves a claimed descriptor sound (rejectLaunchSpecification).
LEMMA RefusalIsSound ==
    ASSUME NEW d \in Descriptors, Sound(d), d.phase \notin {"none", "awaiting claim"}
    PROVE  Refuse(d) \in Descriptors /\ Sound(Refuse(d)) /\ Refuse(d).user = d.user
<1> DEFINE r == Refuse(d)
<1>1. r \in Descriptors /\ r.user = d.user BY DEF Descriptors, Refuse, Resting
<1>2. LaunchKept(r) BY DEF Descriptors, Sound, LaunchKept, Fits, Refuse, Resting
<1>3. /\ r.phase = d.phase /\ r.conn = d.conn /\ r.goneQueued = d.goneQueued /\ r.timer = d.timer
      /\ r.state = d.state /\ r.real = d.real BY DEF Descriptors, Refuse
<1> HIDE DEF r
<1>4. Sound(r) BY <1>2, <1>3 DEF Sound
<1> QED BY <1>1, <1>4 DEF r

\* Every step of the service keeps the invariant.
LEMMA ProcessesStepHolds ==
    ASSUME ProcessesInv, CapabilityStep
    PROVE  ProcessesInv'
<1> PICK c \in Capabilities :
        \/ CreatePrivilegedProcess(c) \/ RejectPeer(c) \/ SocketCloses(c)
        \/ \E u \in Users : HandleProcessConnection(c, u)
        \/ HandleProcessSocketGone(c) \/ HandleProcessTimeout(c)
        \/ \E p \in Programs \cup {"none"} : SetProgram(c, p)
        \/ SetArguments(c) \/ SetForbidden(c)
        \/ Start(c) \/ Started(c) \/ FailsToStart(c) \/ Finishes(c) \/ ClientEnds(c) BY DEF CapabilityStep
<1>0. processes[c] \in Descriptors /\ Sound(processes[c]) BY DEF ProcessesInv
<1>1. CASE CreatePrivilegedProcess(c) BY <1>1, CreateHolds
<1>2. CASE RejectPeer(c)
  <2> DEFINE d == [processes[c] EXCEPT !.rejected = @ + 1]
  <2>1. Exists(c) /\ (FinalizeProcessCapability(c) \/ Becomes(c, d)) BY <1>2 DEF RejectPeer, Exists
  <2>2. d \in Descriptors /\ d.user = processes[c].user
    <3>0. processes[c].rejected \in Nat BY <1>0 DEF Descriptors
    <3>1. processes[c].rejected + 1 \in Nat BY <3>0
    <3>2. \A n \in Nat : [processes[c] EXCEPT !.rejected = n] \in Descriptors BY <1>0 DEF Descriptors
    <3> QED BY <1>0, <3>1, <3>2 DEF Descriptors
  <2>3. Sound(d) BY <1>0, <2>1 DEF Descriptors, Sound, Exists, LaunchKept, Fits
  <2> HIDE DEF d
  <2> QED BY <2>1, <2>2, <2>3, SameUser, FinalizeHolds
<1>3. CASE SocketCloses(c)
  <2> DEFINE d == [processes[c] EXCEPT !.conn = "closed", !.goneQueued = TRUE]
  <2>1. Exists(c) /\ processes[c].phase # "awaiting claim" /\ Becomes(c, d) BY <1>3, UpIsClaimed DEF SocketCloses
  <2>2. d \in Descriptors /\ Sound(d) /\ d.user = processes[c].user
    BY <1>0, <2>1, ZenonT(40) DEF Descriptors, Sound, Exists, LaunchKept, Fits
  <2> HIDE DEF d
  <2> QED BY <2>1, <2>2, SameUser
<1>4. CASE \E u \in Users : HandleProcessConnection(c, u) BY <1>4, ClaimHolds
<1>5. CASE HandleProcessSocketGone(c)
  <2> DEFINE d == [processes[c] EXCEPT !.goneQueued = FALSE, !.conn = "none"]
  <2>1. Exists(c) /\ (FinalizeProcessCapability(c) \/ BeginProcessTermination(c, d))
    BY <1>5, UpIsClaimed DEF HandleProcessSocketGone
  <2>2. /\ d \in Descriptors /\ d.user = processes[c].user
        /\ d.state = IF d.real = "killed" THEN "running" ELSE d.real
        /\ LaunchKept(d) BY <1>0 DEF Descriptors, Sound, LaunchKept, Fits
  <2> HIDE DEF d
  <2> QED BY <2>1, <2>2, TerminationHolds, FinalizeHolds
<1>6. CASE HandleProcessTimeout(c)
  <2> DEFINE d == [processes[c] EXCEPT !.timer = FALSE]
  <2>1. Exists(c) BY <1>0, <1>6, NothingIsSound DEF HandleProcessTimeout, Exists, Sound, LaunchKept, Fits
  <2>2. d.phase = processes[c].phase /\ d.phase \in Phases \ {"none"} BY <1>0, <2>1 DEF Descriptors, Exists
  <2>3. FinalizeProcessCapability(c) \/ BeginProcessTermination(c, d) BY <1>6, <2>2 DEF HandleProcessTimeout, Phases
  <2>4. /\ d \in Descriptors /\ d.user = processes[c].user
        /\ d.state = IF d.real = "killed" THEN "running" ELSE d.real
        /\ LaunchKept(d) BY <1>0 DEF Descriptors, Sound, LaunchKept, Fits
  <2> HIDE DEF d
  <2> QED BY <2>1, <2>3, <2>4, TerminationHolds, FinalizeHolds
<1>7. CASE \E p \in Programs \cup {"none"} : SetProgram(c, p)
  <2> PICK p \in Programs \cup {"none"} : SetProgram(c, p) BY <1>7
  <2> DEFINE o == processes[c]
             d == [o EXCEPT !.program = p, !.arguments = FALSE, !.refused = (p = "none"), !.late = ~Resting(o),
                            !.inProgram = IF Resting(o) THEN p ELSE @, !.inArguments = IF Resting(o) THEN "none" ELSE @]
  <2>1. Exists(c) /\ processes[c].phase # "awaiting claim" BY UpIsClaimed DEF SetProgram, Up
  <2>2. Becomes(c, d) BY DEF SetProgram
  <2>3. d \in Descriptors /\ d.user = processes[c].user
    BY <1>0, ZenonT(40) DEF Descriptors, Resting
  <2>4. LaunchKept(d) BY <1>0, CapabilityAssumption DEF Descriptors, Sound, LaunchKept, Fits, Resting
  <2>5. Sound(d) BY <1>0, <2>1, <2>4 DEF Descriptors, Sound, Exists, LaunchKept, Fits
  <2> HIDE DEF d
  <2> QED BY <2>1, <2>2, <2>3, <2>5, SameUser
<1>8. CASE SetArguments(c)
  <2> DEFINE o == processes[c]
             d == [o EXCEPT !.arguments = TRUE, !.inArguments = IF Resting(o) THEN o.program ELSE @]
             r == Refuse(o)
  <2>1. Exists(c) /\ processes[c].phase # "awaiting claim" BY <1>8, UpIsClaimed DEF SetArguments, Up
  <2>2. (o.program # "none" /\ Becomes(c, d)) \/ Becomes(c, r) BY <1>8 DEF SetArguments
  <2>3. d \in Descriptors /\ d.user = processes[c].user BY <1>0 DEF Descriptors, Resting
  <2>4. o.program # "none" => LaunchKept(d) BY <1>0 DEF Descriptors, Sound, LaunchKept, Fits, Resting
  <2>5. o.program # "none" => Sound(d) BY <1>0, <2>1, <2>4 DEF Descriptors, Sound, Exists, LaunchKept, Fits
  <2>6. r \in Descriptors /\ Sound(r) /\ r.user = processes[c].user BY <1>0, <2>1, RefusalIsSound DEF Exists
  <2> HIDE DEF d, r
  <2> QED BY <2>1, <2>2, <2>3, <2>5, <2>6, SameUser
<1>9. CASE SetForbidden(c)
  <2> DEFINE r == Refuse(processes[c])
  <2>1. Exists(c) /\ processes[c].phase # "awaiting claim" /\ Becomes(c, r) BY <1>9, UpIsClaimed DEF SetForbidden, Up
  <2>2. r \in Descriptors /\ Sound(r) /\ r.user = processes[c].user BY <1>0, <2>1, RefusalIsSound DEF Exists
  <2> HIDE DEF r
  <2> QED BY <2>1, <2>2, SameUser
<1>10. CASE Start(c)
  <2> DEFINE d == processes[c]
             f == [d EXCEPT !.phase = "finished", !.timer = TRUE]
             s == [d EXCEPT !.real = "starting", !.state = "starting"]
  <2>1. Exists(c) /\ d.phase # "awaiting claim" /\ d.real = "not running" BY <1>10, UpIsClaimed DEF Start, Up, Resting
  <2>2. Becomes(c, f) \/ (d.arguments /\ Becomes(c, s)) BY <1>0, <1>10, <2>1 DEF Start, Sound
  <2>3. f \in Descriptors /\ Sound(f) /\ f.user = processes[c].user
    BY <1>0, <2>1 DEF Descriptors, Sound, Exists, Phases, LaunchKept, Fits
  <2>4. d.arguments => s \in Descriptors /\ Sound(s) /\ s.user = processes[c].user
    BY <1>0, <2>1 DEF Descriptors, Sound, Exists, LaunchKept, Fits
  <2> HIDE DEF d, f, s
  <2> QED BY <2>1, <2>2, <2>3, <2>4, SameUser
<1>11. CASE Started(c)
  <2> DEFINE b == [processes[c] EXCEPT !.real = "running", !.state = "running"]
             d == [b EXCEPT !.phase = "running", !.timer = FALSE]
  <2>1. Exists(c) BY <1>11, UpIsClaimed DEF Started
  <2>2. BeginProcessTermination(c, b) \/ (b.conn = "up" /\ Becomes(c, d)) BY <1>11 DEF Started
  <2>3. /\ b \in Descriptors /\ b.user = processes[c].user
        /\ b.state = IF b.real = "killed" THEN "running" ELSE b.real
        /\ LaunchKept(b) BY <1>0, <1>11 DEF Descriptors, Sound, LaunchKept, Fits, Started
  <2>4. b.conn = "up" => d \in Descriptors /\ Sound(d) /\ d.user = processes[c].user
    BY <1>0, <1>11 DEF Descriptors, Sound, Phases, Started, LaunchKept, Fits
  <2> HIDE DEF b, d
  <2> QED BY <2>1, <2>2, <2>3, <2>4, SameUser, TerminationHolds
<1>12. CASE FailsToStart(c) \/ Finishes(c)
  <2> DEFINE d == [processes[c] EXCEPT !.real = "not running", !.state = "not running",
                                       !.phase = "finished", !.timer = TRUE]
  <2>1. Exists(c) /\ Becomes(c, d) BY <1>12, UpIsClaimed DEF FailsToStart, Finishes
  <2>2. d \in Descriptors /\ d.user = processes[c].user BY <1>0 DEF Descriptors, Phases
  <2>3. Sound(d) BY <1>0 DEF Descriptors, Sound, LaunchKept, Fits
  <2> HIDE DEF d
  <2> QED BY <2>1, <2>2, <2>3, SameUser
<1>13. CASE ClientEnds(c)
  <2> DEFINE d == [processes[c] EXCEPT !.real = "killed"]
  <2>1. Exists(c) /\ processes[c].phase # "awaiting claim" /\ Becomes(c, d) BY <1>13, UpIsClaimed DEF ClientEnds, Up
  <2>2. d \in Descriptors /\ Sound(d) /\ d.user = processes[c].user
    BY <1>0, <1>13, <2>1 DEF Descriptors, Sound, Exists, ClientEnds, LaunchKept, Fits
  <2> HIDE DEF d
  <2> QED BY <2>1, <2>2, SameUser
<1> QED BY <1>1, <1>2, <1>3, <1>4, <1>5, <1>6, <1>7, <1>8, <1>9, <1>10, <1>11, <1>12, <1>13

\* The invariant is inductive.
THEOREM CapabilityInvariance == CapabilitySpec => []ProcessesInv
<1>1. ProcessesInv /\ [CapabilityStep]_processes => ProcessesInv'
  BY ProcessesStepHolds DEF ProcessesInv, WithinQuota, Of, Live, Exists
<1> QED BY <1>1, ProcessesInitHolds, PTL DEF CapabilitySpec

\* A privileged process always has somebody or something to end it, users stay
\* within their quota, and what runs is a permitted program with arguments checked
\* for it, unless the program was named while an earlier process ran (IpcServer's process capabilities and IpcServerProcess).
THEOREM AttendedAlways == CapabilitySpec => []ProcessesAttended
<1>1. ProcessesInv => ProcessesAttended
  <2> SUFFICES ASSUME ProcessesInv PROVE ProcessesAttended OBVIOUS
  <2>1. ASSUME NEW c \in Live
        PROVE  LET d == processes[c] IN
               /\ d.real \in {"starting", "running"} => d.conn = "up" \/ d.goneQueued \/ d.timer
               /\ d.phase = "running" => d.conn = "up" \/ d.goneQueued
               /\ d.phase # "running" => d.timer
               /\ d.real # "not running" => Fits(d) BY <2>1 DEF ProcessesInv, Sound, LaunchKept, Live, Exists
  <2>2. \A u \in Users : Cardinality({c \in Live : processes[c].user = u}) <= MaxPerUser
    BY DEF ProcessesInv, WithinQuota, Of
  <2> QED BY <2>1, <2>2 DEF ProcessesAttended
<1> QED BY <1>1, CapabilityInvariance, PTL

-----------------------------------------------------------------------------
(***************************************************************************)
(* The Windows split tunnel.  The invariant says who holds the device,     *)
(* that a helper of an earlier service can no longer get it once the       *)
(* service has reset the driver, and what the rules in force can be at     *)
(* each point of the handoff to a helper.                                  *)
(***************************************************************************)

\* The service waits for the helper it launched.
AwaitsHelper == split.pc \in {"wait", "waitExit", "exitCode", "cleanupWait"}
InBoot == split.pc \in {"boot", "unusable"}
Slots == 1 .. MaxHelpers
HoldingSteps == {"opened", "set", "control", "clean"}

Drivers ==
    [state : {"absent", "stopped", "started", "initialized", "ready", "running"},
     rules : SUBSET Apps, owner : 0 .. SplitService]
Managers ==
    [life : Nat \ {0},
     pc : {"boot", "unusable", "create", "idle", "start", "exclude", "wait", "waitExit", "exitCode",
           "stop", "cleanup", "cleanupWait"},
     up : BOOLEAN, open : BOOLEAN, quarantined : 0 .. MaxHelpers, gateFailed : BOOLEAN, op : SUBSET Apps,
     helper : 0 .. MaxHelpers, ret : {"none", "apply", "reapStart", "reapStop", "stop"},
     told : {"none", "ok", "failed"}, accepted : SUBSET Apps]
HelperProcesses ==
    [kind : {"none", "config", "cleanup"}, pc : {"new", "exited"} \cup HoldingSteps, apps : SUBSET Apps,
     abort : BOOLEAN, commit : BOOLEAN, configured : BOOLEAN, life : Nat,
     exit : {"none", "verified", "openFailed", "ioctlFailed", "success", "cleanupFailed", "killed"}]

SplitTypeOK == driver \in Drivers /\ split \in Managers /\ helpers \in [Slots -> HelperProcesses]

\* The helper the running service waits for or has put in quarantine.
Current(h) == (AwaitsHelper /\ h = split.helper) \/ h = split.quarantined

\* The device has one holder, which is the one its owner says.
OneHolder ==
    /\ split.open <=> driver.owner = SplitService
    /\ \A h \in Slots : helpers[h].pc \in HoldingSteps <=> driver.owner = h
    /\ ~Loaded(driver) => driver.owner = Nobody
    /\ driver.rules # {} => driver.state = "running"

\* A helper is the current one, or one of an earlier service that, once the
\* driver was reset, is not holding it.
HelpersKnown ==
    \A h \in Slots :
        /\ Current(h) /\ ~Exited(h) => helpers[h].life = split.life
        /\ ~Current(h) => /\ Exited(h) => helpers[h] = NoHelper
                          /\ ~Exited(h) => /\ helpers[h].life < split.life
                                           /\ ~InBoot => helpers[h].pc = "new"

\* Where the service holds the device, and where it waits.
ManagerOK ==
    /\ AwaitsHelper => split.helper # 0 /\ split.quarantined = 0 /\ ~split.open
    /\ split.pc \in {"exclude", "cleanup"} => split.open
    /\ split.open => split.quarantined = 0
    /\ split.pc \in {"exclude", "wait", "waitExit", "exitCode"} => ~split.gateFailed
    /\ split.pc \in {"cleanup", "cleanupWait"} => split.ret # "none"
    /\ split.pc = "exitCode" => Exited(split.helper)
    /\ InBoot \/ split.pc = "create" => split.quarantined = 0 /\ ~split.open /\ split.told = "none" /\ ~split.gateFailed
    /\ split.pc = "create" => driver.rules = {} /\ driver.owner = Nobody

Harmless == driver.rules \in {{}, split.accepted}
\* The service is between two helpers and relies on the driver as it is.
Relies ==
    /\ ~InBoot /\ ~AwaitsHelper /\ split.quarantined = 0 /\ ~split.gateFailed
    /\ split.pc # "cleanup" /\ ~(split.pc = "stop" /\ split.open)

\* What the rules can be.
RulesKnown ==
    /\ Relies => Harmless
    /\ \A h \in Slots : Current(h) =>
          /\ helpers[h].pc \in {"new", "opened", "set"} => Harmless
          /\ helpers[h].pc = "control" => driver.rules = helpers[h].apps /\ driver.state = "running"
          /\ Exited(h) /\ helpers[h].exit = "verified" => Harmless
    /\ split.pc \in {"wait", "waitExit", "exitCode"} =>
          /\ helpers[split.helper].pc \in {"new", "opened", "set", "control", "exited"}
          /\ ~Exited(split.helper) => helpers[split.helper].apps = AppConfiguration(split.op)
          /\ Exited(split.helper) /\ helpers[split.helper].exit = "success" =>
                driver.rules = AppConfiguration(split.op) /\ driver.state = "running"
    /\ split.pc = "idle" /\ split.told = "ok" /\ split.op # {} =>
          split.open /\ ~split.gateFailed /\ driver.rules = AppConfiguration(split.op)

SplitInv == SplitTypeOK /\ OneHolder /\ HelpersKnown /\ ManagerOK /\ RulesKnown

\* The typing facts a step may use.
LEMMA SplitParts ==
    ASSUME SplitInv
    PROVE  /\ driver \in Drivers /\ split \in Managers /\ helpers \in [Slots -> HelperProcesses]
           /\ DOMAIN helpers = Slots /\ NoHelper \in HelperProcesses
           /\ MaxHelpers \in Nat /\ SplitService = MaxHelpers + 1 /\ SplitService \notin Slots /\ Nobody \notin Slots
           /\ Nobody = 0
           /\ SplitService \in 0 .. SplitService /\ Nobody \in 0 .. SplitService /\ Slots \subseteq 0 .. SplitService
           /\ Slots \subseteq 0 .. MaxHelpers
           /\ Convertible \subseteq Apps
<1> QED BY SplitAssumption DEF SplitInv, SplitTypeOK, SplitService, Nobody, Slots, NoHelper, HelperProcesses

\* A step of the service that touches neither the driver nor a helper.
LEMMA ManagerOnly ==
    ASSUME SplitInv, UNCHANGED <<driver, helpers>>, split' \in Managers,
           split'.life = split.life, split'.open = split.open, split'.quarantined = split.quarantined,
           split'.accepted = split.accepted, InBoot' <=> InBoot, AwaitsHelper' <=> AwaitsHelper,
           AwaitsHelper => split'.helper = split.helper /\ split'.op = split.op,
           split'.pc \in {"wait", "waitExit", "exitCode"} <=> split.pc \in {"wait", "waitExit", "exitCode"},
           ManagerOK', Relies' => Harmless,
           split'.pc = "idle" /\ split'.told = "ok" /\ split'.op # {} =>
               split.open /\ ~split'.gateFailed /\ driver.rules = AppConfiguration(split'.op)
    PROVE  SplitInv'
<1>3. \A h \in Slots : Current(h)' <=> Current(h) BY DEF Current
<1> QED BY <1>3 DEF SplitInv, SplitTypeOK, OneHolder, HelpersKnown, Exited, Harmless, AwaitsHelper, RulesKnown

\* Only one helper is the current one.
LEMMA OneCurrent ==
    ASSUME SplitInv, NEW h \in Slots, NEW g \in Slots, Current(h), Current(g)
    PROVE  h = g
BY SplitParts DEF SplitInv, ManagerOK, Current

\* A helper that is awaited or quarantined is a helper of this service.
LEMMA AwaitedInSlots ==
    ASSUME SplitInv
    PROVE  /\ AwaitsHelper => split.helper \in Slots /\ Current(split.helper)
           /\ split.quarantined # 0 => split.quarantined \in Slots /\ Current(split.quarantined)
<1> QED BY SplitParts DEF SplitInv, ManagerOK, Current, Slots, Managers

-----------------------------------------------------------------------------
(* The helper processes. *)

ExitCodes == {"verified", "openFailed", "ioctlFailed", "success", "cleanupFailed", "killed"}

\* A helper of an earlier service acts only while the service boots, when
\* nothing is claimed of the rules.
LEMMA OrphanIdle ==
    ASSUME SplitInv, NEW h \in Slots, ~Exited(h), ~Current(h), helpers[h].pc # "new"
    PROVE  InBoot /\ \A g \in Slots : ~Current(g)
<1>1. InBoot BY DEF SplitInv, HelpersKnown
<1> QED BY <1>1, SplitParts DEF Current, SplitInv, ManagerOK, InBoot, AwaitsHelper

\* What an exit makes of the helper's place.
LEMMA ExitedPlace ==
    ASSUME SplitInv, NEW h \in Slots, ~Exited(h), NEW code \in ExitCodes, Exit(h, code)
    PROVE  /\ helpers' \in [Slots -> HelperProcesses]
           /\ \A g \in Slots \ {h} : helpers'[g] = helpers[g]
           /\ helpers'[h].pc = "exited"
           /\ Current(h) => helpers'[h].exit = code
           /\ ~Current(h) => helpers'[h] = NoHelper
<1> DEFINE new == IF ParentGone(h) THEN NoHelper
                  ELSE [NoHelper EXCEPT !.configured = helpers[h].configured \/ code = "ioctlFailed", !.exit = code]
<1>1. helpers' = [helpers EXCEPT ![h] = new] BY DEF Exit
<1>3. new \in HelperProcesses /\ new.pc = "exited" /\ (~ParentGone(h) => new.exit = code) /\ (ParentGone(h) => new = NoHelper)
  <2>1. CASE ParentGone(h) BY <2>1 DEF HelperProcesses, NoHelper
  <2>2. CASE ~ParentGone(h)
    <3>1. (helpers[h].configured \/ code = "ioctlFailed") \in BOOLEAN OBVIOUS
    <3> QED BY <2>2, <3>1 DEF HelperProcesses, NoHelper, ExitCodes
  <2> QED BY <2>1, <2>2
<1> HIDE DEF new
<1> QED BY <1>1, <1>3, SplitParts DEF HelperProcesses, Managers, SplitInv, HelpersKnown, ParentGone

\* A helper exits, having left the driver as it was or with no rule.
LEMMA HelperExits ==
    ASSUME SplitInv, NEW h \in Slots, ~Exited(h), NEW code \in ExitCodes, Exit(h, code), UNCHANGED split,
           NEW d \in {driver, Clear(driver)}, driver' = Drop(d, h), d = driver \/ helpers[h].pc \in HoldingSteps,
           code = "verified" /\ Current(h) => d.rules \in {{}, split.accepted},
           code = "success" => helpers[h].pc = "control" /\ d = driver
    PROVE  SplitInv'
<1>1. /\ helpers' \in [Slots -> HelperProcesses]
      /\ \A g \in Slots \ {h} : helpers'[g] = helpers[g]
      /\ helpers'[h].pc = "exited"
      /\ Current(h) => helpers'[h].exit = code
      /\ ~Current(h) => helpers'[h] = NoHelper BY ExitedPlace
<1>2. /\ driver' \in Drivers /\ driver'.rules = d.rules /\ driver'.state = d.state
      /\ driver'.owner = IF driver.owner = h THEN Nobody ELSE driver.owner
      /\ d = driver \/ (d.rules = {} /\ d.state = "ready" /\ driver.owner = h)
  <2>1. d \in Drivers /\ d.owner = driver.owner /\ (d = driver \/ (d.rules = {} /\ d.state = "ready"))
    BY SplitParts DEF Drivers, Clear
  <2> QED BY <2>1, SplitParts DEF Drivers, Drop, SplitInv, OneHolder
<1>5. \A g \in Slots : Current(g)' <=> Current(g) BY DEF Current, AwaitsHelper
<1> QED
  BY <1>1, <1>2, <1>5, OneCurrent, OrphanIdle, AwaitedInSlots, SplitParts DEF SplitInv, SplitTypeOK, OneHolder,
    HoldingSteps, Nobody, Loaded, Exited, HelpersKnown, InBoot, AwaitsHelper, ManagerOK, Harmless, RulesKnown, Relies,
    AppConfiguration

\* A helper goes on with the device in its hands: the rules stay until its
\* IOCTL puts its own in force.
LEMMA HelperGoesOn ==
    ASSUME SplitInv, NEW h \in Slots, ~Exited(h), NEW new \in HelperProcesses, UNCHANGED split,
           helpers' = [helpers EXCEPT ![h] = new], new.life = helpers[h].life, new.apps = helpers[h].apps,
           driver' \in Drivers, driver'.owner = h, driver.owner \in {Nobody, h}, Loaded(driver)',
           Current(h) \/ InBoot,
           \/ /\ helpers[h].pc \in {"new", "opened"} /\ new.pc \in {"opened", "set"}
              /\ driver'.rules = driver.rules /\ driver'.state = driver.state
           \/ helpers[h].pc = "set" /\ new.pc = "control" /\ driver'.rules = new.apps /\ driver'.state = "running"
    PROVE  SplitInv'
<1>1. /\ helpers' \in [Slots -> HelperProcesses] /\ helpers'[h] = new
      /\ \A g \in Slots \ {h} : helpers'[g] = helpers[g] BY SplitParts
<1>4. \A g \in Slots : Current(g)' <=> Current(g) BY DEF Current, AwaitsHelper
<1> QED
  BY <1>1, <1>4, OneCurrent, AwaitedInSlots, SplitParts DEF SplitInv, SplitTypeOK, OneHolder, HoldingSteps, Exited,
    HelpersKnown, InBoot, AwaitsHelper, ManagerOK, Current, Relies, RulesKnown, Harmless, AppConfiguration

\* A helper whose service is gone is not the current one.
LEMMA OwnHelper ==
    ASSUME SplitInv, NEW h \in Slots, ~Exited(h), ~StopSignalled(h)
    PROVE  Current(h)
<1> QED BY SplitParts DEF SplitInv, HelpersKnown, StopSignalled, ParentGone, HelperProcesses, Managers

\* A helper opens the device when nobody holds it, or exits.
LEMMA HelperOpensHolds ==
    ASSUME SplitInv, NEW h \in Slots, HelperOpens(h)
    PROVE  SplitInv'
<1>1. ~Exited(h) /\ helpers[h].pc = "new" /\ UNCHANGED split /\ driver.owner # h
  BY DEF HelperOpens, Exited, SplitInv, OneHolder, HoldingSteps
<1>2. CASE \E code \in {"verified", "openFailed"} : Exit(h, code) /\ UNCHANGED driver
  BY <1>2, <1>1, HelperExits DEF Drop, ExitCodes, SplitInv, RulesKnown, Harmless
<1>3. CASE /\ ~StopSignalled(h) /\ Openable /\ driver' = [driver EXCEPT !.owner = h]
           /\ helpers' = [helpers EXCEPT ![h].pc = "opened"]
  <2> DEFINE new == [helpers[h] EXCEPT !.pc = "opened"]
  <2>1. /\ new \in HelperProcesses /\ new.life = helpers[h].life /\ new.apps = helpers[h].apps /\ new.pc = "opened"
        /\ helpers' = [helpers EXCEPT ![h] = new] BY <1>3, SplitParts DEF HelperProcesses, HoldingSteps
  <2>2. driver' \in Drivers /\ driver'.owner = h /\ driver'.rules = driver.rules /\ driver'.state = driver.state
    BY <1>3, SplitParts DEF Drivers
  <2>3. driver.owner = Nobody /\ Loaded(driver)' BY <1>3, <2>2 DEF Openable, Loaded
  <2>4. Current(h) BY <1>1, <1>3, OwnHelper
  <2> HIDE DEF new
  <2> QED BY <1>1, <2>1, <2>2, <2>3, <2>4, HelperGoesOn
<1> QED BY <1>2, <1>3 DEF HelperOpens

\* A helper that has the device reads the gate of its launch again.
LEMMA HelperRechecksHolds ==
    ASSUME SplitInv, NEW h \in Slots, HelperRechecks(h)
    PROVE  SplitInv'
<1>1. ~Exited(h) /\ helpers[h].pc = "opened" /\ UNCHANGED split /\ driver.owner = h
  BY DEF HelperRechecks, Exited, SplitInv, OneHolder, HoldingSteps
<1>2. CASE Exit(h, "verified") /\ driver' = Drop(driver, h)
  BY <1>1, <1>2, HelperExits DEF SplitInv, RulesKnown, Harmless, ExitCodes
<1>3. CASE ~StopSignalled(h) /\ helpers' = [helpers EXCEPT ![h].pc = "set"] /\ UNCHANGED driver
  <2> DEFINE new == [helpers[h] EXCEPT !.pc = "set"]
  <2>1. /\ new \in HelperProcesses /\ new.life = helpers[h].life /\ new.apps = helpers[h].apps /\ new.pc = "set"
        /\ helpers' = [helpers EXCEPT ![h] = new] BY <1>3, SplitParts DEF HelperProcesses, HoldingSteps
  <2>2. driver' \in Drivers /\ driver'.owner = h /\ driver'.rules = driver.rules /\ driver'.state = driver.state
    BY <1>1, <1>3, SplitParts
  <2>3. Loaded(driver)' BY <1>1, <1>3, SplitParts DEF SplitInv, OneHolder, Loaded
  <2>4. Current(h) BY <1>1, <1>3, OwnHelper
  <2> HIDE DEF new
  <2> QED BY <1>1, <2>1, <2>2, <2>3, <2>4, HelperGoesOn
<1> QED BY <1>2, <1>3 DEF HelperRechecks

\* A helper gives the driver the rules of its request.
LEMMA HelperSetsHolds ==
    ASSUME SplitInv, NEW h \in Slots, HelperSets(h)
    PROVE  SplitInv'
<1>1. ~Exited(h) /\ helpers[h].pc = "set" /\ UNCHANGED split /\ driver.owner = h
  BY DEF HelperSets, Exited, SplitInv, OneHolder, HoldingSteps
<1>2. CASE Exit(h, "ioctlFailed") /\ driver' = Drop(driver, h) BY <1>1, <1>2, HelperExits DEF ExitCodes
<1>3. CASE /\ driver' = [driver EXCEPT !.state = "running", !.rules = helpers[h].apps]
           /\ helpers' = [helpers EXCEPT ![h].pc = "control", ![h].configured = TRUE]
  <2> DEFINE new == [helpers[h] EXCEPT !.pc = "control", !.configured = TRUE]
  <2>1. /\ new \in HelperProcesses /\ new.life = helpers[h].life /\ new.apps = helpers[h].apps /\ new.pc = "control"
        /\ helpers' = [helpers EXCEPT ![h] = new] BY <1>3, SplitParts DEF HelperProcesses, HoldingSteps
  <2>2. driver' \in Drivers /\ driver'.owner = h /\ driver'.rules = new.apps /\ driver'.state = "running"
    BY <1>1, <1>3, SplitParts DEF Drivers, HelperProcesses
  <2>3. Loaded(driver)' BY <2>2 DEF Loaded
  <2>4. Current(h) \/ InBoot BY <1>1, OrphanIdle
  <2> HIDE DEF new
  <2> QED BY <1>1, <2>1, <2>2, <2>3, <2>4, HelperGoesOn
<1> QED BY <1>2, <1>3 DEF HelperSets

\* A helper that has set the rules commits them, or clears them and exits.
LEMMA HelperControlHolds ==
    ASSUME SplitInv, NEW h \in Slots, HelperControl(h)
    PROVE  SplitInv'
<1>1. ~Exited(h) /\ helpers[h].pc = "control" /\ UNCHANGED split /\ helpers[h].pc \in HoldingSteps
  BY DEF HelperControl, Exited, HoldingSteps
<1>2. {"verified", "cleanupFailed", "success"} \subseteq ExitCodes /\ Clear(driver).rules = {}
  BY SplitParts DEF ExitCodes, Clear, Drivers
<1>3. CASE Exit(h, "verified") /\ driver' = Drop(Clear(driver), h) BY <1>1, <1>2, <1>3, HelperExits
<1>4. CASE Exit(h, "cleanupFailed") /\ driver' \in {Drop(driver, h), Drop(Clear(driver), h)}
  BY <1>1, <1>2, <1>4, HelperExits
<1>5. CASE Exit(h, "success") /\ driver' = Drop(driver, h) BY <1>1, <1>2, <1>5, HelperExits
<1> QED BY <1>3, <1>4, <1>5 DEF HelperControl

\* The cleanup helper clears the rules, or says that it could not.
LEMMA HelperCleansHolds ==
    ASSUME SplitInv, NEW h \in Slots, HelperCleans(h)
    PROVE  SplitInv'
<1>1. ~Exited(h) /\ helpers[h].pc = "clean" /\ UNCHANGED split /\ helpers[h].pc \in HoldingSteps
  BY DEF HelperCleans, Exited, HoldingSteps
<1>2. {"verified", "cleanupFailed"} \subseteq ExitCodes /\ Clear(driver).rules = {}
  BY SplitParts DEF ExitCodes, Clear, Drivers
<1>3. CASE driver.state = "initialized" /\ Exit(h, "verified") /\ driver' = Drop(driver, h)
  BY <1>3, <1>1, <1>2, HelperExits DEF SplitInv, OneHolder
<1>4. CASE Exit(h, "verified") /\ driver' = Drop(Clear(driver), h) BY <1>1, <1>2, <1>4, HelperExits
<1>5. CASE Exit(h, "cleanupFailed") /\ driver' = Drop(driver, h) BY <1>1, <1>2, <1>5, HelperExits
<1> QED BY <1>3, <1>4, <1>5 DEF HelperCleans

\* A helper dies at any step and the device is closed with it.
LEMMA HelperDiesHolds ==
    ASSUME SplitInv, NEW h \in Slots, HelperDies(h)
    PROVE  SplitInv'
<1> QED BY HelperExits DEF HelperDies, ExitCodes

-----------------------------------------------------------------------------
(* The service: start, stop, crash. *)

\* With the service past its boot nobody but the service and its current
\* helper can hold the device.
LEMMA HolderKnown ==
    ASSUME SplitInv, ~InBoot, \A g \in Slots : Current(g) => Exited(g)
    PROVE  driver.owner = IF split.open THEN SplitService ELSE Nobody
<1> QED BY SplitParts DEF SplitInv, OneHolder, Slots, Drivers, HelpersKnown, Exited, HoldingSteps

\* The service goes on without a current helper; one that exited is reaped.
LEMMA HandBack ==
    ASSUME SplitInv, ~InBoot, \A g \in Slots : Current(g) => Exited(g),
           helpers' \in [Slots -> HelperProcesses],
           \A g \in Slots : helpers'[g] = IF Current(g) THEN NoHelper ELSE helpers[g],
           driver' \in Drivers, driver'.owner = IF split'.open THEN SplitService ELSE Nobody,
           driver'.rules # {} => driver'.state = "running", Loaded(driver)' \/ ~split'.open,
           split' \in Managers, split'.life = split.life, split'.quarantined = 0,
           ~AwaitsHelper', ~InBoot', split'.pc # "create", ManagerOK', Relies' => Harmless',
           split'.pc = "idle" /\ split'.told = "ok" /\ split'.op # {} =>
               split'.open /\ ~split'.gateFailed /\ driver'.rules = AppConfiguration(split'.op)
    PROVE  SplitInv'
<1>2. NoHelper.pc = "exited" BY DEF NoHelper
<1>3. \A g \in Slots : ~Current(g)' BY SplitParts DEF Current
<1> QED
  BY <1>2, <1>3, SplitParts DEF SplitInv, SplitTypeOK, OneHolder, HelpersKnown, Exited, HoldingSteps, AwaitsHelper,
    AppConfiguration, RulesKnown

\* A service that starts resets the driver, or finds it unusable.
LEMMA BootResetHolds ==
    ASSUME SplitInv, BootReset
    PROVE  SplitInv'
<1>1. /\ split.pc = "boot" /\ UNCHANGED helpers /\ split.quarantined = 0 /\ ~split.open /\ split.told = "none"
      /\ ~split.gateFailed BY DEF BootReset, SplitInv, ManagerOK, InBoot
<1>2. CASE split' = [split EXCEPT !.pc = "unusable"] /\ UNCHANGED driver
  BY <1>2, SplitParts, <1>1, ManagerOnly DEF Managers, InBoot, AwaitsHelper, Relies, ManagerOK
<1>3. CASE /\ split' = [split EXCEPT !.pc = "create"] /\ driver' \in Drivers
           /\ driver.owner = Nobody /\ driver'.owner = Nobody /\ driver'.rules = {}
  BY <1>3, SplitParts, <1>1 DEF Managers, SplitInv, SplitTypeOK, OneHolder, InBoot, AwaitsHelper, ManagerOK, Current,
    HelperProcesses, Exited, HelpersKnown, RulesKnown, Harmless
<1>4. CASE /\ Loaded(driver) => Openable /\ ~Initialized(driver)
           /\ split' = [split EXCEPT !.pc = "create"] /\ UNCHANGED driver
  BY <1>4, <1>3, SplitParts DEF SplitInv, OneHolder, Openable, Initialized, Loaded
<1>5. CASE /\ Openable /\ driver' = [driver EXCEPT !.state = "started", !.rules = {}]
           /\ split' = [split EXCEPT !.pc = "create"]
  <2>1. driver.owner = Nobody /\ driver' \in Drivers /\ driver'.owner = driver.owner /\ driver'.rules = {}
    BY <1>5, SplitParts DEF Drivers, Openable
  <2> QED BY <1>3, <1>5, <2>1
<1>6. CASE Openable /\ driver' = Unloaded(driver) /\ split' = [split EXCEPT !.pc = "create"]
  <2>1. driver.owner = Nobody /\ driver' \in Drivers /\ driver'.owner = driver.owner /\ driver'.rules = {}
    BY <1>6, SplitParts DEF Drivers, Openable, Unloaded
  <2> QED BY <1>3, <1>6, <2>1
<1> QED BY <1>2, <1>4, <1>5, <1>6 DEF BootReset

\* After the reset the manager is created.
LEMMA BootCreateHolds ==
    ASSUME SplitInv, BootCreate
    PROVE  SplitInv'
<1>1. /\ split.pc = "create" /\ UNCHANGED helpers /\ split.quarantined = 0 /\ ~split.open /\ split.told = "none"
      /\ ~split.gateFailed /\ driver.rules = {} /\ driver.owner = Nobody
  BY DEF BootCreate, SplitInv, ManagerOK, InBoot
<1>3. ASSUME split' \in Managers, split'.pc = "idle", split'.told = "none", split'.quarantined = 0,
             split'.life = split.life, driver' \in Drivers, driver'.rules = {}, Loaded(driver)' \/ ~split'.open,
             driver'.owner = IF split'.open THEN SplitService ELSE Nobody
      PROVE  SplitInv' BY <1>1, <1>3, HandBack, SplitParts DEF InBoot, AwaitsHelper, ManagerOK, Harmless, Current
<1>4. CASE split' = [split EXCEPT !.pc = "idle"] /\ UNCHANGED driver BY <1>4, SplitParts, <1>1, <1>3 DEF Managers
<1>5. CASE /\ driver' = [state |-> "initialized", rules |-> {}, owner |-> SplitService]
           /\ split' = [split EXCEPT !.pc = "idle", !.up = TRUE, !.open = TRUE]
  <2>1. /\ split' \in Managers /\ split'.pc = "idle" /\ split'.life = split.life /\ split'.open = TRUE
        /\ split'.quarantined = split.quarantined /\ split'.told = split.told BY <1>5, SplitParts DEF Managers
  <2> QED BY <1>1, <1>3, <1>5, <2>1, SplitParts DEF Drivers, Loaded
<1> QED BY <1>4, <1>5 DEF BootCreate

\* The service is gone, and its helpers are orphans.
LEMMA ServiceGone ==
    ASSUME SplitInv, NEW a, helpers' = HelpersLeft(a), split' = NewManager(split.life + 1),
           driver' \in Drivers, driver'.owner = LetGo(driver).owner, driver'.rules # {} => driver'.state = "running",
           Loaded(driver) => Loaded(driver)'
    PROVE  SplitInv'
<1>1. /\ split' \in Managers /\ split'.pc = "boot" /\ split'.life = split.life + 1 /\ ~split'.open
      /\ split'.quarantined = 0 /\ split'.told = "none" /\ ~split'.gateFailed BY SplitParts DEF NewManager, Managers
<1>2. /\ helpers' \in [Slots -> HelperProcesses]
      /\ \A g \in Slots : IF Exited(g) THEN helpers'[g] = NoHelper
                          ELSE helpers'[g].pc = helpers[g].pc /\ helpers'[g].life = helpers[g].life
  <2>1. ASSUME NEW g \in Slots
        PROVE  /\ [helpers[g] EXCEPT !.abort = @ \/ g = a] \in HelperProcesses
               /\ [helpers[g] EXCEPT !.abort = @ \/ g = a].pc = helpers[g].pc
               /\ [helpers[g] EXCEPT !.abort = @ \/ g = a].life = helpers[g].life BY SplitParts DEF HelperProcesses
  <2> QED BY <2>1, SplitParts DEF HelpersLeft
<1>3. NoHelper.pc = "exited" BY DEF NoHelper
<1>6. InBoot' /\ ~AwaitsHelper' /\ \A g \in Slots : ~Current(g)' BY <1>1, SplitParts DEF InBoot, AwaitsHelper, Current
<1> QED
  BY <1>1, <1>2, <1>3, <1>6, SplitParts DEF SplitInv, SplitTypeOK, HelpersKnown, HelperProcesses, Managers, Exited,
    OneHolder, HoldingSteps, LetGo, Drivers, ManagerOK, RulesKnown, Relies

\* Closing the service's handle changes neither the rules nor the state.
LEMMA LetGoDriver ==
    ASSUME SplitInv
    PROVE  LetGo(driver) \in Drivers /\ LetGo(driver).rules = driver.rules /\ LetGo(driver).state = driver.state
BY SplitParts DEF LetGo, Drivers

\* The service shuts down or dies, with or without its helpers.
LEMMA ServiceStopsHolds ==
    ASSUME SplitInv, ShutDown \/ ServiceDies
    PROVE  SplitInv'
<1>1. split' = NewManager(split.life + 1) /\ \E a \in 0 .. MaxHelpers : helpers' = HelpersLeft(a)
  BY SplitParts DEF ShutDown, ServiceDies, Managers
<1>2. CASE driver' = LetGo(driver) BY <1>2, LetGoDriver, <1>1, ServiceGone DEF SplitInv, OneHolder, Loaded
<1>3. CASE split.open /\ driver' = [driver EXCEPT !.state = "started", !.rules = {}, !.owner = Nobody]
  <2>1. /\ driver' \in Drivers /\ driver'.rules = {} /\ Loaded(driver)' /\ driver'.owner = Nobody
    BY <1>3, SplitParts DEF Drivers, Loaded
  <2> QED BY <1>1, <1>3, <2>1, SplitParts, ServiceGone DEF SplitInv, OneHolder, LetGo, Drivers
<1> QED BY <1>2, <1>3 DEF ShutDown, ServiceDies

\* The driver is removed while the service does not run.
LEMMA UninstallHolds ==
    ASSUME SplitInv, Uninstall
    PROVE  SplitInv'
<1>1. /\ split.pc = "boot" /\ UNCHANGED <<split, helpers>> /\ driver.owner = Nobody
      /\ driver' \in Drivers /\ driver'.rules = {} /\ driver'.owner = Nobody BY SplitParts DEF Uninstall, Drivers
<1> QED
  BY <1>1, SplitParts DEF SplitInv, SplitTypeOK, OneHolder, HelpersKnown, ManagerOK, RulesKnown, Relies, InBoot,
    AwaitsHelper, Exited, Current

-----------------------------------------------------------------------------
(* The service's operations. *)

\* What the answer to a request, and the way to the failure path, make of the
\* manager.
LEMMA Answers ==
    ASSUME NEW s \in Managers, NEW ok \in BOOLEAN
    PROVE  /\ Told(s, ok) \in Managers /\ Told(s, ok).pc = "idle" /\ Told(s, ok).told = (IF ok THEN "ok" ELSE "failed")
           /\ FailOver(s) \in Managers /\ FailOver(s).pc = "stop"
           /\ \A r \in {Told(s, ok), FailOver(s)} :
                 /\ r.life = s.life /\ r.open = s.open /\ r.quarantined = s.quarantined
                 /\ r.accepted = s.accepted /\ r.gateFailed = s.gateFailed /\ r.op = s.op
<1>0. 0 \in 0 .. MaxHelpers BY SplitAssumption
<1>1. Told(s, ok) \in Managers /\ Told(s, ok).pc = "idle" /\ Told(s, ok).told = (IF ok THEN "ok" ELSE "failed")
  BY <1>0 DEF Told, Managers
<1>2. FailOver(s) \in Managers /\ FailOver(s).pc = "stop" BY <1>0 DEF FailOver, Managers
<1> QED BY <1>1, <1>2 DEF Told, Managers, FailOver

\* A client asks for a list of applications, or for none.
LEMMA RequestedHolds ==
    ASSUME SplitInv, StopRequested \/ \E apps \in SUBSET Apps : ExcludeRequested(apps)
    PROVE  SplitInv'
<1>1. /\ split.pc = "idle" /\ UNCHANGED <<driver, helpers>>
      /\ \E apps \in SUBSET Apps, to \in {"start", "stop"} :
            \/ split' = [split EXCEPT !.op = apps, !.pc = to]
            \/ split' = Told([split EXCEPT !.op = apps], apps = {}) BY DEF StopRequested, ExcludeRequested
<1>2. PICK apps \in SUBSET Apps, to \in {"start", "stop"} :
            \/ split' = [split EXCEPT !.op = apps, !.pc = to]
            \/ split' = Told([split EXCEPT !.op = apps], apps = {}) BY <1>1
<1>3. /\ split' \in Managers /\ split'.pc \in {"idle", "start", "stop"}
      /\ split'.life = split.life /\ split'.open = split.open /\ split'.quarantined = split.quarantined
      /\ split'.accepted = split.accepted /\ split'.gateFailed = split.gateFailed
      /\ split'.pc = "idle" /\ split'.told = "ok" => split'.op = {}
  <2>1. CASE split' = [split EXCEPT !.op = apps, !.pc = to] BY <2>1, SplitParts DEF Managers
  <2>2. CASE split' = Told([split EXCEPT !.op = apps], apps = {})
    <3> DEFINE s == [split EXCEPT !.op = apps]
    <3>1. /\ s \in Managers /\ s.life = split.life /\ s.open = split.open /\ s.quarantined = split.quarantined
          /\ s.accepted = split.accepted /\ s.gateFailed = split.gateFailed /\ s.op = apps BY SplitParts DEF Managers
    <3>2. split' = Told(s, apps = {}) /\ (apps = {}) \in BOOLEAN BY <2>2
    <3> HIDE DEF s
    <3> QED BY <3>1, <3>2, Answers
  <2> QED BY <1>2, <2>1, <2>2
<1>4. ~InBoot /\ ~InBoot' /\ ~AwaitsHelper /\ ~AwaitsHelper' BY <1>1, <1>3 DEF InBoot, AwaitsHelper
<1> QED BY <1>1, <1>3, <1>4, ManagerOnly DEF SplitInv, ManagerOK, RulesKnown, Relies

\* reapQuarantinedConfigurationHelper, for a caller that reads its answer as
\* start and stop do.
LEMMA ReapHolds ==
    ASSUME SplitInv, split.pc \in {"start", "stop"}, ~split.open, NEW yes \in Managers, NEW no \in Managers,
           NEW ret \in {"reapStart", "reapStop"}, Reap(yes, no, ret),
           yes.pc \in {"start", "idle"}, yes.life = split.life, yes.accepted = split.accepted,
           yes.pc = "idle" /\ yes.told = "ok" => yes.op = {},
           no.pc \in {"stop", "idle"}, no.life = split.life, no.accepted = split.accepted, no.open = split.open,
           no.quarantined = split.quarantined, no.gateFailed = split.gateFailed,
           no.pc = "idle" => no.told = "failed"
    PROVE  SplitInv'
<1> DEFINE q == split.quarantined
<1>0. ~InBoot /\ ~AwaitsHelper BY DEF InBoot, AwaitsHelper
<1>1. ASSUME UNCHANGED <<driver, helpers>>, split' \in Managers, split'.pc = no.pc, split'.life = no.life, split'.open = no.open,
             split'.quarantined = no.quarantined, split'.accepted = no.accepted, split'.told = no.told,
             split'.gateFailed \/ split'.gateFailed = split.gateFailed
      PROVE  SplitInv' BY <1>1, <1>0, ManagerOnly DEF InBoot, AwaitsHelper, ManagerOK, SplitInv, RulesKnown, Relies
<1>2. CASE split' = no /\ UNCHANGED <<driver, helpers>> BY <1>1, <1>2
<1>3. CASE split' = GateFailed(no) /\ UNCHANGED <<driver, helpers>>
  <2>1. /\ split' \in Managers /\ split'.pc = no.pc /\ split'.life = no.life /\ split'.open = no.open
        /\ split'.quarantined = no.quarantined /\ split'.accepted = no.accepted /\ split'.told = no.told
        /\ split'.gateFailed BY <1>3 DEF GateFailed, Managers
  <2> QED BY <1>1, <1>3, <2>1
<1>4. CASE /\ q # 0 /\ Exited(q) /\ Openable /\ Taken /\ Reaped(q)
           /\ split' = IF helpers[q].exit = "verified"
                       THEN GateVerified([yes EXCEPT !.open = TRUE, !.quarantined = 0])
                       ELSE [[Reopened(split, TRUE) EXCEPT !.quarantined = 0] EXCEPT !.pc = "cleanup", !.ret = ret]
  <2>1. q \in Slots /\ Current(q) /\ \A g \in Slots : Current(g) => g = q BY <1>4, AwaitedInSlots, OneCurrent
  <2>2. /\ driver' \in Drivers /\ driver'.owner = SplitService /\ driver'.rules = driver.rules
        /\ driver'.state = driver.state /\ Loaded(driver)' BY <1>4, SplitParts DEF Taken, Drivers, Openable, Loaded
  <2>3. helpers' \in [Slots -> HelperProcesses] /\ \A g \in Slots : helpers'[g] = IF Current(g) THEN NoHelper ELSE helpers[g]
    BY <1>4, <2>1, SplitParts DEF Reaped
  <2>4. CASE helpers[q].exit = "verified"
    <3>1. /\ split' \in Managers /\ split'.pc = yes.pc /\ split'.life = yes.life /\ split'.open = TRUE
          /\ split'.quarantined = 0 /\ split'.accepted = yes.accepted /\ split'.told = yes.told /\ split'.op = yes.op
          /\ split'.gateFailed = FALSE
      <4>1. 0 \in 0 .. MaxHelpers BY SplitAssumption
      <4> QED BY <1>4, <2>4, <4>1 DEF GateVerified, Managers
    <3>2. ~InBoot' /\ ~AwaitsHelper' /\ ManagerOK' BY <3>1 DEF InBoot, AwaitsHelper, ManagerOK
    <3>3. Harmless' BY <1>4, <2>1, <2>2, <2>4, <3>1 DEF SplitInv, RulesKnown, Harmless
    <3> QED BY <1>0, <1>4, <2>1, <2>2, <2>3, <3>1, <3>2, <3>3, HandBack DEF SplitInv, OneHolder
  <2>5. CASE helpers[q].exit # "verified"
    <3>1. /\ split' \in Managers /\ split'.pc = "cleanup" /\ split'.life = split.life /\ split'.open = TRUE
          /\ split'.quarantined = 0 /\ split'.ret # "none"
      <4>1. 0 \in 0 .. MaxHelpers /\ split \in Managers BY SplitAssumption, SplitParts
      <4> QED BY <1>4, <2>5, <4>1 DEF Reopened, Managers
    <3>2. ~InBoot' /\ ~AwaitsHelper' /\ ManagerOK' /\ ~Relies' BY <3>1 DEF InBoot, AwaitsHelper, ManagerOK, Relies
    <3> QED BY <1>0, <1>4, <2>1, <2>2, <2>3, <3>1, <3>2, HandBack DEF SplitInv, OneHolder
  <2> QED BY <2>4, <2>5
<1> QED BY <1>2, <1>3, <1>4 DEF Reap

\* A step of the service with nobody to wait for, which leaves the helpers.
LEMMA AloneHolds ==
    ASSUME SplitInv, split.pc \in {"start", "exclude", "stop", "cleanup"}, split.open, UNCHANGED helpers,
           split' \in Managers, split'.life = split.life, split'.quarantined = split.quarantined,
           split'.pc \in {"idle", "start", "exclude", "stop", "cleanup"}, ManagerOK',
           driver' \in Drivers, driver'.owner = IF split'.open THEN SplitService ELSE Nobody,
           driver'.rules = driver.rules, driver'.rules # {} => driver'.state = "running", Loaded(driver)',
           Relies' => Harmless', split'.pc = "idle" => split'.told # "ok"
    PROVE  SplitInv'
<1>1. split.quarantined = 0 /\ ~InBoot /\ ~AwaitsHelper /\ ~InBoot' /\ ~AwaitsHelper'
  BY DEF SplitInv, ManagerOK, InBoot, AwaitsHelper
<1> QED BY <1>1, SplitParts, HandBack DEF Current

\* The manager brings the driver up before it applies a list.
LEMMA StartDriverHolds ==
    ASSUME SplitInv, StartDriver
    PROVE  SplitInv'
<1>0. /\ split.pc = "start" /\ split \in Managers
      /\ ~split.gateFailed /\ split.quarantined = 0 => Harmless
  BY SplitParts DEF StartDriver, SplitInv, RulesKnown, Relies, InBoot, AwaitsHelper
<1>1. CASE ~split.open /\ Reap(split, FailOver(split), "reapStart")
  <2> DEFINE no == FailOver(split)
  <2>1. /\ no \in Managers /\ no.pc = "stop" /\ no.life = split.life /\ no.open = split.open
        /\ no.quarantined = split.quarantined /\ no.accepted = split.accepted /\ no.gateFailed = split.gateFailed
    BY <1>0, Answers
  <2>2. Reap(split, no, "reapStart") BY <1>1
  <2> HIDE DEF no
  <2> QED BY <1>0, <1>1, <2>1, <2>2, ReapHolds
<1>2. CASE split.open /\ split.gateFailed /\ split' = FailOver(split) /\ UNCHANGED <<driver, helpers>>
  <2>1. /\ split' \in Managers /\ split'.pc = "stop" /\ split'.life = split.life /\ split'.open = split.open
        /\ split'.quarantined = split.quarantined BY <1>0, <1>2, Answers
  <2> QED BY <1>0, <1>2, <2>1, AloneHolds, SplitParts DEF SplitInv, OneHolder, ManagerOK, Relies, InBoot, AwaitsHelper
<1>3. CASE /\ split.open /\ ~split.gateFailed /\ UNCHANGED helpers
           /\ \E to \in {driver.state, "initialized", "ready"} :
                /\ to = "initialized" => driver.state = "started"
                /\ to = "ready" => driver.state \in {"started", "initialized", "ready"}
                /\ driver' = [driver EXCEPT !.state = to]
                /\ \/ split' = FailOver(split)
                   \/ split' = [split EXCEPT !.pc = "exclude"]
  BY <1>3, SplitParts, <1>0, Answers, AloneHolds DEF SplitInv, OneHolder, Drivers, Loaded, Managers, ManagerOK,
    InBoot, AwaitsHelper, Harmless
<1> QED BY <1>1, <1>2, <1>3 DEF StartDriver

\* A helper is launched: the service has let go of the device, and hands it to
\* a helper that cleans.
LEMMA LaunchedHolds ==
    ASSUME SplitInv, split.pc \in {"exclude", "cleanup"}, NEW h \in Slots, NEW kind \in {"config", "cleanup"},
           NEW apps \in SUBSET Apps, Launched(h, kind, apps),
           split' \in Managers, split'.life = split.life, split'.quarantined = 0, split'.helper = h, ~split'.open,
           split'.op = split.op, split'.accepted = split.accepted, split'.ret = split.ret,
           split'.gateFailed = split.gateFailed,
           driver' \in Drivers, driver'.rules = driver.rules, driver'.state = driver.state,
           \/ /\ kind = "config" /\ split'.pc = "wait" /\ split.pc = "exclude" /\ driver'.owner = Nobody
              /\ apps = AppConfiguration(split.op)
           \/ kind = "cleanup" /\ split'.pc = "cleanupWait" /\ split.pc = "cleanup" /\ driver'.owner = h
    PROVE  SplitInv'
<1>1. split.open /\ split.quarantined = 0 /\ ~InBoot /\ ~AwaitsHelper /\ ~InBoot' /\ AwaitsHelper'
  BY DEF SplitInv, ManagerOK, InBoot, AwaitsHelper
<1>2. /\ \A g \in Slots : ~Current(g)
      /\ \A g \in Slots : Current(g)' <=> g = h BY <1>1, SplitParts DEF Current
<1>3. /\ helpers' \in [Slots -> HelperProcesses] /\ \A g \in Slots \ {h} : helpers'[g] = helpers[g]
      /\ helpers'[h].pc = IF kind = "config" THEN "new" ELSE "clean"
      /\ helpers'[h].apps = apps /\ helpers'[h].life = split.life
  <2> DEFINE new == [NoHelper EXCEPT !.kind = kind, !.pc = IF kind = "config" THEN "new" ELSE "clean",
                            !.apps = apps, !.life = split.life]
  <2>1. /\ new \in HelperProcesses /\ new.pc = (IF kind = "config" THEN "new" ELSE "clean") /\ new.apps = apps
        /\ new.life = split.life
    <3>1. split.life \in Nat BY SplitParts DEF Managers
    <3>2. CASE kind = "config" BY <3>1, <3>2 DEF NoHelper, HelperProcesses
    <3>3. CASE kind = "cleanup" BY <3>1, <3>3 DEF NoHelper, HelperProcesses, HoldingSteps
    <3> QED BY <3>2, <3>3
  <2>2. helpers' = [helpers EXCEPT ![h] = new] BY DEF Launched
  <2> HIDE DEF new
  <2> QED BY <2>1, <2>2, SplitParts
<1> QED
  BY <1>1, <1>2, <1>3, SplitParts DEF SplitInv, SplitTypeOK, HelpersKnown, Exited, OneHolder, HoldingSteps, Loaded,
    ManagerOK, AwaitsHelper, InBoot, RulesKnown, Relies, Harmless, AppConfiguration

\* The manager launches the helper that applies a list.
LEMMA ExcludeAppsHolds ==
    ASSUME SplitInv, ExcludeApps
    PROVE  SplitInv'
<1>0. /\ split.pc = "exclude" /\ split \in Managers /\ split.open /\ ~split.gateFailed /\ split.quarantined = 0
      /\ Harmless /\ driver.owner = SplitService /\ Loaded(driver)
  <2>1. split.pc = "exclude" /\ split \in Managers BY SplitParts DEF ExcludeApps
  <2>2. split.open /\ ~split.gateFailed /\ split.quarantined = 0 BY <2>1 DEF SplitInv, ManagerOK
  <2> QED BY <2>1, <2>2, SplitParts DEF SplitInv, RulesKnown, Relies, InBoot, AwaitsHelper, OneHolder
<1>1. CASE split' = FailOver(split) /\ UNCHANGED <<driver, helpers>>
  <2>1. /\ split' \in Managers /\ split'.pc = "stop" /\ split'.life = split.life /\ split'.open = split.open
        /\ split'.quarantined = split.quarantined BY <1>0, <1>1, Answers
  <2> QED BY <1>0, <1>1, <2>1, AloneHolds, SplitParts DEF SplitInv, OneHolder, ManagerOK, Relies, InBoot, AwaitsHelper
<1>2. ASSUME NEW ok \in BOOLEAN, split' = FailOver(Reopened(split, ok)),
             driver' = [driver EXCEPT !.owner = IF ok THEN SplitService ELSE Nobody], UNCHANGED helpers
      PROVE  SplitInv'
  BY <1>0, <1>2, Answers, SplitParts, AloneHolds DEF Reopened, Managers, Drivers, ManagerOK, InBoot, AwaitsHelper,
    Harmless, Loaded, SplitInv, OneHolder
<1>3. ASSUME NEW h \in Slots, Launched(h, "config", AppConfiguration(split.op)), driver' = LetGo(driver),
             split' = [Closed(split) EXCEPT !.pc = "wait", !.helper = h]
      PROVE  SplitInv'
  <2>1. /\ split' \in Managers /\ split'.pc = "wait" /\ split'.life = split.life /\ split'.quarantined = 0
        /\ split'.helper = h /\ ~split'.open /\ split'.op = split.op /\ split'.accepted = split.accepted
        /\ split'.ret = split.ret /\ split'.gateFailed = split.gateFailed
    BY <1>0, <1>3, SplitParts DEF Closed, Managers
  <2> QED BY <1>0, <1>3, <2>1, SplitParts, LaunchedHolds DEF LetGo, Drivers, AppConfiguration
<1> QED BY <1>1, <1>2, <1>3, SplitParts DEF ExcludeApps

\* The helper the service waited for goes to quarantine.
LEMMA QuarantinedHolds ==
    ASSUME SplitInv, AwaitsHelper, UNCHANGED driver, NEW field \in {"abort", "none"},
           IF field = "abort" THEN Signal(split.helper, "abort") ELSE UNCHANGED helpers,
           split' \in Managers, split'.pc \in {"stop", "idle"}, split'.pc = "idle" => split'.told # "ok",
           split'.life = split.life, split'.quarantined = split.helper, ~split'.open, split'.accepted = split.accepted
    PROVE  SplitInv'
<1>1. /\ split.helper \in Slots /\ Current(split.helper) /\ ~InBoot /\ ~split.open /\ split.quarantined = 0
      /\ split.helper # 0 BY AwaitedInSlots DEF SplitInv, ManagerOK, InBoot, AwaitsHelper
<1> DEFINE h == split.helper
<1>2. ~InBoot' /\ ~AwaitsHelper' /\ ~Relies' /\ ManagerOK' BY <1>1 DEF InBoot, AwaitsHelper, Relies, ManagerOK
<1>3. \A g \in Slots : (Current(g) <=> g = h) /\ (Current(g)' <=> g = h) BY <1>1, <1>2, OneCurrent DEF Current
<1>4. /\ helpers' \in [Slots -> HelperProcesses] /\ \A g \in Slots \ {h} : helpers'[g] = helpers[g]
      /\ helpers'[h].pc = helpers[h].pc /\ helpers'[h].life = helpers[h].life /\ helpers'[h].apps = helpers[h].apps
      /\ helpers'[h].exit = helpers[h].exit
  <2> HIDE DEF h
  <2> DEFINE new == [helpers[h] EXCEPT !.abort = TRUE]
  <2>1. /\ new \in HelperProcesses /\ new.pc = helpers[h].pc /\ new.life = helpers[h].life /\ new.apps = helpers[h].apps
        /\ new.exit = helpers[h].exit BY <1>1, SplitParts DEF HelperProcesses, h
  <2>2. helpers' = helpers \/ helpers' = [helpers EXCEPT ![h] = new] BY DEF Signal, h
  <2> HIDE DEF new
  <2> QED BY <1>1, <2>1, <2>2, SplitParts DEF h
<1>6. \A g \in Slots : (Exited(g)' <=> Exited(g)) /\ helpers'[g].life = helpers[g].life /\ helpers'[g].pc = helpers[g].pc
  BY <1>4 DEF Exited
<1> QED
  BY <1>1, <1>2, <1>3, <1>4, <1>6, SplitParts DEF SplitInv, SplitTypeOK, OneHolder, HelpersKnown, RulesKnown, Harmless

\* Quarantine of the manager itself.
LEMMA QuarantinedManager ==
    ASSUME SplitInv, AwaitsHelper, NEW aborted \in BOOLEAN
    PROVE  LET s == Quarantine(split, aborted) IN
           /\ s \in Managers /\ s.life = split.life /\ s.quarantined = split.helper /\ s.open = split.open
           /\ s.accepted = split.accepted /\ s.ret = split.ret
<1>1. split \in Managers /\ 0 \in 0 .. MaxHelpers BY SplitAssumption, SplitParts
<1> QED BY <1>1 DEF Quarantine, GateFailed, Managers

\* A helper that failed is quarantined, whether it was signalled or not.
LEMMA FailedToQuarantine ==
    ASSUME SplitInv, AwaitsHelper, Quarantined(FailOver)
    PROVE  SplitInv'
<1>1. PICK aborted \in BOOLEAN :
        /\ IF aborted THEN Signal(split.helper, "abort") ELSE UNCHANGED helpers
        /\ split' = FailOver(Quarantine(split, aborted))
        /\ UNCHANGED driver BY DEF Quarantined
<1> DEFINE s == Quarantine(split, aborted)
           field == IF aborted THEN "abort" ELSE "none"
<1>2. /\ s \in Managers /\ s.life = split.life /\ s.quarantined = split.helper /\ s.open = split.open
      /\ s.accepted = split.accepted BY QuarantinedManager
<1>3. split' = FailOver(s) BY <1>1
<1> HIDE DEF s
<1> HIDE DEF field
<1> QED BY <1>1, <1>2, <1>3, Answers, QuarantinedHolds DEF SplitInv, ManagerOK

\* The wait goes on to the next point, its helper marked or not.
LEMMA AwaitedHolds ==
    ASSUME SplitInv, split.pc \in {"wait", "waitExit"}, UNCHANGED driver,
           NEW to \in {"waitExit", "exitCode"}, split' = [split EXCEPT !.pc = to],
           \/ to = "waitExit" /\ Signal(split.helper, "commit")
           \/ to = "exitCode" /\ Exited(split.helper) /\ UNCHANGED helpers
    PROVE  SplitInv'
<1>1. /\ split.helper \in Slots /\ Current(split.helper) /\ ~InBoot /\ ~split.open /\ split.quarantined = 0
      /\ split.helper # 0 /\ ~split.gateFailed /\ AwaitsHelper
  BY AwaitedInSlots DEF SplitInv, ManagerOK, InBoot, AwaitsHelper
<1>2. /\ split' \in Managers /\ split'.pc = to /\ split'.life = split.life /\ split'.helper = split.helper
      /\ split'.open = split.open /\ split'.quarantined = split.quarantined /\ split'.accepted = split.accepted
      /\ split'.op = split.op /\ split'.gateFailed = split.gateFailed BY SplitParts DEF Managers
<1> DEFINE h == split.helper
<1>3. /\ helpers' \in [Slots -> HelperProcesses] /\ \A g \in Slots \ {h} : helpers'[g] = helpers[g]
      /\ helpers'[h].pc = helpers[h].pc /\ helpers'[h].life = helpers[h].life /\ helpers'[h].apps = helpers[h].apps
      /\ helpers'[h].exit = helpers[h].exit
  <2> HIDE DEF h
  <2> DEFINE new == [helpers[h] EXCEPT !.commit = TRUE]
  <2>1. /\ new \in HelperProcesses /\ new.pc = helpers[h].pc /\ new.life = helpers[h].life /\ new.apps = helpers[h].apps
        /\ new.exit = helpers[h].exit BY <1>1, SplitParts DEF HelperProcesses, h
  <2>2. helpers' = helpers \/ helpers' = [helpers EXCEPT ![h] = new] BY DEF Signal, h
  <2> HIDE DEF new
  <2> QED BY <1>1, <2>1, <2>2, SplitParts DEF h
<1>4. ~InBoot' /\ AwaitsHelper' /\ ~Relies' BY <1>2 DEF InBoot, AwaitsHelper, Relies
<1>5. \A g \in Slots : Current(g)' <=> Current(g) BY <1>1, <1>2, <1>4 DEF Current
<1>7. \A g \in Slots : (Exited(g)' <=> Exited(g)) /\ helpers'[g].life = helpers[g].life /\ helpers'[g].pc = helpers[g].pc
                       /\ helpers'[g].apps = helpers[g].apps /\ helpers'[g].exit = helpers[g].exit BY <1>3 DEF Exited
<1> QED
  BY <1>1, <1>2, <1>3, <1>4, <1>5, <1>7, SplitParts DEF SplitInv, SplitTypeOK, OneHolder, HelpersKnown, Exited,
    ManagerOK, RulesKnown, Harmless, AppConfiguration

\* The manager waits for its helper to commit, fail or time out.
LEMMA AwaitHolds ==
    ASSUME SplitInv, AwaitConfigured \/ AwaitExit
    PROVE  SplitInv'
<1>1. split.pc \in {"wait", "waitExit"} /\ AwaitsHelper BY DEF AwaitConfigured, AwaitExit, AwaitsHelper
<1>2. CASE Quarantined(FailOver) BY <1>1, <1>2, FailedToQuarantine
<1>3. CASE Signal(split.helper, "commit") /\ split' = [split EXCEPT !.pc = "waitExit"] /\ UNCHANGED driver
  BY <1>1, <1>3, AwaitedHolds
<1>4. CASE Exited(split.helper) /\ split' = [split EXCEPT !.pc = "exitCode"] /\ UNCHANGED <<driver, helpers>>
  BY <1>1, <1>4, AwaitedHolds
<1> QED BY <1>2, <1>3, <1>4 DEF AwaitConfigured, AwaitExit

\* The helper the service waited for is reaped.
LEMMA ReapedPlaces ==
    ASSUME SplitInv, AwaitsHelper, Exited(split.helper), Reaped(split.helper)
    PROVE  /\ ~InBoot /\ \A g \in Slots : Current(g) => Exited(g)
           /\ helpers' \in [Slots -> HelperProcesses]
           /\ \A g \in Slots : helpers'[g] = IF Current(g) THEN NoHelper ELSE helpers[g]
           /\ driver.owner = Nobody
<1>1. split.helper \in Slots /\ Current(split.helper) /\ ~split.open /\ ~InBoot
  BY AwaitedInSlots DEF SplitInv, ManagerOK, AwaitsHelper, InBoot
<1>2. \A g \in Slots : Current(g) <=> g = split.helper BY <1>1, OneCurrent
<1> QED BY <1>1, <1>2, SplitParts, HolderKnown DEF Reaped

\* The manager takes the exit code of the helper it waited for.
LEMMA TakeExitCodeHolds ==
    ASSUME SplitInv, TakeExitCode
    PROVE  SplitInv'
<1>0. split.pc = "exitCode" /\ AwaitsHelper /\ Exited(split.helper) /\ ~split.open /\ split.quarantined = 0 /\ split \in Managers
  BY SplitParts DEF TakeExitCode, AwaitsHelper, SplitInv, ManagerOK
<1>1. CASE Quarantined(FailOver) BY <1>0, <1>1, FailedToQuarantine
<1>2. CASE split' = FailOver(GateFailed(split)) /\ Reaped(split.helper) /\ UNCHANGED driver
  <2> DEFINE s == GateFailed(split)
  <2>1. /\ s \in Managers /\ s.life = split.life /\ s.open = split.open /\ s.quarantined = split.quarantined /\ s.gateFailed
    BY <1>0 DEF GateFailed, Managers
  <2>2. split' = FailOver(s) BY <1>2
  <2> HIDE DEF s
  <2>3. /\ split' \in Managers /\ split'.pc = "stop" /\ split'.life = split.life /\ split'.open = split.open
        /\ split'.quarantined = split.quarantined /\ split'.gateFailed BY <2>1, <2>2, Answers
  <2> QED
    BY <1>0, <1>2, <2>3, ReapedPlaces, HandBack, SplitParts DEF SplitInv, OneHolder, InBoot, AwaitsHelper, Relies,
      ManagerOK
<1>3. CASE /\ Openable /\ Taken /\ Reaped(split.helper)
           /\ LET s == Reopened(split, TRUE) IN
              split' = IF helpers[split.helper].exit # "success"
                       THEN [s EXCEPT !.pc = "cleanup", !.ret = "apply", !.helper = 0]
                       ELSE IF driver.state = "running"
                       THEN Told([s EXCEPT !.accepted = AppConfiguration(s.op)], TRUE)
                       ELSE FailOver(s)
  <2>1. /\ driver' \in Drivers /\ driver'.owner = SplitService /\ driver'.rules = driver.rules
        /\ driver'.state = driver.state /\ Loaded(driver)' /\ (driver'.rules # {} => driver'.state = "running")
    BY <1>3, SplitParts DEF Taken, Drivers, Openable, Loaded, SplitInv, OneHolder
  <2> DEFINE s == Reopened(split, TRUE)
             t == [s EXCEPT !.accepted = AppConfiguration(s.op)]
  <2>2. /\ s \in Managers /\ s.life = split.life /\ s.open = TRUE /\ s.quarantined = 0 /\ s.op = split.op
        /\ s.gateFailed = split.gateFailed BY <1>0 DEF Reopened, Managers
  <2>3. /\ t \in Managers /\ t.life = split.life /\ t.open = TRUE /\ t.quarantined = 0 /\ t.op = split.op
        /\ t.gateFailed = split.gateFailed /\ t.accepted = AppConfiguration(split.op)
    <3> HIDE DEF s
    <3> QED BY <2>2, SplitParts DEF Managers, AppConfiguration
  <2>4. split.gateFailed = FALSE BY <1>0 DEF SplitInv, ManagerOK, Managers
  <2>5. CASE helpers[split.helper].exit # "success"
    <3>1. /\ split' \in Managers /\ split'.pc = "cleanup" /\ split'.life = split.life /\ split'.open = TRUE
          /\ split'.quarantined = 0 /\ split'.ret # "none"
      <4>1. split' = [s EXCEPT !.pc = "cleanup", !.ret = "apply", !.helper = 0] /\ 0 \in 0 .. MaxHelpers
        BY <1>3, <2>5, SplitAssumption
      <4> HIDE DEF s
      <4> QED BY <2>2, <4>1 DEF Managers
    <3>2. ~InBoot' /\ ~AwaitsHelper' /\ ManagerOK' /\ ~Relies' BY <3>1 DEF InBoot, AwaitsHelper, ManagerOK, Relies
    <3> QED BY <1>0, <1>3, <2>1, <3>1, <3>2, ReapedPlaces, HandBack
  <2>6. CASE helpers[split.helper].exit = "success"
    <3>1. driver.rules = AppConfiguration(split.op) /\ driver.state = "running" BY <1>0, <2>6 DEF SplitInv, RulesKnown
    <3>2. split' = Told(t, TRUE) BY <1>3, <2>6, <3>1
    <3> HIDE DEF s, t
    <3>3. /\ split' \in Managers /\ split'.pc = "idle" /\ split'.life = split.life /\ split'.open = TRUE
          /\ split'.quarantined = 0 /\ split'.accepted = AppConfiguration(split.op) /\ split'.op = split.op
          /\ split'.gateFailed = FALSE BY <2>3, <2>4, <3>2, Answers
    <3>4. ~InBoot' /\ ~AwaitsHelper' /\ ManagerOK' /\ Harmless'
      BY <2>1, <3>1, <3>3 DEF InBoot, AwaitsHelper, ManagerOK, Harmless
    <3>5. driver'.rules = AppConfiguration(split'.op) BY <2>1, <3>1, <3>3
    <3> QED BY <1>0, <1>3, <2>1, <3>3, <3>4, <3>5, ReapedPlaces, HandBack
  <2> QED BY <2>5, <2>6
<1> QED BY <1>1, <1>2, <1>3 DEF TakeExitCode

\* Where runCleanupHelperBounded returns to: after a failure the gate is shut.
LEMMA Returned ==
    ASSUME NEW s \in Managers, s.ret # "none", NEW ok \in BOOLEAN
    PROVE  LET r == Return(s, ok) IN
           /\ r \in Managers /\ r.life = s.life /\ r.quarantined = s.quarantined /\ r.accepted = s.accepted
           /\ r.op = s.op /\ r.pc \in {"start", "stop", "idle"}
           /\ r.open => s.open
           /\ ~ok => r.gateFailed /\ r.pc # "start" /\ (r.pc = "idle" => r.told = "failed")
           /\ r.pc = "idle" /\ r.told = "ok" => r.op = {}
<1> DEFINE gf == GateFailed(s)
           gv == GateVerified(s)
           shut == Closed(gf)
           is(m) == m \in Managers /\ m.life = s.life /\ m.quarantined = s.quarantined /\ m.accepted = s.accepted /\ m.op = s.op
<1>1. is(gf) /\ gf.gateFailed = TRUE /\ gf.open = s.open BY DEF GateFailed, Managers
<1>2. is(gv) /\ gv.open = s.open BY DEF GateVerified, Managers
<1>3. is(shut) /\ shut.gateFailed = TRUE /\ shut.open = FALSE
  <2> HIDE DEF gf
  <2> QED BY <1>1 DEF Closed, Managers
<1> DEFINE go == [s EXCEPT !.pc = "start"]
<1>4. is(go) /\ go.open = s.open /\ go.pc = "start" BY DEF Managers
<1>6. Return(s, ok) = CASE s.ret = "apply" -> FailOver(IF ok THEN gv ELSE shut)
      [] s.ret = "reapStart" -> IF ok THEN go ELSE FailOver(shut)
      [] s.ret = "reapStop" -> IF ok THEN Told(s, s.op = {}) ELSE Told(shut, FALSE)
      [] s.ret = "stop" -> IF ok THEN Told(gv, s.op = {}) ELSE Told(gf, FALSE) BY DEF Return
<1> HIDE DEF gf, gv, shut, go
<1>7. CASE s.ret = "apply" BY <1>2, <1>3, <1>6, <1>7, Answers
<1>8. CASE s.ret = "reapStart" BY <1>3, <1>4, <1>6, <1>8, Answers
<1>9. CASE s.ret = "reapStop"
  <2> DEFINE b == (s.op = {})
  <2>1. b \in BOOLEAN /\ (b => s.op = {}) /\ Return(s, ok) = IF ok THEN Told(s, b) ELSE Told(shut, FALSE)
    BY <1>6, <1>9
  <2> HIDE DEF b
  <2>2. CASE ok BY <2>1, <2>2, Answers
  <2>3. CASE ~ok
    <3> DEFINE r == Told(shut, FALSE)
    <3>1. /\ r \in Managers /\ r.pc = "idle" /\ r.told = "failed" /\ r.life = s.life /\ r.open = FALSE
          /\ r.quarantined = s.quarantined /\ r.accepted = s.accepted /\ r.gateFailed = TRUE /\ r.op = s.op
      BY <1>3, Answers
    <3>2. Return(s, ok) = r BY <2>1, <2>3
    <3> HIDE DEF r
    <3> QED BY <2>3, <3>1, <3>2
  <2> QED BY <2>2, <2>3
<1>10. CASE s.ret = "stop"
  <2> DEFINE b == (s.op = {})
  <2>1. b \in BOOLEAN /\ (b => s.op = {}) /\ Return(s, ok) = IF ok THEN Told(gv, b) ELSE Told(gf, FALSE)
    BY <1>6, <1>10
  <2> HIDE DEF b
  <2>2. CASE ok BY <1>2, <2>1, <2>2, Answers
  <2>3. CASE ~ok
    <3> DEFINE r == Told(gf, FALSE)
    <3>1. /\ r \in Managers /\ r.pc = "idle" /\ r.told = "failed" /\ r.life = s.life /\ r.open = s.open
          /\ r.quarantined = s.quarantined /\ r.accepted = s.accepted /\ r.gateFailed = TRUE /\ r.op = s.op
      BY <1>1, Answers
    <3>2. Return(s, ok) = r BY <2>1, <2>3
    <3> HIDE DEF r
    <3> QED BY <2>3, <3>1, <3>2
  <2> QED BY <2>2, <2>3
<1> QED BY <1>7, <1>8, <1>9, <1>10 DEF Managers

\* The manager of a cleanup, marked or closed, is what Returned is about.
LEMMA MarkedManager ==
    ASSUME NEW m \in Managers
    PROVE  \A s \in {m, Closed(m), GateFailed(m), GateVerified(Reopened(m, TRUE))} :
              /\ s \in Managers /\ s.ret = m.ret /\ s.life = m.life /\ s.quarantined = m.quarantined
              /\ s.accepted = m.accepted /\ s.op = m.op
<1>1. LET s == Closed(m) IN
              /\ s \in Managers /\ s.ret = m.ret /\ s.life = m.life /\ s.quarantined = m.quarantined
              /\ s.accepted = m.accepted /\ s.op = m.op BY DEF Closed, Managers
<1>2. LET s == GateFailed(m) IN
              /\ s \in Managers /\ s.ret = m.ret /\ s.life = m.life /\ s.quarantined = m.quarantined
              /\ s.accepted = m.accepted /\ s.op = m.op BY DEF GateFailed, Managers
<1>3. LET s == GateVerified(Reopened(m, TRUE)) IN
              /\ s \in Managers /\ s.ret = m.ret /\ s.life = m.life /\ s.quarantined = m.quarantined
              /\ s.accepted = m.accepted /\ s.op = m.op BY DEF GateVerified, Reopened, Managers
<1> QED BY <1>1, <1>2, <1>3

\* The device after the service returns, for a service that holds it or for a
\* device nobody holds.
LEMMA YieldedDriver ==
    ASSUME SplitInv, driver.owner \in {Nobody, SplitService}, Yielded(split')
    PROVE  /\ driver' \in Drivers /\ driver'.owner = IF split'.open THEN SplitService ELSE Nobody
           /\ driver'.rules = driver.rules /\ driver'.state = driver.state
           /\ driver'.rules # {} => driver'.state = "running"
<1>1. driver \in Drivers /\ SplitService \in 0 .. SplitService /\ Nobody \in 0 .. SplitService BY SplitParts
<1> QED BY <1>1 DEF Drivers, SplitInv, OneHolder, Yielded, LetGo

\* The manager launches the helper that clears the rules.
LEMMA LaunchCleanupHolds ==
    ASSUME SplitInv, LaunchCleanup
    PROVE  SplitInv'
<1>0. /\ split.pc = "cleanup" /\ split \in Managers /\ split.open /\ split.quarantined = 0 /\ split.ret # "none"
      /\ driver.owner = SplitService /\ Loaded(driver)
  <2>1. split.pc = "cleanup" /\ split \in Managers BY SplitParts DEF LaunchCleanup
  <2> QED BY <2>1, SplitParts DEF SplitInv, OneHolder, ManagerOK
<1>1. ASSUME NEW s \in {split, Closed(split), GateFailed(split)}, Leave(s, FALSE), UNCHANGED helpers
      PROVE  SplitInv'
  <2>1. /\ s \in Managers /\ s.ret = split.ret /\ s.life = split.life /\ s.quarantined = split.quarantined
    <3>1. CASE s = split BY <1>0, <3>1
    <3>2. CASE s = Closed(split) BY <1>0, <3>2, MarkedManager
    <3>3. CASE s = GateFailed(split) BY <1>0, <3>3, MarkedManager
    <3> QED BY <3>1, <3>2, <3>3
  <2>2. /\ split' \in Managers /\ split'.life = split.life /\ split'.quarantined = 0
        /\ split'.pc \in {"stop", "idle"} /\ split'.gateFailed /\ (split'.pc = "idle" => split'.told = "failed")
    BY <1>0, <1>1, <2>1, Returned DEF Leave
  <2>3. /\ driver' \in Drivers /\ driver'.owner = (IF split'.open THEN SplitService ELSE Nobody)
        /\ driver'.rules = driver.rules /\ driver'.state = driver.state
        /\ driver'.rules # {} => driver'.state = "running" BY <1>0, <1>1, YieldedDriver DEF Leave
  <2> QED BY <1>0, <1>1, <2>2, <2>3, AloneHolds DEF ManagerOK, Relies, InBoot, AwaitsHelper, Loaded
<1>2. ASSUME NEW h \in Slots, Launched(h, "cleanup", {}), driver' = [driver EXCEPT !.owner = h],
             split' = [Closed(split) EXCEPT !.pc = "cleanupWait", !.helper = h]
      PROVE  SplitInv'
  <2>1. /\ split' \in Managers /\ split'.pc = "cleanupWait" /\ split'.life = split.life /\ split'.quarantined = 0
        /\ split'.helper = h /\ ~split'.open /\ split'.op = split.op /\ split'.accepted = split.accepted
        /\ split'.ret = split.ret /\ split'.gateFailed = split.gateFailed
    BY <1>0, <1>2, SplitParts DEF Closed, Managers
  <2> QED BY <1>0, <1>2, <2>1, SplitParts, LaunchedHolds DEF Drivers
<1> QED BY <1>1, <1>2, SplitParts DEF LaunchCleanup

\* The manager waits for the helper that clears the rules.
LEMMA AwaitCleanupHolds ==
    ASSUME SplitInv, AwaitCleanup
    PROVE  SplitInv'
<1>0. /\ split.pc = "cleanupWait" /\ AwaitsHelper /\ split \in Managers /\ ~split.open /\ split.quarantined = 0
      /\ split.ret # "none" BY SplitParts DEF AwaitCleanup, AwaitsHelper, SplitInv, ManagerOK
<1>1. CASE Quarantined(LAMBDA s : Return(s, FALSE))
  <2>1. PICK aborted \in BOOLEAN :
          /\ IF aborted THEN Signal(split.helper, "abort") ELSE UNCHANGED helpers
          /\ split' = Return(Quarantine(split, aborted), FALSE)
          /\ UNCHANGED driver BY <1>1 DEF Quarantined
  <2> DEFINE s == Quarantine(split, aborted)
             field == IF aborted THEN "abort" ELSE "none"
  <2>2. /\ s \in Managers /\ s.life = split.life /\ s.quarantined = split.helper /\ s.open = split.open
        /\ s.accepted = split.accepted /\ s.ret = split.ret BY <1>0, QuarantinedManager
  <2>3. split' = Return(s, FALSE) BY <2>1
  <2>4. field \in {"abort", "none"} /\ (field = "abort" <=> aborted) OBVIOUS
  <2> HIDE DEF s, field
  <2>5. /\ split' \in Managers /\ split'.pc \in {"stop", "idle"} /\ split'.life = split.life
        /\ split'.quarantined = split.helper /\ ~split'.open /\ split'.accepted = split.accepted
        /\ (split'.pc = "idle" => split'.told # "ok") BY <1>0, <2>2, <2>3, Returned
  <2> QED BY <1>0, <2>1, <2>4, <2>5, QuarantinedHolds
<1>2. ASSUME Exited(split.helper), Reaped(split.helper), NEW ok \in BOOLEAN,
             NEW s \in {GateFailed(split), GateVerified(Reopened(split, TRUE))}, Leave(s, ok), Loaded(driver) \/ ~s.open,
             ok => helpers[split.helper].exit = "verified"
      PROVE  SplitInv'
  <2>1. /\ s \in Managers /\ s.ret = split.ret /\ s.life = split.life /\ s.quarantined = split.quarantined
        /\ s.accepted = split.accepted BY <1>0, <1>2, MarkedManager, ZenonT(40)
  <2>2. /\ split' \in Managers /\ split'.life = split.life /\ split'.quarantined = 0 /\ split'.accepted = split.accepted
        /\ split'.pc \in {"start", "stop", "idle"} /\ (~ok => split'.gateFailed)
        /\ split'.pc = "idle" /\ split'.told = "ok" => split'.op = {}
        /\ split'.open => s.open BY <1>0, <1>2, <2>1, Returned DEF Leave
  <2>4. /\ driver' \in Drivers /\ driver'.owner = (IF split'.open THEN SplitService ELSE Nobody)
        /\ driver'.rules = driver.rules /\ driver'.state = driver.state
        /\ driver'.rules # {} => driver'.state = "running" BY <1>0, <1>2, ReapedPlaces, YieldedDriver DEF Leave
  <2> QED
    BY <1>0, <1>2, <2>2, <2>4, AwaitedInSlots, ReapedPlaces, HandBack DEF InBoot, AwaitsHelper, ManagerOK, Loaded,
      SplitInv, RulesKnown, Harmless, Relies
<1>3. ~GateFailed(split).open BY <1>0 DEF GateFailed, Managers
<1>4. \/ Quarantined(LAMBDA s : Return(s, FALSE))
      \/ /\ Exited(split.helper) /\ Reaped(split.helper)
         /\ \/ Leave(GateFailed(split), FALSE)
            \/ /\ Loaded(driver) /\ helpers[split.helper].exit = "verified"
               /\ Leave(GateVerified(Reopened(split, TRUE)), TRUE) BY DEF AwaitCleanup, Openable
<1> QED BY <1>1, <1>2, <1>3, <1>4

\* The manager stops: it clears what it holds, or answers.
LEMMA StopDriverHolds ==
    ASSUME SplitInv, StopDriver
    PROVE  SplitInv'
<1>0. split.pc = "stop" /\ split \in Managers /\ ~InBoot /\ ~AwaitsHelper
  BY SplitParts DEF StopDriver, InBoot, AwaitsHelper
<1>1. CASE split.open /\ split' = [split EXCEPT !.pc = "cleanup", !.ret = "stop"] /\ UNCHANGED <<driver, helpers>>
  <2>1. /\ split' \in Managers /\ split'.pc = "cleanup" /\ split'.life = split.life /\ split'.open = split.open
        /\ split'.quarantined = split.quarantined /\ split'.ret # "none" BY <1>0, <1>1 DEF Managers
  <2> QED BY <1>0, <1>1, <2>1, AloneHolds, SplitParts DEF SplitInv, OneHolder, ManagerOK, Relies, InBoot, AwaitsHelper
<1>2. CASE /\ ~split.open /\ split.quarantined = 0
           /\ split' = Told(split, split.op = {} /\ ~split.gateFailed) /\ UNCHANGED <<driver, helpers>>
  <2> DEFINE b == split.op = {} /\ ~split.gateFailed
  <2>1. b \in BOOLEAN /\ (b => split.op = {}) /\ split' = Told(split, b) BY <1>2
  <2> HIDE DEF b
  <2>2. /\ split' \in Managers /\ split'.pc = "idle" /\ split'.life = split.life /\ split'.open = split.open
        /\ split'.quarantined = split.quarantined /\ split'.accepted = split.accepted
        /\ split'.gateFailed = split.gateFailed /\ (split'.told = "ok" => split'.op = {}) BY <1>0, <2>1, Answers
  <2>4. Relies' => Harmless BY <1>0, <1>2, <2>2 DEF SplitInv, RulesKnown, Relies
  <2> QED BY <1>0, <1>2, <2>2, <2>4, ManagerOnly DEF InBoot, AwaitsHelper, ManagerOK
<1>3. CASE ~split.open /\ Reap(Told(split, split.op = {}), Told(split, FALSE), "reapStop")
  <2> DEFINE b == split.op = {}
             yes == Told(split, b)
             no == Told(split, FALSE)
  <2>1. Reap(yes, no, "reapStop") /\ b \in BOOLEAN /\ (b => split.op = {}) BY <1>3
  <2> HIDE DEF b
  <2>2. /\ yes \in Managers /\ yes.pc = "idle" /\ yes.life = split.life /\ yes.accepted = split.accepted
        /\ (yes.told = "ok" => yes.op = {}) BY <1>0, <2>1, Answers
  <2>3. /\ no \in Managers /\ no.pc = "idle" /\ no.life = split.life /\ no.accepted = split.accepted /\ no.open = split.open
        /\ no.quarantined = split.quarantined /\ no.gateFailed = split.gateFailed /\ no.told = "failed"
    BY <1>0, Answers
  <2> HIDE DEF yes, no
  <2> QED BY <1>0, <1>3, <2>1, <2>2, <2>3, ReapHolds
<1> QED BY <1>1, <1>2, <1>3 DEF StopDriver

-----------------------------------------------------------------------------

\* A driver nobody installed and a service that boots satisfy the invariant.
LEMMA SplitInitHolds == SplitInit => SplitInv
<1> SUFFICES ASSUME SplitInit PROVE SplitInv OBVIOUS
<1>1. MaxHelpers \in Nat /\ SplitService = MaxHelpers + 1 /\ Nobody = 0 /\ Slots = 1 .. MaxHelpers
  BY SplitAssumption DEF SplitService, Nobody, Slots
<1>2. /\ split \in Managers /\ split.pc = "boot" /\ ~split.open /\ split.quarantined = 0 /\ split.told = "none"
      /\ ~split.gateFailed BY <1>1 DEF SplitInit, NewManager, Managers
<1>3. driver \in Drivers /\ driver.rules = {} /\ driver.owner = Nobody BY <1>1 DEF SplitInit, Drivers
<1>4. helpers \in [Slots -> HelperProcesses] /\ \A h \in Slots : helpers[h] = NoHelper /\ helpers[h].pc = "exited"
  BY <1>1 DEF SplitInit, NoHelper, HelperProcesses
<1>5. InBoot /\ ~AwaitsHelper /\ \A h \in Slots : ~Current(h) BY <1>1, <1>2 DEF InBoot, AwaitsHelper, Current
<1> QED
  BY <1>1, <1>2, <1>3, <1>4, <1>5 DEF SplitInv, SplitTypeOK, OneHolder, HoldingSteps, HelpersKnown, Exited, ManagerOK,
    RulesKnown, Relies

\* Every step of the service, of a helper or of the system keeps the invariant.
LEMMA SplitStepHolds == SplitInv /\ [SplitStep]_splitVars => SplitInv'
<1> SUFFICES ASSUME SplitInv, [SplitStep]_splitVars PROVE SplitInv' OBVIOUS
<1>1. CASE UNCHANGED splitVars
  BY <1>1 DEF splitVars, SplitInv, SplitTypeOK, OneHolder, HelpersKnown, ManagerOK, RulesKnown, Current, AwaitsHelper,
    InBoot, Relies, Harmless, Exited, Loaded, AppConfiguration
<1>2. CASE SplitStep
  BY SplitParts, <1>2, BootResetHolds, BootCreateHolds, ServiceStopsHolds, UninstallHolds, RequestedHolds,
    StartDriverHolds, ExcludeAppsHolds, AwaitHolds, TakeExitCodeHolds, LaunchCleanupHolds, AwaitCleanupHolds,
    StopDriverHolds, HelperOpensHolds, HelperRechecksHolds, HelperSetsHolds, HelperControlHolds, HelperCleansHolds,
    HelperDiesHolds DEF SplitStep
<1> QED BY <1>1, <1>2

\* In every state the split-tunnel device has one holder, no helper of an
\* earlier service can reach it once it was reset, and the rules in force are
\* the ones the point of the handoff allows.
THEOREM SplitInvariance == SplitSpec => []SplitInv
<1> QED BY SplitInitHolds, SplitStepHolds, PTL DEF SplitSpec

\* For any number of helpers and of restarts of the service: rules that were
\* never accepted are not in force once the service trusts the driver, and an
\* accepted request is in force exactly as it was converted.
THEOREM OnlyAcceptedRules == SplitSpec => []AcceptedRulesOnly
<1>1. SplitInv => AcceptedRulesOnly
  BY DEF AcceptedRulesOnly, SplitInv, RulesKnown, Relies, Harmless, InBoot, AwaitsHelper
<1> QED BY <1>1, SplitInvariance, PTL

-----------------------------------------------------------------------------
(***************************************************************************)
(* The Linux daemon.  Requests run inside each other's waits, but only the *)
(* innermost acts, and the last part of a deactivation, from the excluded  *)
(* prefixes to the interface, never waits.  So it is enough to say that a  *)
(* route in the kernel always has a count or an endpoint state that stands *)
(* for it, and how far a deactivation at the top of the stack has come.    *)
(***************************************************************************)

Steps == Waiting \cup {"begin", "spawn", "addresses", "exclude", "peer", "run", "leave", "switched",
                       "remove", "down", "downPrefixes", "downRoutes", "interface"}
Configs == Wanted \cup {NoServer}
Frames ==
    [op : {"activate", "deactivate", "status"}, by : Callers \cup {"timer"}, cfg : Configs,
     last : Configs, pc : Steps, todo : SUBSET Excludable,
     then : {"none", "switch", "activate", "fail", "told"},
     owned : BOOLEAN, clean : BOOLEAN, network : BOOLEAN]
EndpointStates == [at : {"none", "tracked", "uncertain"}, owned : BOOLEAN, removed : BOOLEAN]

LinuxDaemons ==
    [conn : Configs, refs : [Excludable -> Nat], nonce : Callers \cup {"none"}, held : [Callers -> BOOLEAN]]
Utils ==
    [tunnel : {"none", "running", "dead"}, monitor : BOOLEAN, receipts : SUBSET Servers,
     busy : BOOLEAN, known : SUBSET Servers, ep : [Servers -> EndpointStates]]
Kernels ==
    [excluded : SUBSET Excludable, endpoints : SUBSET Servers, tunnelled : BOOLEAN, rules : BOOLEAN]

LinuxTypeOK == ld \in LinuxDaemons /\ wgu \in Utils /\ kern \in Kernels

\* The server a request works on, at the steps that use it.
FrameOK(f) ==
    /\ \/ f.pc \in {"begin", "spawn", "name", "interfaceUapi", "addresses", "exclude", "peer",
                    "peerUapi", "recoverUapi", "run", "leave", "switched"}
       \/ f.then \in {"switch", "activate"}
       => f.cfg \in Wanted
    /\ f.pc \in {"leave", "remove", "removeUapi", "downPrefixes"} \/ f.then = "switch" => f.last \in Wanted

StackOK ==
    /\ stack \in Seq(Frames)
    /\ \A i \in 1 .. Len(stack) : FrameOK(stack[i])
    /\ \A i \in 1 .. Len(stack) : i < Len(stack) => stack[i].pc \in Waiting

\* Every route in the kernel is stood for.
Accounted ==
    /\ \A d \in kern.excluded : ld.refs[d] > 0
    /\ \A s \in kern.endpoints : wgu.ep[s].owned \/ wgu.ep[s].at = "uncertain"

\* How far the deactivation at the top has come with the excluded prefixes.
Emptied(f, refs) ==
    /\ f.pc = "downRoutes" /\ f.network => \A d \in Excludable : refs[d] > 0 => d \in f.todo
    /\ f.pc = "interface" => \A d \in Excludable : refs[d] = 0
Emptying == stack # <<>> => Emptied(Top, ld.refs)

LinuxInv == LinuxTypeOK /\ StackOK /\ Accounted /\ Emptying /\ ConfirmedCleanup

\* The request at the top of the stack is one of the daemon's.
LEMMA TopFrame ==
    ASSUME StackOK, stack # <<>>
    PROVE  Len(stack) \in 1 .. Len(stack) /\ Top \in Frames /\ FrameOK(Top)
BY DEF StackOK, Top

\* The frame at the top goes on as f; the ones below wait.
LEMMA Continued ==
    ASSUME StackOK, stack # <<>>, NEW f \in Frames, FrameOK(f), Continue(f)
    PROVE  StackOK' /\ stack' # <<>> /\ Top' = f
<1>1. /\ stack' \in Seq(Frames) /\ Len(stack') = Len(stack) /\ Len(stack) \in Nat \ {0}
      /\ \A i \in 1 .. Len(stack) : stack'[i] = IF i = Len(stack) THEN f ELSE stack[i] BY DEF StackOK, Continue
<1> QED BY <1>1 DEF StackOK, Top

\* The frame at the top is done: the one below waits.
LEMMA Ended ==
    ASSUME StackOK, stack # <<>>, Pop
    PROVE  StackOK' /\ (stack' # <<>> => Top'.pc \in Waiting)
<1>0. Len(stack) \in Nat \ {0} /\ \A i \in 1 .. Len(stack) - 1 : stack[i] \in Frames BY DEF StackOK
<1>1. /\ stack' \in Seq(Frames) /\ Len(stack') = Len(stack) - 1 /\ Len(stack) \in Nat \ {0}
      /\ \A i \in 1 .. Len(stack) - 1 : stack'[i] = stack[i]
  <2> DEFINE n == Len(stack) - 1
  <2>2. /\ SubSeq(stack, 1, n) \in Seq(Frames)
        /\ Len(SubSeq(stack, 1, n)) = IF 1 <= n THEN n - 1 + 1 ELSE 0
        /\ \A i \in 1 .. n - 1 + 1 : SubSeq(stack, 1, n)[i] = stack[1 + i - 1] BY <1>0, SubSeqProperties
  <2>4. stack' = SubSeq(stack, 1, n) /\ n = Len(stack) - 1 BY DEF Pop
  <2> HIDE DEF n
  <2> QED BY <1>0, <2>2, <2>4
<1> QED BY <1>1 DEF StackOK, Top

\* A request starts inside the wait of another.
LEMMA Entered ==
    ASSUME StackOK, NEW f \in Frames, FrameOK(f), Enter(f)
    PROVE  StackOK' /\ stack' # <<>> /\ Top' = f
<1>1. /\ stack' \in Seq(Frames) /\ Len(stack') = Len(stack) + 1 /\ Len(stack) \in Nat
      /\ \A i \in 1 .. Len(stack) : stack'[i] = stack[i]
      /\ stack'[Len(stack) + 1] = f BY DEF StackOK, Enter
<1> QED BY <1>1 DEF StackOK, Enter, Interruptible, Top

\* A step that ends its request.
LEMMA EndedEmptying ==
    ASSUME StackOK, stack # <<>>, Pop
    PROVE  StackOK' /\ Emptying'
BY Ended DEF Emptying, Emptied, Waiting

\* A step at which the request goes on.
LEMMA ContinuedEmptying ==
    ASSUME StackOK, stack # <<>>, NEW f \in Frames, FrameOK(f), Continue(f), Emptied(f, ld'.refs)
    PROVE  StackOK' /\ Emptying'
BY Continued DEF Emptying, Emptied

\* A new request does not start at a step of which something is claimed.
LEMMA EnteredEmptying ==
    ASSUME StackOK, NEW f \in Frames, FrameOK(f), Enter(f), f.pc \notin {"downRoutes", "interface"}
    PROVE  StackOK' /\ Emptying'
BY Entered DEF Emptying, Emptied

\* A request that goes on to a step of which nothing is claimed.
LEMMA ResumedEmptying ==
    ASSUME StackOK, stack # <<>>, NEW pc \in Steps \ {"downRoutes", "interface"}, Resume(pc),
           FrameOK([Top EXCEPT !.pc = pc])
    PROVE  StackOK' /\ Emptying'
<1> DEFINE f == [Top EXCEPT !.pc = pc]
<1>1. f \in Frames /\ f.pc = pc /\ FrameOK(f) BY TopFrame DEF Frames
<1>2. Continue(f) BY DEF Resume
<1> HIDE DEF f
<1> QED BY <1>1, <1>2, ContinuedEmptying DEF Emptied

-----------------------------------------------------------------------------
(* The requests and what happens around them. *)

\* The typing facts a step may use.
LEMMA TypedParts ==
    ASSUME LinuxInv
    PROVE  /\ ld.conn \in Configs /\ ld.refs \in [Excludable -> Nat]
           /\ wgu.receipts \subseteq Servers /\ wgu.known \subseteq Servers
           /\ wgu.ep \in [Servers -> EndpointStates]
           /\ kern.excluded \subseteq Excludable /\ kern.endpoints \subseteq Servers
BY DEF LinuxInv, LinuxTypeOK, LinuxDaemons, Utils, Kernels

\* What is left to show when a step changes neither the kernel nor what stands
\* for its routes.
LEMMA NothingRouted ==
    ASSUME Accounted, UNCHANGED kern, ld'.refs = ld.refs, wgu'.ep = wgu.ep
    PROVE  Accounted'
BY DEF Accounted

\* A client asks for a connection.
LEMMA ActivateRequestedHolds ==
    ASSUME LinuxInv, NEW c \in Callers, NEW cfg \in Wanted, ActivateRequested(c, cfg)
    PROVE  LinuxInv'
<1>1. LinuxTypeOK' /\ ld'.refs = ld.refs /\ receipt' = "none"
  BY DEF LinuxInv, LinuxTypeOK, LinuxDaemons, Utils, Kernels, ActivateRequested, Silent
<1> DEFINE f == Frame("activate", c, cfg, "begin")
<1>3. f \in Frames /\ FrameOK(f) /\ f.pc = "begin" /\ Enter(f)
  BY DEF ActivateRequested, Frame, Frames, FrameOK, Configs, Steps
<1> HIDE DEF f
<1> QED BY <1>1, <1>3, EnteredEmptying, NothingRouted DEF LinuxInv, ConfirmedCleanup, ActivateRequested

\* A client asks for a deactivation.
LEMMA DeactivateRequestedHolds ==
    ASSUME LinuxInv, NEW c \in Callers, NEW legacy \in BOOLEAN, DeactivateRequested(c, legacy)
    PROVE  LinuxInv'
<1>1. LinuxTypeOK' /\ receipt' # "confirmed" /\ UNCHANGED <<ld, wgu, kern>>
  BY DEF LinuxInv, LinuxTypeOK, LinuxDaemons, Utils, Kernels, DeactivateRequested, Silent
<1>2. Accounted' BY <1>1, NothingRouted DEF LinuxInv
<1> DEFINE owned == ~legacy /\ ld.held[c] /\ ld.nonce = c
           f == [Frame("deactivate", c, NoServer, "down") EXCEPT !.owned = owned, !.then = "told"]
<1>3. CASE Enter(f)
  <2>1. f \in Frames /\ FrameOK(f) /\ f.pc = "down" BY DEF Frame, Frames, FrameOK, Configs, Steps
  <2> HIDE DEF f
  <2> QED BY <1>1, <1>2, <1>3, <2>1, EnteredEmptying DEF LinuxInv, ConfirmedCleanup
<1>4. CASE UNCHANGED stack BY <1>1, <1>2, <1>4 DEF LinuxInv, ConfirmedCleanup, StackOK, Emptying, Top
<1> QED BY <1>3, <1>4 DEF DeactivateRequested

\* A client asks for the status.
LEMMA StatusRequestedHolds ==
    ASSUME LinuxInv, StatusRequested
    PROVE  LinuxInv'
<1>1. LinuxTypeOK' /\ receipt' = "none" /\ UNCHANGED <<ld, wgu, kern>>
  BY DEF LinuxInv, LinuxTypeOK, LinuxDaemons, Utils, Kernels, StatusRequested, Silent
<1> DEFINE f == Frame("status", "timer", NoServer, "status")
<1>3. f \in Frames /\ FrameOK(f) /\ f.pc = "status" /\ Enter(f)
  BY DEF StatusRequested, Frame, Frames, FrameOK, Configs, Steps, Waiting
<1> HIDE DEF f
<1> QED BY <1>1, <1>3, EnteredEmptying, NothingRouted DEF LinuxInv, ConfirmedCleanup

\* The status is answered.
LEMMA StatusDoneHolds ==
    ASSUME LinuxInv, StatusDone
    PROVE  LinuxInv'
<1>1. LinuxTypeOK' /\ receipt' = "none" /\ UNCHANGED <<ld, wgu, kern>>
  BY DEF LinuxInv, LinuxTypeOK, LinuxDaemons, Utils, Kernels, StatusDone, Silent
<1> QED BY <1>1, EndedEmptying, NothingRouted DEF LinuxInv, ConfirmedCleanup, StatusDone, At

\* A client goes away while its request waits.
LEMMA CallerGoneHolds ==
    ASSUME LinuxInv, NEW c \in Callers, CallerGone(c)
    PROVE  LinuxInv'
<1>1. LinuxTypeOK' /\ receipt' = "none" /\ ld'.refs = ld.refs
  BY DEF LinuxInv, LinuxTypeOK, LinuxDaemons, Utils, Kernels, CallerGone, Silent
<1> QED BY <1>1, NothingRouted DEF LinuxInv, ConfirmedCleanup, CallerGone, StackOK, Emptying, Top

\* The tunnel process exits by itself.
LEMMA TunnelExitsHolds ==
    ASSUME LinuxInv, TunnelExits
    PROVE  LinuxInv'
<1>1. LinuxTypeOK' /\ receipt' = "none" /\ Accounted'
  BY DEF LinuxInv, LinuxTypeOK, LinuxDaemons, Utils, Kernels, TunnelExits, Silent, Accounted
<1> QED BY <1>1 DEF LinuxInv, ConfirmedCleanup, TunnelExits, StackOK, Emptying, Top

-----------------------------------------------------------------------------
(* activate *)

\* An activation chooses between a switch, a restart and a new tunnel.
LEMMA BeginHolds ==
    ASSUME LinuxInv, Begin
    PROVE  LinuxInv'
<1>1. LinuxTypeOK' /\ receipt' = "none" /\ UNCHANGED <<ld, wgu, kern>> /\ stack # <<>>
  BY DEF LinuxInv, LinuxTypeOK, LinuxDaemons, Utils, Kernels, Begin, Silent, At
<1>2. Accounted' BY <1>1, NothingRouted DEF LinuxInv
<1>3. Top \in Frames /\ FrameOK(Top) /\ Top.pc = "begin" /\ Top.cfg \in Wanted
  BY <1>1, TopFrame DEF LinuxInv, Begin, At, FrameOK
<1> DEFINE f == [Top EXCEPT !.pc = "exclude", !.then = "switch", !.last = ld.conn, !.todo = Top.cfg.excluded]
           g == [Top EXCEPT !.pc = "down", !.then = "activate"]
<1>4. CASE ld.conn # NoServer /\ Continue(f)
  <2>1. f \in Frames /\ FrameOK(f) /\ f.pc = "exclude"
    BY <1>3, <1>4, TypedParts DEF Frames, FrameOK, Configs, Steps, Wanted
  <2> HIDE DEF f
  <2> QED BY <1>1, <1>2, <1>4, <2>1, ContinuedEmptying DEF LinuxInv, ConfirmedCleanup, Emptied
<1>5. CASE Continue(g)
  <2>1. g \in Frames /\ FrameOK(g) /\ g.pc = "down" BY <1>3 DEF Frames, FrameOK, Steps
  <2> HIDE DEF g
  <2> QED BY <1>1, <1>2, <1>5, <2>1, ContinuedEmptying DEF LinuxInv, ConfirmedCleanup, Emptied
<1>6. CASE Resume("addresses")
  BY <1>3, <1>1, <1>2, <1>6, ResumedEmptying DEF FrameOK, Frames, LinuxInv, ConfirmedCleanup, Steps
<1>7. CASE Resume("spawn")
  BY <1>3, <1>1, <1>2, <1>7, ResumedEmptying DEF FrameOK, Frames, LinuxInv, ConfirmedCleanup, Steps
<1> QED BY <1>4, <1>5, <1>6, <1>7 DEF Begin

\* The tunnel process is started, or fails to start.
LEMMA SpawnHolds ==
    ASSUME LinuxInv, Spawn
    PROVE  LinuxInv'
<1>1. LinuxTypeOK' /\ receipt' # "confirmed" /\ UNCHANGED <<ld, kern>> /\ wgu'.ep = wgu.ep /\ stack # <<>>
  BY DEF LinuxInv, LinuxTypeOK, LinuxDaemons, Utils, Kernels, Spawn, Silent, Failed, Tell, At
<1>3. FrameOK([Top EXCEPT !.pc = "name"]) BY <1>1, TopFrame DEF LinuxInv, Spawn, At, FrameOK, Frames
<1>4. StackOK' /\ Emptying' BY <1>1, <1>3, ResumedEmptying, EndedEmptying DEF LinuxInv, Spawn, Failed, Steps, Waiting
<1> QED BY <1>1, <1>4, NothingRouted DEF LinuxInv, ConfirmedCleanup

\* The name of the interface is there, or the wait for it times out.
LEMMA NameFoundHolds ==
    ASSUME LinuxInv, NameFound
    PROVE  LinuxInv'
<1>1. LinuxTypeOK' /\ receipt' # "confirmed" /\ UNCHANGED <<ld, kern>> /\ wgu'.ep = wgu.ep /\ stack # <<>>
  BY DEF LinuxInv, LinuxTypeOK, LinuxDaemons, Utils, Kernels, NameFound, Silent, Failed, Tell, At
<1>3. FrameOK([Top EXCEPT !.pc = "interfaceUapi"]) BY <1>1, TopFrame DEF LinuxInv, NameFound, At, FrameOK, Frames
<1>4. StackOK' /\ Emptying'
  BY <1>1, <1>3, ResumedEmptying, EndedEmptying DEF LinuxInv, NameFound, Failed, Steps, Waiting
<1> QED BY <1>1, <1>4, NothingRouted DEF LinuxInv, ConfirmedCleanup

\* The interface answers its first configuration.
LEMMA InterfaceConfiguredHolds ==
    ASSUME LinuxInv, InterfaceConfigured
    PROVE  LinuxInv'
<1>1. LinuxTypeOK' /\ Accounted' /\ receipt' # "confirmed" /\ stack # <<>>
  BY DEF LinuxInv, LinuxTypeOK, LinuxDaemons, Utils, Kernels, Accounted, InterfaceConfigured, Silent, Failed, Tell, At
<1>3. FrameOK([Top EXCEPT !.pc = "addresses"])
  BY <1>1, TopFrame DEF LinuxInv, InterfaceConfigured, At, FrameOK, Frames
<1>4. StackOK' /\ Emptying'
  BY <1>1, <1>3, ResumedEmptying, EndedEmptying DEF LinuxInv, InterfaceConfigured, Failed, Steps
<1> QED BY <1>1, <1>4 DEF LinuxInv, ConfirmedCleanup

\* The addresses and the link of the interface are set.
LEMMA AddressesHolds ==
    ASSUME LinuxInv, Addresses
    PROVE  LinuxInv'
<1>1. LinuxTypeOK' /\ receipt' # "confirmed" /\ UNCHANGED <<ld, wgu, kern>> /\ stack # <<>>
  BY DEF LinuxInv, LinuxTypeOK, LinuxDaemons, Utils, Kernels, Addresses, Silent, Failed, Tell, At
<1> DEFINE f == [Top EXCEPT !.pc = "exclude", !.todo = Top.cfg.excluded]
<1>3. f \in Frames /\ FrameOK(f) /\ f.pc = "exclude"
  BY <1>1, TopFrame DEF LinuxInv, Addresses, At, FrameOK, Frames, Wanted, Steps
<1>4. Continue(f) \/ Failed BY DEF Addresses
<1> HIDE DEF f
<1> QED
  BY <1>1, <1>3, <1>4, ContinuedEmptying, EndedEmptying, NothingRouted DEF LinuxInv, ConfirmedCleanup, Failed, Emptied

\* One excluded prefix gets its count and its route.
LEMMA AddExclusionHolds ==
    ASSUME LinuxInv, NEW d \in Excludable, AddExclusion(d)
    PROVE  LinuxInv'
<1>1. LinuxTypeOK' /\ Accounted' /\ receipt' # "confirmed" /\ stack # <<>>
  <2>1. /\ ld' = [ld EXCEPT !.refs[d] = @ + 1] /\ UNCHANGED wgu
        /\ kern' \in {kern, [kern EXCEPT !.excluded = @ \cup {d}]}
        /\ receipt' # "confirmed" /\ stack # <<>> BY DEF AddExclusion, AddThrow, Silent, Failed, Tell, At
  <2>2. LinuxTypeOK'
    <3>1. [ld.refs EXCEPT ![d] = ld.refs[d] + 1] \in [Excludable -> Nat] BY TypedParts
    <3>2. ld' \in LinuxDaemons BY <2>1, <3>1 DEF LinuxInv, LinuxTypeOK, LinuxDaemons
    <3> QED BY <2>1, <3>2 DEF LinuxInv, LinuxTypeOK, Kernels
  <2>3. Accounted' BY <2>1, TypedParts DEF LinuxInv, LinuxTypeOK, LinuxDaemons, Kernels, Accounted
  <2> QED BY <2>1, <2>2, <2>3
<1> DEFINE f == [Top EXCEPT !.todo = @ \ {d}]
<1> HIDE DEF f
<1> QED
  BY <1>1, TopFrame, ContinuedEmptying, EndedEmptying DEF LinuxInv, ConfirmedCleanup, Failed, Emptied, AddExclusion,
    At, FrameOK, Frames

\* All excluded prefixes have been added.
LEMMA ExclusionsAddedHolds ==
    ASSUME LinuxInv, ExclusionsAdded
    PROVE  LinuxInv'
<1>1. LinuxTypeOK' /\ receipt' = "none" /\ UNCHANGED <<ld, wgu, kern>> /\ stack # <<>>
  BY DEF LinuxInv, LinuxTypeOK, LinuxDaemons, Utils, Kernels, ExclusionsAdded, Silent, At
<1> QED
  BY <1>1, TopFrame, ResumedEmptying, NothingRouted DEF LinuxInv, ConfirmedCleanup, ExclusionsAdded, Steps, At,
    FrameOK, Frames

\* A cleanup of the endpoint route of s, on utils w that stand for every
\* endpoint route, leaves utils that do.
LEMMA CleanedEndpoint ==
    ASSUME NEW w \in Utils, NEW s \in Servers, NEW ok \in BOOLEAN, kern \in Kernels,
           \A r \in kern.endpoints : w.ep[r].owned \/ w.ep[r].at = "uncertain",
           CleanEndpoint(w, s, ok)
    PROVE  /\ wgu' \in Utils /\ kern' \in Kernels /\ kern'.excluded = kern.excluded
           /\ \A r \in kern'.endpoints : wgu'.ep[r].owned \/ wgu'.ep[r].at = "uncertain"
<1> DEFINE e == w.ep[s]
           unsure == [w EXCEPT !.ep[s].at = "uncertain"]
           gone == [w EXCEPT !.ep[s] = NoEndpoint]
           clean == [w EXCEPT !.ep[s] = NoEndpoint, !.receipts = @ \ {s}]
           routed == [kern EXCEPT !.endpoints = @ \ {s}]
<1>1. unsure \in Utils /\ unsure.ep[s].at = "uncertain" /\ \A r \in Servers \ {s} : unsure.ep[r] = w.ep[r]
  BY DEF Utils, EndpointStates
<1>2. gone \in Utils /\ \A r \in Servers \ {s} : gone.ep[r] = w.ep[r] BY DEF Utils, EndpointStates, NoEndpoint
<1>3. clean \in Utils /\ \A r \in Servers \ {s} : clean.ep[r] = w.ep[r] BY DEF Utils, EndpointStates, NoEndpoint
<1>4. /\ routed \in Kernels /\ routed.endpoints = kern.endpoints \ {s} /\ routed.excluded = kern.excluded
      /\ kern.endpoints \subseteq Servers BY DEF Kernels
<1>5. \/ wgu' = w /\ UNCHANGED kern
      \/ wgu' = gone /\ UNCHANGED kern /\ s \notin kern.endpoints
      \/ wgu' = unsure /\ kern' \in {kern, routed}
      \/ wgu' = clean /\ kern' = routed BY DEF CleanEndpoint
<1> HIDE DEF unsure, gone, clean, routed
<1> QED BY <1>1, <1>2, <1>3, <1>4, <1>5

\* Marking a peer as removed, or not, leaves its route as it is.
LEMMA MarkedEndpoint ==
    ASSUME NEW ep \in [Servers -> EndpointStates], NEW s \in Servers, NEW b \in BOOLEAN
    PROVE  /\ [ep EXCEPT ![s].removed = b] \in [Servers -> EndpointStates]
           /\ \A r \in Servers : /\ [ep EXCEPT ![s].removed = b][r].at = ep[r].at
                               /\ [ep EXCEPT ![s].removed = b][r].owned = ep[r].owned
<1> QED BY DEF EndpointStates

\* The peer is configured, with the route to its endpoint.
LEMMA UpdatePeerHolds ==
    ASSUME LinuxInv, UpdatePeer
    PROVE  LinuxInv'
<1> DEFINE s == Top.cfg.server
           owned == [NoEndpoint EXCEPT !.at = "tracked", !.owned = TRUE]
           unsure == [NoEndpoint EXCEPT !.at = "uncertain"]
           mine == [[wgu EXCEPT !.ep[s] = owned, !.receipts = @ \cup {s}] EXCEPT !.busy = TRUE]
           maybe == [wgu EXCEPT !.ep[s] = unsure]
           routed == [kern EXCEPT !.endpoints = @ \cup {s}]
<1>1. stack # <<>> /\ Top \in Frames /\ FrameOK(Top) /\ Top.pc = "peer" /\ s \in Servers
  BY TopFrame DEF LinuxInv, UpdatePeer, At, FrameOK, Wanted
<1>3. (Resume("peerUapi") /\ Silent) \/ Failed BY DEF UpdatePeer
<1>5. /\ UNCHANGED ld
      /\ \/ UNCHANGED <<wgu, kern>>
         \/ wgu' = [wgu EXCEPT !.busy = TRUE] /\ UNCHANGED kern
         \/ wgu' = mine /\ kern' = routed
         \/ wgu' = maybe /\ kern' \in {kern, routed} BY DEF UpdatePeer
<1>6. /\ wgu \in Utils /\ kern \in Kernels /\ ld \in LinuxDaemons /\ kern.endpoints \subseteq Servers
      /\ [wgu EXCEPT !.busy = TRUE] \in Utils /\ [wgu EXCEPT !.busy = TRUE].ep = wgu.ep
  BY DEF LinuxInv, LinuxTypeOK, Utils, Kernels
<1>7. mine \in Utils /\ mine.ep[s].owned /\ \A r \in Servers \ {s} : mine.ep[r] = wgu.ep[r]
  BY <1>1, <1>6 DEF Utils, EndpointStates, NoEndpoint
<1>8. maybe \in Utils /\ maybe.ep[s].at = "uncertain" /\ \A r \in Servers \ {s} : maybe.ep[r] = wgu.ep[r]
  BY <1>1, <1>6 DEF Utils, EndpointStates, NoEndpoint
<1>9. routed \in Kernels /\ routed.endpoints = kern.endpoints \cup {s} /\ routed.excluded = kern.excluded
  BY <1>1, <1>6 DEF Kernels
<1> HIDE DEF mine, maybe, routed
<1>10. LinuxTypeOK' /\ kern'.excluded = kern.excluded /\ kern'.endpoints \subseteq Servers
  BY <1>1, <1>5, <1>6, <1>7, <1>8, <1>9 DEF LinuxInv, LinuxTypeOK
<1>11. ASSUME NEW r \in kern'.endpoints PROVE wgu'.ep[r].owned \/ wgu'.ep[r].at = "uncertain"
  <2>1. r \in Servers /\ (r \in kern.endpoints => wgu.ep[r].owned \/ wgu.ep[r].at = "uncertain")
    BY <1>10, <1>11 DEF LinuxInv, Accounted
  <2> HIDE DEF s
  <2>2. CASE wgu' = mine /\ kern' = routed BY <1>7, <1>9, <1>11, <2>1, <2>2
  <2>3. CASE wgu' = maybe /\ kern' \in {kern, routed} BY <1>8, <1>9, <1>11, <2>1, <2>3
  <2> QED BY <1>5, <1>6, <1>11, <2>1, <2>2, <2>3
<1> QED
  BY <1>1, <1>3, <1>5, <1>10, <1>11, ResumedEmptying, EndedEmptying DEF LinuxInv, ConfirmedCleanup, Accounted, Failed,
    Tell, Silent, Steps, Waiting, FrameOK, Frames

\* The tunnel process answered the configuration of the peer.
LEMMA PeerUpdatedHolds ==
    ASSUME LinuxInv, PeerUpdated
    PROVE  LinuxInv'
<1> DEFINE s == Top.cfg.server
           known == [wgu EXCEPT !.known = @ \cup {s}, !.busy = FALSE, !.ep[s].removed = FALSE]
           f == [Top EXCEPT !.pc = "leave", !.todo = Top.last.excluded]
           g == [Top EXCEPT !.pc = "run"]
<1>1. /\ stack # <<>> /\ Top \in Frames /\ FrameOK(Top) /\ Top.pc = "peerUapi" /\ s \in Servers
      /\ Top.cfg \in Wanted BY TopFrame DEF LinuxInv, PeerUpdated, At, FrameOK, Wanted
<1>3. Top.then = "switch" => f \in Frames /\ FrameOK(f) /\ f.pc = "leave" BY <1>1 DEF FrameOK, Frames, Steps, Wanted
<1>4. g \in Frames /\ FrameOK(g) /\ g.pc = "run" BY <1>1 DEF FrameOK, Frames, Steps
<1>5. \/ Silent /\ (IF Top.then = "switch" THEN Continue(f) ELSE Continue(g))
      \/ Failed
      \/ Resume("recoverUapi") /\ Silent BY DEF PeerUpdated
<1>6. /\ UNCHANGED <<ld, kern>>
      /\ \/ UNCHANGED wgu
         \/ wgu' = [wgu EXCEPT !.busy = FALSE]
         \/ wgu' = known BY DEF PeerUpdated
<1> HIDE DEF f, g
<1> DEFINE ep == [wgu.ep EXCEPT ![s].removed = FALSE]
<1>0. ep \in [Servers -> EndpointStates] /\ \A r \in Servers : ep[r].at = wgu.ep[r].at /\ ep[r].owned = wgu.ep[r].owned
  <2> HIDE DEF s
  <2>1. wgu.ep \in [Servers -> EndpointStates] BY TypedParts
  <2> QED BY <1>1, <2>1, MarkedEndpoint
<1>10. known.ep = ep /\ known = [wgu EXCEPT !.known = @ \cup {s}, !.busy = FALSE, !.ep = ep]
  BY DEF LinuxInv, LinuxTypeOK, Utils
<1> HIDE DEF ep, known
<1>8. /\ known \in Utils /\ \A r \in Servers : known.ep[r].at = wgu.ep[r].at /\ known.ep[r].owned = wgu.ep[r].owned
      /\ [wgu EXCEPT !.busy = FALSE] \in Utils /\ [wgu EXCEPT !.busy = FALSE].ep = wgu.ep
  <2>1. wgu \in Utils BY DEF LinuxInv, LinuxTypeOK
  <2> HIDE DEF s
  <2>2. known \in Utils
    <3> DEFINE k == wgu.known \cup {s}
    <3>1. k \in SUBSET Servers /\ known = [wgu EXCEPT !.known = k, !.busy = FALSE, !.ep = ep]
      BY <1>1, <1>10, <2>1 DEF Utils
    <3> HIDE DEF k
    <3> QED BY <1>0, <2>1, <3>1 DEF Utils
  <2>3. [wgu EXCEPT !.busy = FALSE] \in Utils /\ [wgu EXCEPT !.busy = FALSE].ep = wgu.ep BY <2>1 DEF Utils
  <2> QED BY <1>0, <1>10, <2>2, <2>3
<1>9. LinuxTypeOK' /\ Accounted'
  <2> HIDE DEF s
  <2>1. wgu' \in Utils BY <1>6, <1>8 DEF LinuxInv, LinuxTypeOK
  <2>2. \A r \in Servers : wgu'.ep[r].at = wgu.ep[r].at /\ wgu'.ep[r].owned = wgu.ep[r].owned BY <1>6, <1>8
  <2> QED BY <1>6, <2>1, <2>2, TypedParts DEF LinuxInv, LinuxTypeOK, Accounted
<1> QED
  BY <1>1, <1>3, <1>4, <1>5, <1>9, ResumedEmptying, EndedEmptying, ContinuedEmptying DEF LinuxInv, ConfirmedCleanup,
    Failed, Tell, Silent, Steps, Waiting, Emptied, FrameOK, Frames

\* A peer whose configuration failed has been removed again.
LEMMA PeerRecoveredHolds ==
    ASSUME LinuxInv, PeerRecovered
    PROVE  LinuxInv'
<1> DEFINE s == Top.cfg.server
           w == [wgu EXCEPT !.busy = FALSE, !.ep[s].removed = TRUE]
<1>1. stack # <<>> /\ s \in Servers BY TopFrame DEF LinuxInv, PeerRecovered, At, FrameOK, Wanted
<1>2. StackOK' /\ Emptying' /\ receipt' # "confirmed" /\ UNCHANGED ld
  BY <1>1, EndedEmptying DEF LinuxInv, PeerRecovered, Failed, Tell
<1> DEFINE ep == [wgu.ep EXCEPT ![s].removed = TRUE]
<1>0. ep \in [Servers -> EndpointStates] /\ \A r \in Servers : ep[r].at = wgu.ep[r].at /\ ep[r].owned = wgu.ep[r].owned
  <2> HIDE DEF s
  <2>1. wgu.ep \in [Servers -> EndpointStates] BY TypedParts
  <2> QED BY <1>1, <2>1, MarkedEndpoint
<1>10. w.ep = ep /\ w = [wgu EXCEPT !.busy = FALSE, !.ep = ep] BY DEF LinuxInv, LinuxTypeOK, Utils
<1> HIDE DEF ep, w
<1>3. /\ w \in Utils /\ \A r \in Servers : w.ep[r].at = wgu.ep[r].at /\ w.ep[r].owned = wgu.ep[r].owned
      /\ [wgu EXCEPT !.busy = FALSE] \in Utils /\ [wgu EXCEPT !.busy = FALSE].ep = wgu.ep
      /\ kern \in Kernels /\ ld \in LinuxDaemons BY <1>0, <1>1, <1>10 DEF LinuxInv, LinuxTypeOK, Utils
<1>4. (\E ok \in BOOLEAN : CleanEndpoint(w, s, ok)) \/ (wgu' = [wgu EXCEPT !.busy = FALSE] /\ UNCHANGED kern)
  BY DEF PeerRecovered, w
<1>6. LinuxTypeOK' /\ Accounted'
  <2>1. CASE \E ok \in BOOLEAN : CleanEndpoint(w, s, ok)
    BY <1>1, <1>2, <1>3, <2>1, TypedParts, CleanedEndpoint DEF LinuxInv, LinuxTypeOK, Accounted
  <2>2. CASE wgu' = [wgu EXCEPT !.busy = FALSE] /\ UNCHANGED kern
    BY <1>2, <1>3, <2>2 DEF LinuxInv, LinuxTypeOK, Accounted
  <2> QED BY <1>4, <2>1, <2>2
<1> QED BY <1>2, <1>6 DEF LinuxInv, ConfirmedCleanup

\* A step that says where the routes into the tunnel stand changes nothing that
\* is accounted for.
LEMMA RunHolds ==
    ASSUME LinuxInv, Run
    PROVE  LinuxInv'
<1> DEFINE f == [Top EXCEPT !.pc = "remove", !.then = "fail", !.last = Top.cfg]
<1>1. stack # <<>> /\ Top \in Frames /\ FrameOK(Top) /\ Top.pc = "run" /\ Top.cfg \in Wanted
  BY TopFrame DEF LinuxInv, Run, At, FrameOK
<1>2. f \in Frames /\ FrameOK(f) /\ f.pc = "remove" BY <1>1 DEF Frames, FrameOK, Steps, Configs
<1>3. /\ UNCHANGED wgu /\ receipt' # "confirmed"
      /\ ld' \in {ld, [ld EXCEPT !.conn = Top.cfg]}
      /\ kern' \in {kern, [kern EXCEPT !.tunnelled = TRUE], [kern EXCEPT !.tunnelled = @ \/ wgu.tunnel = "running"]}
  BY DEF Run, Tell, Silent
<1>4. Pop \/ Continue(f) BY DEF Run
<1> HIDE DEF f
<1>7. kern' \in Kernels /\ kern'.excluded = kern.excluded /\ kern'.endpoints = kern.endpoints
  BY <1>3 DEF LinuxInv, LinuxTypeOK, Kernels
<1> QED
  BY <1>1, <1>2, <1>3, <1>4, <1>7, ContinuedEmptying, EndedEmptying DEF LinuxInv, ConfirmedCleanup, Emptied,
    LinuxTypeOK, Accounted, LinuxDaemons, Configs

\* A throw route that is deleted, or perhaps deleted, leaves the others.
LEMMA ThrowDeleted ==
    ASSUME kern \in Kernels, NEW d \in Excludable, NEW ok \in BOOLEAN, DeleteThrow(d, ok)
    PROVE  /\ kern' \in Kernels /\ kern'.endpoints = kern.endpoints
           /\ kern'.excluded \subseteq kern.excluded
           /\ ok => d \notin kern'.excluded
BY DEF DeleteThrow, Kernels

\* A count that drops, but to zero only where no route is left.
LEMMA LeaveExclusionHolds ==
    ASSUME LinuxInv, NEW d \in Excludable, LeaveExclusion(d)
    PROVE  LinuxInv'
<1> DEFINE f == [Top EXCEPT !.todo = @ \ {d}]
<1>1. stack # <<>> /\ Top \in Frames /\ FrameOK(Top) /\ Top.pc = "leave" BY TopFrame DEF LinuxInv, LeaveExclusion, At
<1> HIDE DEF f
<1>3. StackOK' /\ Emptying' /\ receipt' # "confirmed" /\ UNCHANGED wgu
  BY <1>1, ContinuedEmptying DEF LinuxInv, Emptied, LeaveExclusion, Silent, Frames, FrameOK
<1>4. ld \in LinuxDaemons /\ kern \in Kernels /\ ld.refs \in [Excludable -> Nat] /\ kern.excluded \subseteq Excludable
  BY TypedParts DEF LinuxInv, LinuxTypeOK
<1>5. CASE ld.refs[d] > 1 /\ ld' = [ld EXCEPT !.refs[d] = @ - 1] /\ UNCHANGED kern
  BY <1>4, <1>5, <1>3 DEF LinuxDaemons, LinuxInv, Accounted, LinuxTypeOK, ConfirmedCleanup
<1>6. ASSUME NEW ok \in BOOLEAN, DeleteThrow(d, ok), ld' = IF ok THEN [ld EXCEPT !.refs[d] = 0] ELSE ld
      PROVE  LinuxInv'
  BY <1>4, <1>6, ThrowDeleted, <1>3 DEF LinuxDaemons, LinuxInv, Accounted, LinuxTypeOK, ConfirmedCleanup
<1> QED BY <1>5, <1>6 DEF LeaveExclusion

\* The exclusions of the server that is left are gone.
LEMMA LeftExclusionsHolds ==
    ASSUME LinuxInv, LeftExclusions
    PROVE  LinuxInv'
<1>1. stack # <<>> /\ Top \in Frames /\ FrameOK(Top) /\ Top.pc = "leave" /\ Top.cfg \in Wanted
  BY TopFrame DEF LinuxInv, LeftExclusions, At, FrameOK
<1>2. /\ UNCHANGED <<wgu, kern>> /\ receipt' # "confirmed"
      /\ ld' \in {ld, [ld EXCEPT !.conn = Top.cfg]} BY DEF LeftExclusions, Silent
<1>4. LinuxTypeOK' /\ Accounted' BY <1>1, <1>2, NothingRouted DEF LinuxInv, LinuxTypeOK, LinuxDaemons, Configs
<1>5. CASE Resume("remove")
  BY <1>1, <1>5, <1>2, <1>4, ResumedEmptying DEF FrameOK, Frames, LinuxInv, Steps, ConfirmedCleanup
<1>6. CASE Resume("switched")
  BY <1>1, <1>2, <1>4, <1>6, ResumedEmptying DEF FrameOK, Frames, LinuxInv, Steps, ConfirmedCleanup
<1> QED BY <1>5, <1>6 DEF LeftExclusions

\* The switch to another server is complete.
LEMMA ServerSwitchedHolds ==
    ASSUME LinuxInv, ServerSwitched
    PROVE  LinuxInv'
<1>1. stack # <<>> /\ Pop /\ UNCHANGED <<ld, wgu, kern>> /\ receipt' # "confirmed"
  BY DEF ServerSwitched, At, Failed, Tell
<1> QED BY <1>1, NothingRouted, EndedEmptying DEF LinuxInv, ConfirmedCleanup, LinuxTypeOK

-----------------------------------------------------------------------------
(* deletePeer and deactivate *)

\* Whatever the caller of deletePeer makes of the answer, the references stay
\* and no cleanup is confirmed.
LEMMA RemoveAnswered ==
    ASSUME LinuxInv, stack # <<>>, Top.pc \in {"remove", "removeUapi"}, NEW ok \in BOOLEAN, AfterRemove(ok)
    PROVE  /\ StackOK' /\ Emptying' /\ receipt' # "confirmed"
           /\ ld' \in LinuxDaemons /\ ld'.refs = ld.refs
<1>1. Top \in Frames /\ FrameOK(Top) BY TopFrame DEF LinuxInv
<1> DEFINE f == [Top EXCEPT !.pc = "downRoutes", !.todo = {d \in Excludable : ld.refs[d] > 0},
                            !.network = @ /\ ok, !.clean = @ /\ ok]
<1>2. CASE Failed /\ UNCHANGED ld BY <1>2, EndedEmptying DEF LinuxInv, LinuxTypeOK, Failed, Tell
<1>3. CASE Top.then = "switch" /\ Resume("switched") /\ Silent /\ ld' = [ld EXCEPT !.conn = Top.cfg]
  BY <1>1, <1>3, ResumedEmptying DEF FrameOK, Frames, LinuxInv, LinuxTypeOK, LinuxDaemons, Configs, Steps, Silent
<1>4. CASE Top.then \notin {"fail", "switch"} /\ Continue(f) /\ Silent /\ UNCHANGED ld
  <2>1. f \in Frames /\ FrameOK(f) /\ Emptied(f, ld'.refs)
    BY <1>1, <1>4, ZenonT(40) DEF FrameOK, Frames, Steps, Emptied
  <2> HIDE DEF f
  <2> QED BY <1>4, <2>1, ContinuedEmptying DEF LinuxInv, LinuxTypeOK, Silent
<1> QED BY <1>2, <1>3, <1>4 DEF AfterRemove

\* The peer of the server that is left is asked to go.
LEMMA RemovePeerHolds ==
    ASSUME LinuxInv, RemovePeer
    PROVE  LinuxInv'
<1> DEFINE s == Top.last.server
<1>1. stack # <<>> /\ Top \in Frames /\ FrameOK(Top) /\ Top.pc = "remove" /\ s \in Servers
  BY TopFrame DEF LinuxInv, RemovePeer, At, FrameOK, Wanted
<1>2. wgu \in Utils /\ kern \in Kernels /\ ld \in LinuxDaemons BY DEF LinuxInv, LinuxTypeOK
<1>3. CASE AfterRemove(FALSE) /\ UNCHANGED <<wgu, kern>>
  BY <1>1, <1>2, <1>3, RemoveAnswered, NothingRouted DEF LinuxInv, LinuxTypeOK, ConfirmedCleanup
<1>4. ASSUME NEW ok \in BOOLEAN, CleanEndpoint(wgu, s, ok), AfterRemove(ok) PROVE LinuxInv'
  BY <1>1, <1>4, RemoveAnswered, <1>2, CleanedEndpoint DEF LinuxInv, Accounted, LinuxTypeOK, ConfirmedCleanup
<1>5. CASE Resume("removeUapi") /\ wgu' = [wgu EXCEPT !.busy = TRUE] /\ Silent /\ UNCHANGED <<ld, kern>>
  <2>2. wgu' \in Utils /\ wgu'.ep = wgu.ep BY <1>2, <1>5 DEF Utils
  <2> QED
    BY <1>1, <1>2, <1>5, <2>2, ResumedEmptying, NothingRouted DEF LinuxInv, LinuxTypeOK, Steps, Waiting, Silent,
      ConfirmedCleanup, FrameOK, Frames
<1> QED BY <1>3, <1>4, <1>5 DEF RemovePeer

\* The tunnel process answered the removal of the peer.
LEMMA PeerRemovedHolds ==
    ASSUME LinuxInv, PeerRemoved
    PROVE  LinuxInv'
<1> DEFINE s == Top.last.server
           free == [wgu EXCEPT !.busy = FALSE]
           forgot == [free EXCEPT !.known = @ \ {s}]
           w == [free EXCEPT !.ep[s].removed = TRUE, !.known = @ \ {s}]
           ep == [wgu.ep EXCEPT ![s].removed = TRUE]
<1>1. stack # <<>> /\ Top \in Frames /\ FrameOK(Top) /\ Top.pc = "removeUapi" /\ s \in Servers
  BY TopFrame DEF LinuxInv, PeerRemoved, At, FrameOK, Wanted
<1>2. wgu \in Utils /\ kern \in Kernels /\ ld \in LinuxDaemons /\ wgu.ep \in [Servers -> EndpointStates]
  BY TypedParts DEF LinuxInv, LinuxTypeOK
<1>3. \E ok \in BOOLEAN :
         /\ AfterRemove(ok)
         /\ \/ wgu' \in {free, forgot} /\ UNCHANGED kern
            \/ CleanEndpoint(w, s, ok) BY DEF PeerRemoved
<1>4. ep \in [Servers -> EndpointStates] /\ \A r \in Servers : ep[r].at = wgu.ep[r].at /\ ep[r].owned = wgu.ep[r].owned
  <2> HIDE DEF s
  <2> QED BY <1>1, <1>2, MarkedEndpoint
<1>5. /\ free \in Utils /\ free.ep = wgu.ep /\ forgot \in Utils /\ forgot.ep = wgu.ep BY <1>2 DEF Utils
<1>6. w.ep = ep /\ w = [wgu EXCEPT !.busy = FALSE, !.known = @ \ {s}, !.ep = ep] BY <1>2 DEF Utils
<1> HIDE DEF ep, w, free, forgot, s
<1>7. w \in Utils BY <1>2, <1>4, <1>6, ZenonT(40) DEF Utils
<1>8. \A r \in kern.endpoints : w.ep[r].owned \/ w.ep[r].at = "uncertain"
  BY <1>4, <1>6, TypedParts DEF LinuxInv, Accounted
<1>9. PICK ok \in BOOLEAN :
         /\ AfterRemove(ok)
         /\ \/ wgu' \in {free, forgot} /\ UNCHANGED kern
            \/ CleanEndpoint(w, s, ok) BY <1>3
<1>10. /\ StackOK' /\ Emptying' /\ receipt' # "confirmed" /\ ld' \in LinuxDaemons /\ ld'.refs = ld.refs
  BY <1>1, <1>9, RemoveAnswered
<1>11. CASE wgu' \in {free, forgot} /\ UNCHANGED kern
  BY <1>2, <1>5, <1>10, <1>11 DEF LinuxInv, LinuxTypeOK, Accounted, ConfirmedCleanup
<1>12. CASE CleanEndpoint(w, s, ok)
  BY <1>1, <1>2, <1>7, <1>8, <1>12, CleanedEndpoint, <1>10 DEF LinuxInv, LinuxTypeOK, Accounted, ConfirmedCleanup
<1> QED BY <1>9, <1>11, <1>12

\* deactivate starts: every prefix with a count is to be deleted.
LEMMA DownBeginsHolds ==
    ASSUME LinuxInv, DownBegins
    PROVE  LinuxInv'
<1>1. stack # <<>> /\ Top \in Frames /\ FrameOK(Top) /\ Top.pc = "down" BY TopFrame DEF LinuxInv, DownBegins, At
<1>2. LinuxTypeOK' /\ receipt' # "confirmed" /\ UNCHANGED <<ld, wgu, kern>>
  BY DEF LinuxInv, LinuxTypeOK, LinuxDaemons, Utils, Kernels, DownBegins, Silent
<1>4. ASSUME NEW dns \in BOOLEAN,
             Continue([Top EXCEPT !.pc = "downRoutes", !.clean = dns, !.todo = {d \in Excludable : ld.refs[d] > 0}])
      PROVE  StackOK' /\ Emptying'
  <2> DEFINE f == [Top EXCEPT !.pc = "downRoutes", !.clean = dns, !.todo = {d \in Excludable : ld.refs[d] > 0}]
  <2>1. f \in Frames /\ FrameOK(f) /\ Emptied(f, ld'.refs) BY <1>1, <1>2 DEF FrameOK, Frames, Steps, Emptied
  <2>2. Continue(f) BY <1>4
  <2> HIDE DEF f
  <2> QED BY <1>1, <2>1, <2>2, ContinuedEmptying DEF LinuxInv
<1>5. ASSUME NEW dns \in BOOLEAN, ld.conn # NoServer,
             Continue([Top EXCEPT !.pc = "downPrefixes", !.clean = dns, !.last = ld.conn])
      PROVE  StackOK' /\ Emptying'
  <2> DEFINE f == [Top EXCEPT !.pc = "downPrefixes", !.clean = dns, !.last = ld.conn]
  <2>1. f \in Frames /\ FrameOK(f) /\ Emptied(f, ld'.refs)
    BY <1>1, <1>5, TypedParts DEF FrameOK, Frames, Steps, Emptied, Configs
  <2>2. Continue(f) BY <1>5
  <2> HIDE DEF f
  <2> QED BY <1>1, <2>1, <2>2, ContinuedEmptying DEF LinuxInv
<1>6. StackOK' /\ Emptying' BY <1>4, <1>5 DEF DownBegins
<1> QED BY <1>2, <1>6, NothingRouted DEF LinuxInv, ConfirmedCleanup

\* A deactivation removes the excluded prefixes.
LEMMA DownPrefixesHolds ==
    ASSUME LinuxInv, DownPrefixes
    PROVE  LinuxInv'
<1> DEFINE f == [Top EXCEPT !.pc = "remove", !.network = FALSE, !.clean = FALSE]
<1>1. stack # <<>> /\ Top \in Frames /\ FrameOK(Top) /\ Top.pc = "downPrefixes"
  BY TopFrame DEF LinuxInv, DownPrefixes, At
<1>2. LinuxTypeOK' /\ Accounted' /\ receipt' # "confirmed"
  BY DEF LinuxInv, LinuxTypeOK, LinuxDaemons, Utils, Kernels, Accounted, DownPrefixes, Silent
<1>4. f \in Frames /\ FrameOK(f) /\ f.pc = "remove" BY <1>1 DEF FrameOK, Frames, Steps
<1>5. Continue(f) \/ Resume("remove") BY DEF DownPrefixes
<1> HIDE DEF f
<1> QED
  BY <1>1, <1>2, <1>4, <1>5, ContinuedEmptying, ResumedEmptying DEF LinuxInv, ConfirmedCleanup, Emptied, Steps,
    FrameOK, Frames

\* A prefix leaves the list with its count at zero, or the cleanup is no longer
\* a clean one.
LEMMA DownExclusionHolds ==
    ASSUME LinuxInv, NEW d \in Excludable, DownExclusion(d)
    PROVE  LinuxInv'
<1>1. stack # <<>> /\ Top \in Frames /\ FrameOK(Top) /\ Top.pc = "downRoutes" /\ Emptied(Top, ld.refs)
  BY TopFrame DEF LinuxInv, DownExclusion, At, Emptying
<1>2. PICK ok \in BOOLEAN :
          /\ DeleteThrow(d, ok)
          /\ Continue([Top EXCEPT !.todo = @ \ {d}, !.network = @ /\ ok, !.clean = @ /\ ok])
          /\ ld' = IF ok THEN [ld EXCEPT !.refs[d] = 0] ELSE ld BY DEF DownExclusion
<1>3. ld \in LinuxDaemons /\ kern \in Kernels /\ ld.refs \in [Excludable -> Nat] /\ kern.excluded \subseteq Excludable
  BY TypedParts DEF LinuxInv, LinuxTypeOK
<1>4. /\ kern' \in Kernels /\ kern'.endpoints = kern.endpoints /\ kern'.excluded \subseteq kern.excluded
      /\ ok => d \notin kern'.excluded BY <1>2, <1>3, ThrowDeleted
<1>6. ld' \in LinuxDaemons /\ ld'.refs = IF ok THEN [ld.refs EXCEPT ![d] = 0] ELSE ld.refs
  BY <1>2, <1>3 DEF LinuxDaemons
<1> DEFINE f == [Top EXCEPT !.todo = @ \ {d}, !.network = @ /\ ok, !.clean = @ /\ ok]
<1>8. f \in Frames /\ FrameOK(f) /\ f.pc = "downRoutes" /\ f.todo = Top.todo \ {d} /\ (f.network => Top.network /\ ok)
  BY <1>1 DEF Frames, FrameOK
<1>9. Continue(f) BY <1>2
<1> HIDE DEF f
<1> QED
  BY <1>1, <1>3, <1>4, <1>6, <1>8, <1>9, ContinuedEmptying DEF LinuxInv, LinuxTypeOK, Accounted, ConfirmedCleanup,
    DownExclusion, Silent, Emptied

\* deactivate returns: only a clean one is confirmed, and the references stay.
LEMMA DownReturned ==
    ASSUME LinuxInv, stack # <<>>, NEW ok \in BOOLEAN, DownReturns(ok)
    PROVE  /\ StackOK' /\ Emptying' /\ (receipt' = "confirmed" => ok)
           /\ ld' \in LinuxDaemons /\ ld'.refs = ld.refs
<1>1. Top \in Frames /\ FrameOK(Top) BY TopFrame DEF LinuxInv
<1> DEFINE f == [Top EXCEPT !.pc = "begin", !.then = "none", !.clean = TRUE, !.network = TRUE]
<1>2. ld' \in LinuxDaemons /\ ld'.refs = ld.refs
  <2> DEFINE held == [ld.held EXCEPT ![Top.by] = FALSE]
             closed == [ld EXCEPT !.conn = NoServer]
             released == [ld EXCEPT !.conn = NoServer, !.nonce = "none", !.held[Top.by] = FALSE]
  <2>1. ld \in LinuxDaemons BY DEF LinuxInv, LinuxTypeOK
  <2>2. held \in [Callers -> BOOLEAN] BY <2>1 DEF LinuxDaemons
  <2>3. released = [ld EXCEPT !.conn = NoServer, !.nonce = "none", !.held = held] BY <2>1 DEF LinuxDaemons
  <2>4. ld' \in {ld, closed, released} BY DEF DownReturns
  <2> HIDE DEF held, released
  <2>5. released \in LinuxDaemons /\ released.refs = ld.refs BY <2>1, <2>2, <2>3 DEF LinuxDaemons, Configs
  <2>6. closed \in LinuxDaemons /\ closed.refs = ld.refs BY <2>1 DEF LinuxDaemons, Configs
  <2> HIDE DEF closed
  <2> QED BY <2>1, <2>4, <2>5, <2>6
<1>4. Pop \/ (Top.then = "activate" /\ Continue(f)) BY DEF DownReturns, Failed
<1>5. Top.then = "activate" => f \in Frames /\ FrameOK(f) /\ f.pc = "begin" BY <1>1 DEF FrameOK, Frames, Steps
<1> HIDE DEF f
<1> QED BY <1>2, <1>4, <1>5, ContinuedEmptying, EndedEmptying DEF DownReturns, Silent, Tell, Failed, LinuxInv, Emptied

\* The last excluded prefix is gone: with a clean network no count is left.
LEMMA DownRoutesEndHolds ==
    ASSUME LinuxInv, DownRoutesEnd
    PROVE  LinuxInv'
<1>1. stack # <<>> /\ Top \in Frames /\ FrameOK(Top) /\ Top.pc = "downRoutes" /\ Emptied(Top, ld.refs) /\ Top.todo = {}
  BY TopFrame DEF LinuxInv, DownRoutesEnd, At, Emptying
<1>2. UNCHANGED <<wgu, kern>> BY DEF DownRoutesEnd
<1>3. CASE Top.network /\ Resume("interface") /\ Silent /\ UNCHANGED ld
  BY <1>1, <1>3, TypedParts, ContinuedEmptying, <1>2, NothingRouted DEF Frames, FrameOK, Steps, Resume, Emptied,
    LinuxInv, LinuxTypeOK, Silent, ConfirmedCleanup
<1>4. CASE DownReturns(FALSE)
  BY <1>1, <1>2, <1>4, DownReturned, NothingRouted DEF LinuxInv, LinuxTypeOK, ConfirmedCleanup
<1> QED BY <1>3, <1>4 DEF DownRoutesEnd

\* A deactivation removes the routes to the endpoints.
LEMMA DownEndpointHolds ==
    ASSUME LinuxInv, NEW s \in Servers, DownEndpoint(s)
    PROVE  LinuxInv'
<1>1. stack # <<>> BY DEF DownEndpoint, At
<1>2. PICK ok \in BOOLEAN :
          /\ \/ CleanEndpoint(wgu, s, ok)
             \/ UNCHANGED <<wgu, kern>>
          /\ IF ok THEN UNCHANGED <<stack, ld>> /\ Silent ELSE DownReturns(FALSE) BY DEF DownEndpoint
<1>3. wgu \in Utils /\ kern \in Kernels /\ ld \in LinuxDaemons BY DEF LinuxInv, LinuxTypeOK
<1>5. /\ StackOK' /\ Emptying' /\ receipt' # "confirmed"
      /\ ld' \in LinuxDaemons /\ ld'.refs = ld.refs
  <2>1. CASE ok BY <1>2, <1>3, <2>1 DEF LinuxInv, StackOK, Emptying, Top, Silent
  <2>2. CASE ~ok BY <1>1, <1>2, <2>2, DownReturned
  <2> QED BY <2>1, <2>2
<1> QED BY <1>2, <1>3, <1>5, CleanedEndpoint DEF LinuxInv, LinuxTypeOK, Accounted, ConfirmedCleanup

\* deleteInterface ends.  This is the one step that confirms: no endpoint state
\* is left, so no endpoint route is; no count is left, so no throw route is.
LEMMA DownInterfaceHolds ==
    ASSUME LinuxInv, DownInterface
    PROVE  LinuxInv'
<1>1. stack # <<>> /\ Top \in Frames /\ Top.pc = "interface" /\ Emptied(Top, ld.refs)
  BY TopFrame DEF LinuxInv, DownInterface, At, Emptying
<1>2. wgu \in Utils /\ kern \in Kernels /\ ld \in LinuxDaemons /\ kern.endpoints \subseteq Servers
      /\ kern.excluded \subseteq Excludable BY TypedParts DEF LinuxInv, LinuxTypeOK
<1> DEFINE w == [wgu EXCEPT !.monitor = FALSE, !.receipts = {}]
           dead == [w EXCEPT !.tunnel = "dead"]
           gone == [w EXCEPT !.tunnel = "none", !.known = {}]
           untunnelled == [kern EXCEPT !.tunnelled = FALSE]
           clear == [kern EXCEPT !.tunnelled = FALSE, !.rules = FALSE]
<1>3. /\ w \in Utils /\ w.ep = wgu.ep /\ dead \in Utils /\ dead.ep = wgu.ep
      /\ gone \in Utils /\ gone.ep = wgu.ep /\ gone.tunnel = "none" /\ gone.busy = wgu.busy BY <1>2 DEF Utils
<1>4. /\ untunnelled \in Kernels /\ untunnelled.endpoints = kern.endpoints /\ untunnelled.excluded = kern.excluded
      /\ clear = [excluded |-> kern.excluded, endpoints |-> kern.endpoints, tunnelled |-> FALSE, rules |-> FALSE]
      /\ clear \in Kernels
  <2>3. /\ clear \in Kernels /\ clear.excluded = kern.excluded /\ clear.endpoints = kern.endpoints
        /\ clear.tunnelled = FALSE /\ clear.rules = FALSE BY <1>2 DEF Kernels
  <2>2. clear = [excluded |-> kern.excluded, endpoints |-> kern.endpoints, tunnelled |-> FALSE, rules |-> FALSE]
    <3> HIDE DEF clear
    <3> QED BY <2>3 DEF Kernels
  <2>4. untunnelled \in Kernels /\ untunnelled.endpoints = kern.endpoints /\ untunnelled.excluded = kern.excluded
    BY <1>2 DEF Kernels
  <2> QED BY <2>2, <2>3, <2>4
<1>5. \/ /\ DownReturns(FALSE) /\ wgu' \in {wgu, w, dead} /\ kern' \in {kern, untunnelled}
      \/ /\ DownReturns(Top.clean) /\ wgu' = gone /\ kern' = clear /\ ~wgu.busy
         /\ \A s \in Servers : wgu.ep[s] = NoEndpoint BY DEF DownInterface, Endpoint
<1> HIDE DEF w, dead, gone, untunnelled, clear
<1>6. CASE DownReturns(FALSE) /\ wgu' \in {wgu, w, dead} /\ kern' \in {kern, untunnelled}
  <2>1. /\ StackOK' /\ Emptying' /\ receipt' # "confirmed" /\ ld' \in LinuxDaemons /\ ld'.refs = ld.refs
    BY <1>1, <1>6, DownReturned
  <2> QED BY <1>2, <1>3, <1>4, <1>6, <2>1 DEF LinuxInv, LinuxTypeOK, Accounted, ConfirmedCleanup
<1>7. CASE /\ DownReturns(Top.clean) /\ wgu' = gone /\ kern' = clear /\ ~wgu.busy
           /\ \A s \in Servers : wgu.ep[s] = NoEndpoint
  <2>3. kern.endpoints = {} BY <1>2, <1>7 DEF LinuxInv, Accounted, NoEndpoint
  <2>4. kern.excluded = {} BY <1>1, <1>2 DEF LinuxInv, Accounted, Emptied
  <2> QED
    BY <1>1, <1>3, <1>4, <1>7, <2>3, <2>4, DownReturned DEF LinuxInv, LinuxTypeOK, Accounted, Frames, ConfirmedCleanup
<1> QED BY <1>5, <1>6, <1>7

-----------------------------------------------------------------------------

\* An idle daemon satisfies the invariant.
LEMMA LinuxInitHolds == LinuxInit => LinuxInv
<1> SUFFICES ASSUME LinuxInit PROVE LinuxInv OBVIOUS
<1> QED
  BY DEF LinuxInv, LinuxInit, LinuxTypeOK, LinuxDaemons, Utils, Kernels, Configs, NoEndpoint, EndpointStates, StackOK,
    Emptying, Accounted, ConfirmedCleanup

\* Every step of the daemon keeps the invariant.
LEMMA LinuxStepHolds == LinuxInv /\ [LinuxStep(Wanted)]_linuxVars => LinuxInv'
<1> SUFFICES ASSUME LinuxInv, [LinuxStep(Wanted)]_linuxVars PROVE LinuxInv' OBVIOUS
<1>1. CASE UNCHANGED linuxVars
  BY <1>1 DEF linuxVars, LinuxInv, LinuxTypeOK, StackOK, Accounted, Emptying, Top, ConfirmedCleanup
<1>2. CASE LinuxStep(Wanted)
  BY <1>2, ActivateRequestedHolds, DeactivateRequestedHolds, CallerGoneHolds, StatusRequestedHolds, StatusDoneHolds,
    TunnelExitsHolds, BeginHolds, SpawnHolds, NameFoundHolds, InterfaceConfiguredHolds, AddressesHolds,
    ExclusionsAddedHolds, UpdatePeerHolds, PeerUpdatedHolds, PeerRecoveredHolds, RunHolds, LeftExclusionsHolds,
    ServerSwitchedHolds, RemovePeerHolds, PeerRemovedHolds, DownBeginsHolds, DownPrefixesHolds, DownRoutesEndHolds,
    DownInterfaceHolds, AddExclusionHolds, LeaveExclusionHolds, DownExclusionHolds, DownEndpointHolds DEF LinuxStep
<1> QED BY <1>1, <1>2

\* In every state of the Linux daemon a route in the kernel has a reference
\* count or an endpoint state that stands for it, and a deactivation that has
\* reached the interface has no count left.
THEOREM LinuxInvariance == LinuxSpec => []LinuxInv
<1> QED BY LinuxInitHolds, LinuxStepHolds, PTL DEF LinuxSpec

\* Whatever the connections ask for and in whatever order their requests run
\* inside each other's UAPI waits, for any callers, servers, prefixes and
\* bounds: a cleanup the daemon confirms has left nothing of the session.
THEOREM CleanupIsConfirmed == LinuxSpec => []ConfirmedCleanup
<1>1. LinuxInv => ConfirmedCleanup BY DEF LinuxInv
<1> QED BY <1>1, LinuxInvariance, PTL

-----------------------------------------------------------------------------
(***************************************************************************)
(* The Windows tunnel.  The policy of a session is held by filters that    *)
(* several steps add and remove one at a time.  So the invariant says      *)
(* which block each of strict mode, the session and the other peers still  *)
(* has, what the firewall knows of the filters it added, and how far a     *)
(* transition between two exclusion lists has come when it can fail.       *)
(***************************************************************************)

FilterKinds ==
    {"permit DHCP", "permit Hyper-V", "permit the service", "block DNS", "permit loopback",
     "strict", "fence", "adapter", "block", "permit"}
FilterObjects == {"all"} \cup Peers \cup {OpenVpn} \cup ((Peers \cup {OpenVpn}) \X Bypass)
Filters == FilterKinds \X FilterObjects

FirewallTypes ==
    /\ wfp \in SUBSET Filters
    /\ strict \in BOOLEAN
    /\ faults \in Nat
    /\ fw \in [session : BOOLEAN, known : BOOLEAN, rules : SUBSET Filters,
               orphans : SUBSET Filters, luid : BOOLEAN]
    /\ promise \in [session : BOOLEAN, waived : BOOLEAN]

ConnectPcs == {"interface", "fence", "exclude", "peer", "uapi"}
TransitionPcs ==
    {"narrow", "moveOut", "moved", "moveIn", "widen", "undo", "undoRoutes", "openNew",
     "opened", "closeOld", "undoOpening", "undoOpen", "updated", "rolledBack", "uncertain"}
OpenPcs == {"openNew", "opened", "closeOld", "undoOpening", "undoOpen"}
TunnelPcs ==
    ConnectPcs \cup TransitionPcs \cup
    {"boot", "failed", "idle", "run", "leave", "forget", "switched", "failure", "down",
     "downRoutes", "downFirewall", "downTunnel"}

Daemons ==
    [pc : TunnelPcs, conn : TunnelConfigs \cup {NoConfig}, cfg : TunnelConfigs \cup {NoConfig},
     refs : [Bypass -> Nat], known : BOOLEAN, todo : SUBSET (Bypass \cup {"dns"}),
     done : SUBSET (Bypass \cup {"dns"}), clean : BOOLEAN,
     then : {"none", "switch", "activate", "fail", "told"},
     from : SUBSET (Bypass \cup Peers \cup {"none"})]

TunnelTypes ==
    /\ wd \in Daemons
    /\ routes \in [kernel : SUBSET Bypass, owned : SUBSET Bypass, monitor : BOOLEAN, restarts : Nat]
    /\ tunnel \in [state : {"none", "running", "dead"}, peers : SUBSET Peers, stale : BOOLEAN]
    /\ IsFiniteSet(tunnel.peers)

\* Strict mode has its block until it is given up; a protected session has one,
\* and a second for every other peer once the engine's filters are tracked.
StrictKept == strict /\ ~promise.waived => Strict \in wfp

SessionKept ==
    promise.session /\ (~tunnel.stale \/ (~Connected /\ wd.pc # "boot")) => BlockedOutside(wfp)

PeersBlocked ==
    tunnel.state = "running" /\ promise.session /\ ~tunnel.stale =>
        /\ Strict \in wfp \/ ~Reconciled \/ \A p \in tunnel.peers : Rule("block", p) \in wfp
        /\ Fence \in wfp => tunnel.peers = {}

\* What the point an operation is at says of the session, the tunnel and the
\* filters.
PointsOK ==
    /\ wd.pc \in ConnectPcs => (promise.session => wd.cfg.kill) /\ wd.cfg.peer \in Peers
    /\ wd.pc = "interface" => ~Connected
    /\ wd.pc = "fence" =>
          ~Connected /\ wd.cfg.kill /\ tunnel.state = "running" /\ (~tunnel.stale => tunnel.peers = {})
    /\ wd.pc = "uapi" /\ promise.session => Fence \notin wfp /\ Rule("block", wd.cfg.peer) \in wfp
    /\ wd.pc \in {"run", "leave", "switched"} \cup TransitionPcs => wd.cfg.peer \in Peers
    /\ wd.pc = "leave" \/ wd.then = "switch" => Connected
    /\ wd.pc = "downTunnel" => ~promise.session
    /\ wd.pc = "forget" /\ ~Connected => ~promise.session
    /\ wd.then \in {"switch", "activate"} => wd.cfg.peer \in Peers

KillSwitchInv == StrictKept /\ SessionKept /\ PeersBlocked /\ PointsOK

\* How far a transition of the exclusion policy has come.
TransitionOK ==
    /\ routes.kernel \subseteq routes.owned
    /\ wd.pc \in TransitionPcs => Connected /\ wd.from \in SUBSET Bypass
    /\ wd.pc \in OpenPcs => ~wd.conn.kill
    /\ wd.pc \in {"moveOut", "moved", "moveIn", "undoRoutes"} /\ wd.conn.kill =>
          Permits(wfp, wd.conn.peer) = Common
    /\ wd.pc \in {"moveOut", "closeOld"} =>
          wd.todo \subseteq Removed /\ (Removed \ wd.todo) \cap routes.kernel = {}
    /\ wd.pc \in {"moved", "moveIn", "widen"} => Removed \cap routes.kernel = {}
    /\ wd.pc \in {"moveIn", "openNew"} =>
          wd.todo \subseteq Added /\ Added \ wd.todo \subseteq routes.kernel
    /\ wd.pc \in {"widen", "opened", "closeOld"} => Added \subseteq routes.kernel
    /\ wd.pc \in {"moved", "opened"} => wd.todo = {}
    /\ wd.pc \in {"undoRoutes", "undoOpen"} /\ wd.clean =>
          /\ Removed \cap (wd.done \ wd.todo) \subseteq routes.kernel
          /\ Added \cap (wd.done \ wd.todo) \cap routes.kernel = {}
    /\ ExclusionReceipts

\* The inductive invariant.
WindowsInv == FirewallTypes /\ TunnelTypes /\ KillSwitchInv /\ TransitionOK

Objects == [session : BOOLEAN, known : BOOLEAN, rules : SUBSET Filters,
            orphans : SUBSET Filters, luid : BOOLEAN]

\* A filter of one of the kinds on one of the objects.
LEMMA RuleIsFilter ==
    ASSUME NEW kind \in FilterKinds, NEW of \in FilterObjects
    PROVE  Rule(kind, of) \in Filters
BY DEF Rule, Filters

\* Every generation the code builds is made of filters.
LEMMA GenerationFilters ==
    /\ Base \in SUBSET Filters /\ Strict \in Filters /\ Fence \in Filters /\ Adapter \in Filters
    /\ Strict \notin Base /\ Fence \notin Base /\ Strict # Fence /\ Adapter # Strict /\ Adapter # Fence
<1>2. \A kind \in FilterKinds : Rule(kind, "all") \in Filters BY RuleIsFilter DEF FilterObjects
<1>3. Base \in SUBSET Filters BY <1>2 DEF Base, Dhcp, HyperV, ServiceApp, DnsBlock, Loopback, FilterKinds
<1>4. Strict \in Filters /\ Fence \in Filters /\ Adapter \in Filters BY <1>2 DEF Strict, Fence, Adapter, FilterKinds
<1>5. Strict \notin Base /\ Fence \notin Base
  BY DEF Base, Dhcp, HyperV, ServiceApp, DnsBlock, Loopback, Strict, Fence, Rule
<1> QED BY <1>3, <1>4, <1>5 DEF Strict, Fence, Adapter, Rule

\* The filters of a peer are none of the general ones, and name that peer.
LEMMA PeerFilters ==
    ASSUME NEW peer, NEW excluded \in SUBSET Bypass
    PROVE  /\ peer \in Peers \cup {OpenVpn} => PeerRules(peer, excluded) \in SUBSET Filters
           /\ Strict \notin PeerRules(peer, excluded) /\ Fence \notin PeerRules(peer, excluded)
           /\ Rule("block", peer) \in PeerRules(peer, excluded)
           /\ \A p : p # peer => Rule("block", p) \notin PeerRules(peer, excluded)
           /\ \A d \in Bypass : Rule("permit", <<peer, d>>) \in PeerRules(peer, excluded) <=> d \in excluded
<1>1. ASSUME peer \in Peers \cup {OpenVpn} PROVE PeerRules(peer, excluded) \in SUBSET Filters
  <2>1. peer \in FilterObjects /\ \A d \in excluded : <<peer, d>> \in FilterObjects BY <1>1 DEF FilterObjects
  <2>2. "block" \in FilterKinds /\ "permit" \in FilterKinds BY DEF FilterKinds
  <2>3. Rule("block", peer) \in Filters /\ \A d \in excluded : Rule("permit", <<peer, d>>) \in Filters
    BY <2>1, <2>2, RuleIsFilter
  <2> QED BY <2>3 DEF PeerRules
<1>4. ASSUME NEW d \in Bypass
      PROVE  Rule("permit", <<peer, d>>) \in PeerRules(peer, excluded) <=> d \in excluded BY DEF PeerRules, Rule
<1> QED BY <1>1, <1>4 DEF PeerRules, Rule, Strict, Fence

\* What a reload can find: nothing tracked, and what is live an orphan.
LEMMA ReloadFinds ==
    ASSUME NEW live \in SUBSET Filters, NEW f \in Reloaded(live)
    PROVE  f \in Objects /\ (f.known = FALSE \/ f.orphans = live)
BY DEF Reloaded, Orphaned, Tracking, Objects

\* An operation that did not succeed leaves the filters and the object alone, or
\* an object that must reconcile before it acts again.
Unsettled == (wfp' = wfp /\ fw' = fw) \/ (Reconciled' => wfp' = {})

\* The outcomes of an operation that would leave the filters `new`.
Outcome(new, ok) ==
    /\ wfp' \in SUBSET Filters /\ fw' \in Objects /\ faults' \in Nat
    /\ wfp' = wfp \/ wfp' = new
    /\ ok = TRUE => wfp' = new
    /\ ok = FALSE => Unsettled

\* The outcomes of a transaction.
LEMMA TransactionOutcome ==
    ASSUME FirewallTypes, NEW new \in SUBSET Filters, NEW after \in Objects,
           NEW ok \in BOOLEAN, Transaction(new, after, ok)
    PROVE  /\ wfp' \in SUBSET Filters /\ fw' \in Objects /\ faults' \in Nat
           /\ wfp' = wfp \/ wfp' = new
           /\ ok = TRUE => wfp' = new /\ fw' = after
           /\ ok = FALSE => Unsettled
<1> USE DEF Objects
<1>0. faults' \in Nat BY DEF FirewallTypes, Transaction, Refused, Answer
<1>1. CASE ~fw.session BY <1>1, <1>0 DEF Transaction, Refused, FirewallTypes, Unsettled
<1>2. CASE fw.session /\ ~ok /\ UNCHANGED <<wfp, fw>> BY <1>0, <1>2 DEF FirewallTypes, Unsettled
<1>3. CASE fw.session /\ ~ok /\ wfp' \in {wfp, new} /\ fw' \in Reloaded(wfp')
  <2>1. wfp' \in SUBSET Filters BY <1>3 DEF FirewallTypes
  <2>2. fw' \in Objects /\ (fw'.known = FALSE \/ fw'.orphans = wfp') BY <1>3, <2>1, ReloadFinds
  <2> QED BY <1>0, <1>3, <2>1, <2>2 DEF Unsettled, Reconciled
<1>4. CASE fw.session /\ ok /\ wfp' = new /\ fw' = after BY <1>0, <1>4
<1> QED BY <1>1, <1>2, <1>3, <1>4 DEF Transaction

\* The outcomes of an update that keeps the rest of the generation.
LEMMA IncrementOutcome ==
    ASSUME FirewallTypes, NEW removed, NEW added \in SUBSET Filters, NEW new,
           new = (wfp \ removed) \cup added,
           NEW ok \in BOOLEAN, Increment(removed, added, ok)
    PROVE  Outcome(new, ok)
<1> USE DEF Objects
<1>1. CASE wfp = fw.rules
  <2>0. PICK after : after = [fw EXCEPT !.rules = new] OBVIOUS
  <2>1. new \in SUBSET Filters /\ after \in Objects BY <2>0 DEF FirewallTypes
  <2>2. Transaction(new, after, ok) BY <1>1, <2>0 DEF Increment
  <2> QED BY <2>1, <2>2, TransactionOutcome, ZenonT(40) DEF Outcome
<1>2. CASE wfp # fw.rules BY <1>2 DEF Increment, FirewallTypes, Unsettled, Reconciled, Outcome
<1> QED BY <1>1, <1>2

\* enableInterface: a generation that blocks everything, by strict mode or by
\* the fence; without an adapter always by strict mode.
LEMMA InterfaceOutcome ==
    ASSUME FirewallTypes, NEW adapter \in BOOLEAN, NEW ok \in BOOLEAN, EnableInterface(adapter, ok)
    PROVE  /\ wfp' \in SUBSET Filters /\ fw' \in Objects /\ faults' \in Nat
           /\ \/ wfp' = wfp
              \/ /\ Strict \in wfp' \/ Fence \in wfp'
                 /\ strict \/ ~adapter => Strict \in wfp'
                 /\ ~adapter => Fence \notin wfp'
           /\ ok = TRUE => /\ Strict \in wfp' \/ Fence \in wfp'
                           /\ strict \/ ~adapter => Strict \in wfp'
                           /\ ~adapter => Fence \notin wfp'
           /\ ok = FALSE => Unsettled
<1>1. PICK isStrict \in IF adapter THEN StrictRead ELSE {TRUE} :
          LET new == Base \cup (IF isStrict THEN {Strict} ELSE {Fence}) \cup (IF adapter THEN {Adapter} ELSE {})
          IN Transaction(new, Tracking(new, adapter), ok) BY DEF EnableInterface
<1> DEFINE new == Base \cup (IF isStrict THEN {Strict} ELSE {Fence}) \cup (IF adapter THEN {Adapter} ELSE {})
<1>2. new \in SUBSET Filters BY GenerationFilters
<1>3. /\ Strict \in new \/ Fence \in new
      /\ strict \/ ~adapter => Strict \in new
      /\ ~adapter => Fence \notin new BY GenerationFilters, <1>1 DEF StrictRead, FirewallTypes
<1>4. Tracking(new, adapter) \in Objects BY <1>2 DEF Tracking, Objects
<1>5. Transaction(new, Tracking(new, adapter), ok) BY <1>1
<1> HIDE DEF new
<1>6. /\ wfp' \in SUBSET Filters /\ fw' \in Objects /\ faults' \in Nat
      /\ wfp' = wfp \/ wfp' = new
      /\ ok = TRUE => wfp' = new
      /\ ok = FALSE => Unsettled BY <1>2, <1>4, <1>5, TransactionOutcome
<1> QED BY <1>3, <1>6

\* enablePeerTraffic: the peer's block is in, the fence and its old permits are
\* out, and nothing else changes.
LEMMA EnablePeerOutcome ==
    ASSUME FirewallTypes, NEW peer \in Peers \cup {OpenVpn}, NEW excluded \in SUBSET Bypass,
           NEW ok \in BOOLEAN, EnablePeerTraffic(peer, excluded, ok)
    PROVE  /\ wfp' \in SUBSET Filters /\ fw' \in Objects /\ faults' \in Nat
           /\ Strict \in wfp' <=> Strict \in wfp
           /\ \/ wfp' = wfp
              \/ /\ Reconciled /\ Fence \notin wfp' /\ Rule("block", peer) \in wfp'
                 /\ \A p : Rule("block", p) \in wfp => Rule("block", p) \in wfp'
           /\ ok = TRUE => /\ Reconciled /\ Fence \notin wfp' /\ Rule("block", peer) \in wfp'
                           /\ \A p : Rule("block", p) \in wfp => Rule("block", p) \in wfp'
                           /\ Permits(wfp', peer) = excluded
           /\ ok = FALSE => Unsettled
<1>1. CASE ~(Reconciled /\ fw.luid) BY <1>1 DEF EnablePeerTraffic, Refused, FirewallTypes, Objects, Unsettled
<1>2. CASE Reconciled /\ fw.luid
  <2>0. PICK removed, new : /\ removed = RulesOf(peer, wfp) \cup {Fence}
                            /\ new = (wfp \ removed) \cup PeerRules(peer, excluded) OBVIOUS
  <2> DEFINE added == PeerRules(peer, excluded)
  <2>1. Increment(removed, added, ok) BY <1>2, <2>0 DEF EnablePeerTraffic
  <2>2. added \in SUBSET Filters BY PeerFilters
  <2>4. Fence \notin new /\ Rule("block", peer) \in new BY <2>0, PeerFilters
  <2>5. ASSUME NEW p, Rule("block", p) \in wfp PROVE Rule("block", p) \in new
    <3>1. CASE p = peer BY <3>1, <2>4
    <3>2. CASE p # peer
      <4>2. Rule("block", p) # Fence BY DEF Rule, Fence
      <4> QED BY <2>0, <2>5, <3>2, <4>2, PeerFilters DEF RulesOf
    <3> QED BY <3>1, <3>2
  <2> HIDE DEF added
  <2>7. /\ wfp' \in SUBSET Filters /\ fw' \in Objects /\ faults' \in Nat
        /\ wfp' = wfp \/ wfp' = new
        /\ ok = TRUE => wfp' = new
        /\ ok = FALSE => Unsettled
    <3>2. Outcome(new, ok) BY <2>0, <2>1, <2>2, IncrementOutcome DEF added
    <3> QED BY <3>2 DEF Outcome
  <2>8. CASE wfp' = new BY <1>2, <2>0, <2>4, <2>5, <2>7, <2>8, PeerFilters, GenerationFilters DEF RulesOf, Permits
  <2>9. CASE wfp' = wfp /\ ok = FALSE BY <2>7, <2>9
  <2> QED BY <2>7, <2>8, <2>9
<1> QED BY <1>1, <1>2

\* disablePeerTraffic takes the peer's own filters and no others.
LEMMA DisablePeerOutcome ==
    ASSUME FirewallTypes, NEW peer, NEW ok \in BOOLEAN, DisablePeerTraffic(peer, ok)
    PROVE  /\ wfp' \in SUBSET Filters /\ fw' \in Objects /\ faults' \in Nat
           /\ Strict \in wfp' <=> Strict \in wfp
           /\ \/ wfp' = wfp
              \/ /\ Reconciled
                 /\ Fence \in wfp' <=> Fence \in wfp
                 /\ \A p : p # peer /\ Rule("block", p) \in wfp => Rule("block", p) \in wfp'
           /\ Unsettled \/ ok = TRUE
           /\ wfp' = wfp => fw' = fw \/ (Reconciled' => Reconciled) \/ wfp' = {}
<1>1. CASE ~Reconciled BY <1>1 DEF DisablePeerTraffic, Refused, FirewallTypes, Objects, Unsettled
<1>2. CASE Reconciled /\ RulesOf(peer, fw.rules) = {}
  BY <1>2 DEF DisablePeerTraffic, Done, FirewallTypes, Objects, Unsettled
<1>3. CASE Reconciled /\ RulesOf(peer, fw.rules) # {}
  <2>0. PICK removed, new : removed = RulesOf(peer, wfp) /\ new = (wfp \ removed) \cup {} OBVIOUS
  <2>3. ASSUME NEW p, p # peer, Rule("block", p) \in wfp PROVE Rule("block", p) \in new
    BY <2>0, <2>3, PeerFilters DEF RulesOf
  <2>4. /\ wfp' \in SUBSET Filters /\ fw' \in Objects /\ faults' \in Nat
        /\ wfp' = wfp \/ wfp' = new
        /\ ok = FALSE => Unsettled
    <3>2. Outcome(new, ok) BY <1>3, <2>0, IncrementOutcome DEF DisablePeerTraffic
    <3> QED BY <3>2 DEF Outcome
  <2> QED BY <1>3, <2>0, <2>3, <2>4, PeerFilters DEF RulesOf
<1> QED BY <1>1, <1>2, <1>3

\* Giving the kill switch up ends the session's protection, never that of
\* strict mode.
LEMMA ReleaseOutcome ==
    ASSUME FirewallTypes, StrictKept, NEW ok \in BOOLEAN, ReleaseKillSwitch(ok)
    PROVE  FirewallTypes' /\ StrictKept' /\ promise'.session = FALSE
<1>1. PICK isStrict \in StrictRead :
        /\ IF isStrict THEN EnableInterface(FALSE, ok) ELSE AllowAllTraffic(ok)
        /\ promise' = Renewed([promise EXCEPT !.session = FALSE], isStrict /\ ok)
        /\ UNCHANGED strict BY DEF ReleaseKillSwitch
<1>2. isStrict \in BOOLEAN /\ (strict => isStrict) BY DEF StrictRead, FirewallTypes
<1>3. /\ promise' \in [session : BOOLEAN, waived : BOOLEAN] /\ promise'.session = FALSE
      /\ promise'.waived <=> promise.waived /\ ~(isStrict /\ ok) BY <1>1, <1>2 DEF Renewed, FirewallTypes
<1>4. CASE isStrict
  <2>1. /\ wfp' \in SUBSET Filters /\ fw' \in Objects /\ faults' \in Nat
        /\ wfp' = wfp \/ Strict \in wfp'
        /\ ok = TRUE => Strict \in wfp' BY <1>1, <1>4, InterfaceOutcome
  <2> QED BY <1>1, <1>3, <1>4, <2>1 DEF FirewallTypes, StrictKept, Objects
<1>5. CASE ~isStrict
  <2>1. Transaction({}, Tracking({}, FALSE), ok) BY <1>1, <1>5 DEF AllowAllTraffic
  <2>2. {} \in SUBSET Filters /\ Tracking({}, FALSE) \in Objects BY DEF Tracking, Objects
  <2>3. wfp' \in SUBSET Filters /\ fw' \in Objects /\ faults' \in Nat BY <2>1, <2>2, TransactionOutcome
  <2> QED BY <1>1, <1>2, <1>3, <1>5, <2>3 DEF FirewallTypes, StrictKept, Objects
<1> QED BY <1>4, <1>5

\* disableAllTraffic blocks everything by strict mode.
LEMMA BlockOutcome ==
    ASSUME FirewallTypes, StrictKept, NEW ok \in BOOLEAN, BlockEverything(ok)
    PROVE  /\ FirewallTypes' /\ StrictKept' /\ promise'.session = promise.session
           /\ wfp' = wfp \/ (Strict \in wfp' /\ Fence \notin wfp')
           /\ ok = TRUE => Strict \in wfp' /\ Fence \notin wfp'
           /\ ok = FALSE => Unsettled
<1>1. /\ wfp' \in SUBSET Filters /\ fw' \in Objects /\ faults' \in Nat
      /\ wfp' = wfp \/ (Strict \in wfp' /\ Fence \notin wfp')
      /\ ok = TRUE => Strict \in wfp' /\ Fence \notin wfp'
      /\ ok = FALSE => Unsettled BY InterfaceOutcome DEF BlockEverything
<1>2. /\ promise' \in [session : BOOLEAN, waived : BOOLEAN] /\ promise'.session = promise.session
      /\ promise'.waived <=> promise.waived /\ ~ok
      /\ UNCHANGED strict BY DEF BlockEverything, Renewed, FirewallTypes
<1> QED BY <1>1, <1>2 DEF FirewallTypes, StrictKept, Objects

\* The setting of strict mode: what is on has its block, or was given up.
LEMMA RefreshOutcome ==
    ASSUME FirewallTypes, StrictKept, NEW enabled \in BOOLEAN, Refresh(enabled)
    PROVE  FirewallTypes' /\ StrictKept' /\ (~promise.session => ~promise'.session)
<1> DEFINE new == Refreshed(enabled)
           old == Refreshed(strict)
<1>1. /\ new \in SUBSET Filters /\ old \in SUBSET Filters
      /\ enabled => Strict \in new
      /\ strict => Strict \in old BY GenerationFilters DEF Refreshed
<1>2. \A live \in SUBSET Filters : Tracking(live, FALSE) \in Objects BY DEF Tracking, Objects
<1>3. /\ promise' \in [session : BOOLEAN, waived : BOOLEAN]
      /\ promise'.session <=> promise.session /\ enabled
      /\ promise'.waived <=> IF enabled THEN promise.waived /\ wfp' # new ELSE TRUE BY DEF Refresh, FirewallTypes
<1>4. \/ Transaction(new, Tracking(new, FALSE), FALSE) /\ UNCHANGED strict
      \/ Transaction(new, Tracking(new, FALSE), TRUE) /\ strict' = enabled
      \/ /\ Answer(FALSE) /\ UNCHANGED strict /\ wfp' \in {new, old}
         /\ fw' = Tracking(wfp', FALSE) \/ fw' \in Reloaded(wfp') BY DEF Refresh
<1> HIDE DEF new, old
<1>5. CASE Transaction(new, Tracking(new, FALSE), FALSE) /\ UNCHANGED strict
  <2>1. /\ wfp' \in SUBSET Filters /\ fw' \in Objects /\ faults' \in Nat
        /\ wfp' = wfp \/ wfp' = new BY <1>1, <1>2, <1>5, TransactionOutcome
  <2> QED BY <1>1, <1>3, <1>5, <2>1 DEF FirewallTypes, StrictKept, Objects
<1>6. CASE Transaction(new, Tracking(new, FALSE), TRUE) /\ strict' = enabled
  <2>1. /\ wfp' \in SUBSET Filters /\ fw' \in Objects /\ faults' \in Nat
        /\ wfp' = new BY <1>1, <1>2, <1>6, TransactionOutcome
  <2> QED BY <1>1, <1>3, <1>6, <2>1 DEF FirewallTypes, StrictKept, Objects
<1>7. CASE /\ Answer(FALSE) /\ UNCHANGED strict /\ wfp' \in {new, old}
           /\ fw' = Tracking(wfp', FALSE) \/ fw' \in Reloaded(wfp')
  <2>1. wfp' \in SUBSET Filters /\ faults' \in Nat BY <1>1, <1>7 DEF Answer, FirewallTypes
  <2>2. fw' \in Objects BY <1>2, <1>7, <2>1, ReloadFinds
  <2> QED BY <1>1, <1>3, <1>7, <2>1, <2>2 DEF FirewallTypes, StrictKept, Objects
<1> QED BY <1>3, <1>4, <1>5, <1>6, <1>7

RouteTables == [kernel : SUBSET Bypass, owned : SUBSET Bypass, monitor : BOOLEAN, restarts : Nat]
Tunnels == [state : {"none", "running", "dead"}, peers : SUBSET Peers, stale : BOOLEAN]

\* addExclusionRoute touches one route, which it owns before it is written.
LEMMA AddRouteOutcome ==
    ASSUME FirewallTypes, TunnelTypes, routes.kernel \subseteq routes.owned,
           NEW d \in Bypass, NEW ok \in BOOLEAN, AddRoute(d, ok)
    PROVE  /\ routes' \in RouteTables /\ faults' \in Nat
           /\ routes'.kernel \subseteq routes'.owned
           /\ \A e \in Bypass : e # d => (e \in routes'.kernel <=> e \in routes.kernel)
           /\ d \in routes.kernel => d \in routes'.kernel
           /\ ok = TRUE => d \in routes'.kernel
<1>1. faults' \in Nat BY DEF AddRoute, Answer, FirewallTypes
<1>2. CASE ~ok /\ UNCHANGED routes BY <1>1, <1>2 DEF TunnelTypes, RouteTables
<1>3. CASE ~ok /\ \E kernel \in {routes.kernel, routes.kernel \cup {d}} :
                     routes' = [routes EXCEPT !.owned = @ \cup {d}, !.kernel = kernel]
  <2>1. CASE routes' = [routes EXCEPT !.owned = @ \cup {d}, !.kernel = routes.kernel]
    BY <1>1, <1>3, <2>1 DEF TunnelTypes, RouteTables
  <2>2. CASE routes' = [routes EXCEPT !.owned = @ \cup {d}, !.kernel = routes.kernel \cup {d}]
    BY <1>1, <1>3, <2>2 DEF TunnelTypes, RouteTables
  <2> QED BY <1>3, <2>1, <2>2
<1>4. CASE ok /\ routes' = [routes EXCEPT !.owned = @ \cup {d}, !.kernel = @ \cup {d}]
  BY <1>1, <1>4 DEF TunnelTypes, RouteTables
<1> QED BY <1>2, <1>3, <1>4 DEF AddRoute

\* deleteExclusionRoute touches one route, and with success it is out.
LEMMA DeleteRouteOutcome ==
    ASSUME FirewallTypes, TunnelTypes, routes.kernel \subseteq routes.owned,
           NEW d \in Bypass, NEW ok \in BOOLEAN, DeleteRoute(d, ok)
    PROVE  /\ routes' \in RouteTables /\ faults' \in Nat
           /\ routes'.kernel \subseteq routes'.owned
           /\ \A e \in Bypass : e # d => (e \in routes'.kernel <=> e \in routes.kernel)
           /\ d \in routes'.kernel => d \in routes.kernel
           /\ ok = TRUE => d \notin routes'.kernel
<1>1. faults' \in Nat BY DEF DeleteRoute, Answer, FirewallTypes
<1>2. CASE d \notin routes.owned BY <1>1, <1>2 DEF TunnelTypes, RouteTables, DeleteRoute
<1>3. CASE ~ok /\ \E kernel \in {routes.kernel, routes.kernel \ {d}} : routes' = [routes EXCEPT !.kernel = kernel]
  BY <1>1, <1>3 DEF TunnelTypes, RouteTables
<1>4. CASE routes' = [routes EXCEPT !.owned = @ \ {d}, !.kernel = @ \ {d}] BY <1>1, <1>4 DEF TunnelTypes, RouteTables
<1> QED BY <1>2, <1>3, <1>4 DEF DeleteRoute

\* The destructor of the route monitor leaves nothing.
LEMMA MonitorGoneOutcome ==
    ASSUME TunnelTypes, MonitorGone
    PROVE  routes' \in RouteTables /\ routes'.kernel = {} /\ routes'.owned = {}
BY DEF TunnelTypes, MonitorGone, RouteTables

\* A step that leaves the filters and the tunnel alone keeps the blocks.
LEMMA QuietKeepsBlocks ==
    ASSUME KillSwitchInv, UNCHANGED <<policyVars, tunnel>>,
           ~Connected' /\ wd'.pc # "boot" => ~Connected /\ wd.pc # "boot"
    PROVE  StrictKept' /\ SessionKept' /\ PeersBlocked'
<1>1. UNCHANGED <<wfp, strict, fw, promise, tunnel>> BY DEF policyVars
<1> QED BY <1>1 DEF KillSwitchInv, StrictKept, SessionKept, BlockedOutside, PeersBlocked, Reconciled

\* Without a session there is nothing to block for it.
LEMMA NoSessionKeepsBlocks ==
    ASSUME promise'.session = FALSE
    PROVE  SessionKept' /\ PeersBlocked'
BY DEF SessionKept, PeersBlocked

\* A step of the filters alone, for a peer, keeps the blocks.
LEMMA PeerKeepsBlocks ==
    ASSUME FirewallTypes, TunnelTypes, KillSwitchInv,
           NEW peer \in Peers \cup {OpenVpn}, NEW excluded \in SUBSET Bypass,
           NEW ok \in BOOLEAN, EnablePeerTraffic(peer, excluded, ok),
           UNCHANGED <<strict, promise, tunnel>>,
           ~Connected' /\ wd'.pc # "boot" => ~Connected /\ wd.pc # "boot"
    PROVE  FirewallTypes' /\ StrictKept' /\ SessionKept' /\ PeersBlocked'
<1>1. /\ wfp' \in SUBSET Filters /\ fw' \in Objects /\ faults' \in Nat
      /\ Strict \in wfp' <=> Strict \in wfp
      /\ \/ wfp' = wfp
         \/ /\ Reconciled /\ Fence \notin wfp' /\ Rule("block", peer) \in wfp'
            /\ \A p : Rule("block", p) \in wfp => Rule("block", p) \in wfp'
      /\ ok = TRUE => /\ Reconciled /\ Fence \notin wfp' /\ Rule("block", peer) \in wfp'
                      /\ \A p : Rule("block", p) \in wfp => Rule("block", p) \in wfp'
      /\ ok = FALSE => Unsettled BY EnablePeerOutcome
<1>4. SessionKept' BY <1>1 DEF KillSwitchInv, SessionKept, BlockedOutside
<1> QED
  BY <1>1, <1>4 DEF FirewallTypes, Objects, KillSwitchInv, StrictKept, PeersBlocked, SessionKept, BlockedOutside,
    Reconciled, Unsettled

\* Outside a transition of the exclusion policy only the route table matters.
LEMMA NoTransition ==
    ASSUME routes'.kernel \subseteq routes'.owned, wd'.pc \notin TransitionPcs
    PROVE  TransitionOK'
BY DEF TransitionOK, TransitionPcs, OpenPcs, ExclusionReceipts

\* A step of the daemon that leaves the filters and the tunnel alone.
LEMMA QuietStep ==
    ASSUME WindowsInv, UNCHANGED <<policyVars, tunnel>>, faults' \in Nat,
           wd' \in Daemons, routes' \in RouteTables,
           ~Connected' /\ wd'.pc # "boot" => ~Connected /\ wd.pc # "boot",
           PointsOK', TransitionOK'
    PROVE  WindowsInv'
<1>2. UNCHANGED <<wfp, strict, fw, promise, tunnel>> BY DEF policyVars
<1> QED BY <1>2, QuietKeepsBlocks DEF WindowsInv, KillSwitchInv, FirewallTypes, TunnelTypes, RouteTables

\* The types, as the steps use them.
LEMMA TypesUnfold ==
    ASSUME WindowsInv
    PROVE  /\ wd \in Daemons /\ routes \in RouteTables /\ tunnel \in Tunnels
           /\ IsFiniteSet(tunnel.peers)
           /\ FirewallTypes /\ TunnelTypes /\ faults \in Nat
           /\ KillSwitchInv /\ PointsOK /\ TransitionOK
           /\ StrictKept /\ SessionKept /\ PeersBlocked
           /\ routes.kernel \subseteq routes.owned
           /\ promise.session \in BOOLEAN
BY DEF WindowsInv, TunnelTypes, FirewallTypes, RouteTables, Tunnels, KillSwitchInv, TransitionOK

\* A configuration of a client is not the absence of one.
LEMMA ConfigIsNone ==
    ASSUME NEW c \in TunnelConfigs \cup {NoConfig}
    PROVE  c.peer \in Peers <=> c # NoConfig
BY WindowsFirewallAssumption DEF TunnelConfigs, NoConfig

\* An activation begins, by a server switch when the keys are the same.
LEMMA ActivateHolds ==
    ASSUME WindowsInv, NEW c \in TunnelConfigs, NEW sameKeys \in BOOLEAN, Activate(c, sameKeys)
    PROVE  WindowsInv'
<1>0. wd \in Daemons /\ routes \in RouteTables /\ tunnel \in Tunnels /\ FirewallTypes /\ PointsOK
      /\ StrictKept /\ SessionKept /\ PeersBlocked /\ routes.kernel \subseteq routes.owned BY TypesUnfold
<1>1. /\ promise' \in [session : BOOLEAN, waived : BOOLEAN]
      /\ promise'.session <=> promise.session /\ c.kill
      /\ promise'.waived = promise.waived
      /\ UNCHANGED <<wfp, strict, fw, faults, routes, tunnel>>
  BY DEF Activate, FirewallTypes, TunnelConfigs, WindowsInv
<1>2. /\ wd.pc = "idle" /\ wd'.conn = wd.conn /\ wd'.cfg = c
      /\ wd'.pc = IF ~Connected THEN "interface" ELSE IF sameKeys THEN "exclude" ELSE "down"
      /\ wd'.then = IF ~Connected THEN "none" ELSE IF sameKeys THEN "switch" ELSE "activate"
  BY <1>0 DEF Activate, Daemons
<1>3. wd' \in Daemons
  <2>1. c.excluded \in SUBSET (Bypass \cup {"dns"}) BY DEF TunnelConfigs
  <2>2. wd'.pc \in TunnelPcs /\ wd'.then \in {"none", "switch", "activate", "fail", "told"}
    BY <1>2 DEF TunnelPcs, ConnectPcs
  <2> QED BY <1>0, <1>2, <2>1, <2>2 DEF Activate, Daemons
<1> QED
  BY <1>0, <1>1, <1>2, <1>3, NoTransition DEF WindowsInv, KillSwitchInv, FirewallTypes, TunnelTypes, RouteTables,
    StrictKept, SessionKept, BlockedOutside, Connected, PeersBlocked, Reconciled, TunnelConfigs, PointsOK, ConnectPcs,
    TransitionPcs

\* Nothing is there when the service is first installed.
LEMMA WindowsInitHolds == FirewallInit /\ TunnelInit => WindowsInv
<1> SUFFICES ASSUME FirewallInit, TunnelInit PROVE WindowsInv OBVIOUS
<1>1. FirewallTypes BY DEF FirewallInit, FirewallTypes, Tracking
<1>2. TunnelTypes
  <2>1. wd \in Daemons /\ wd.pc = "boot" /\ wd.then = "none" BY DEF TunnelInit, Fresh, Daemons, TunnelPcs, NoConfig
  <2> QED BY <2>1, FS_EmptySet DEF TunnelInit, TunnelTypes
<1>3. wd.pc = "boot" /\ wd.then = "none" /\ promise.session = FALSE /\ strict = FALSE
  BY DEF TunnelInit, FirewallInit, Fresh
<1> QED
  BY <1>1, <1>2, <1>3 DEF WindowsInv, KillSwitchInv, StrictKept, SessionKept, PeersBlocked, PointsOK, ConnectPcs,
    TransitionPcs, TransitionOK, OpenPcs, ExclusionReceipts, TunnelInit

\* The parts of the invariant together, outside a transition.
LEMMA WindowsParts ==
    ASSUME FirewallTypes', wd' \in Daemons, routes' \in RouteTables, tunnel' \in Tunnels,
           IsFiniteSet(tunnel'.peers), StrictKept', SessionKept', PeersBlocked', PointsOK',
           routes'.kernel \subseteq routes'.owned, wd'.pc \notin TransitionPcs
    PROVE  WindowsInv'
<1> QED BY NoTransition DEF WindowsInv, KillSwitchInv, TunnelTypes, RouteTables, Tunnels

\* The start of the service releases the kill switch of the one before.
LEMMA BootHolds == ASSUME WindowsInv, Boot PROVE WindowsInv'
<1>0. /\ wd \in Daemons /\ routes \in RouteTables /\ tunnel \in Tunnels /\ FirewallTypes /\ PointsOK
      /\ StrictKept /\ routes.kernel \subseteq routes.owned BY TypesUnfold
<1>1. PICK ok \in BOOLEAN : ReleaseKillSwitch(ok) /\ Goto(IF ok THEN "idle" ELSE "failed") BY DEF Boot
<1>2. FirewallTypes' /\ StrictKept' /\ promise'.session = FALSE BY <1>0, <1>1, ReleaseOutcome
<1>3. SessionKept' /\ PeersBlocked' BY <1>2, NoSessionKeepsBlocks
<1>4. tunnel' \in Tunnels /\ tunnel'.peers = {} /\ routes' = routes BY <1>0 DEF Boot, Tunnels
<1>5. /\ wd' = [wd EXCEPT !.pc = IF ok THEN "idle" ELSE "failed"]
      /\ wd'.pc \in {"idle", "failed"} BY <1>0, <1>1 DEF Goto, Daemons
<1>6. wd' \in Daemons /\ wd'.then = wd.then /\ wd'.cfg = wd.cfg /\ wd'.conn = wd.conn
  BY <1>0, <1>5 DEF Daemons, TunnelPcs
<1> QED
  BY <1>0, <1>2, <1>3, <1>4, <1>5, <1>6, FS_EmptySet, WindowsParts DEF PointsOK, Connected, ConnectPcs, TransitionPcs

\* The process dies: the filters stay, and nothing is tracked.
LEMMA CrashHolds == ASSUME WindowsInv, Crash PROVE WindowsInv'
<1>0. /\ wd \in Daemons /\ routes \in RouteTables /\ tunnel \in Tunnels /\ FirewallTypes /\ PointsOK
      /\ StrictKept /\ SessionKept /\ PeersBlocked /\ IsFiniteSet(tunnel.peers) BY TypesUnfold
<1>1. /\ UNCHANGED <<wfp, strict, promise, faults, tunnel>>
      /\ fw' \in Objects /\ (Reconciled' => wfp' = {})
  BY <1>0 DEF Crash, FirewallRestarts, Orphaned, Tracking, Objects, FirewallTypes, Reconciled
<1>3. wd' \in Daemons /\ wd'.pc = "boot" /\ wd'.then = "none" BY DEF Crash, Fresh, Daemons, TunnelPcs, NoConfig
<1> QED
  BY <1>0, <1>1, <1>3, WindowsParts DEF FirewallTypes, StrictKept, Objects, Crash, RouteTables, SessionKept,
    BlockedOutside, PeersBlocked, PointsOK, ConnectPcs, TransitionPcs

\* The tunnel service dies on its own.
LEMMA TunnelDiesHolds == ASSUME WindowsInv, TunnelDies PROVE WindowsInv'
<1>0. /\ wd \in Daemons /\ routes \in RouteTables /\ tunnel \in Tunnels /\ FirewallTypes /\ PointsOK
      /\ StrictKept /\ SessionKept /\ PeersBlocked /\ IsFiniteSet(tunnel.peers)
      /\ routes.kernel \subseteq routes.owned BY TypesUnfold
<1>1. /\ UNCHANGED <<wfp, strict, promise, fw, faults, wd, routes>>
      /\ wd.pc = "idle" /\ tunnel' \in Tunnels /\ tunnel'.state = "dead"
      /\ tunnel'.peers = tunnel.peers /\ tunnel'.stale = tunnel.stale
  BY <1>0 DEF TunnelDies, firewallVars, policyVars, Tunnels
<1> QED
  BY <1>0, <1>1, WindowsParts DEF FirewallTypes, StrictKept, SessionKept, BlockedOutside, PeersBlocked, Connected,
    PointsOK, ConnectPcs, TransitionPcs

\* runStartLifecycle: peers that outlived their tunnel make it stale.
LEMMA StartTunnelHolds == ASSUME WindowsInv, StartTunnel PROVE WindowsInv'
<1>0. /\ wd \in Daemons /\ routes \in RouteTables /\ tunnel \in Tunnels /\ FirewallTypes /\ PointsOK
      /\ StrictKept /\ SessionKept /\ PeersBlocked /\ IsFiniteSet(tunnel.peers)
      /\ routes.kernel \subseteq routes.owned /\ TunnelTypes BY TypesUnfold
<1>1. /\ UNCHANGED <<wfp, strict, promise, fw>> /\ faults' \in Nat
      /\ wd.pc = "interface" /\ ~Connected BY <1>0 DEF StartTunnel, policyVars, Answer, FirewallTypes, PointsOK
<1>2. FirewallTypes' /\ StrictKept' BY <1>0, <1>1 DEF FirewallTypes, StrictKept
<1>3. /\ wd.cfg.peer \in Peers /\ (promise.session => wd.cfg.kill)
      /\ promise.session => BlockedOutside(wfp)
      /\ wd.then # "switch" /\ (wd.then = "activate" => wd.cfg.peer \in Peers)
  BY <1>0, <1>1 DEF PointsOK, ConnectPcs, SessionKept
<1>4. CASE tunnel.state = "running"
  BY <1>4, <1>0, <1>1, <1>3, <1>2, WindowsParts DEF StartTunnel, Daemons, TunnelPcs, ConnectPcs, SessionKept,
    BlockedOutside, PeersBlocked, Connected, Reconciled, PointsOK, TransitionPcs
<1>5. CASE /\ tunnel' = [tunnel EXCEPT !.state = "running", !.stale = tunnel.peers # {}]
           /\ routes' = [routes EXCEPT !.monitor = TRUE, !.owned = {}, !.kernel = {}]
           /\ wd' = [wd EXCEPT !.pc = IF wd.cfg.kill THEN "fence" ELSE "exclude"]
  <2>1. /\ wd'.pc = IF wd.cfg.kill THEN "fence" ELSE "exclude"
        /\ wd'.cfg = wd.cfg /\ wd'.conn = wd.conn /\ wd'.then = wd.then BY <1>0, <1>5 DEF Daemons
  <2>3. /\ tunnel' \in Tunnels /\ tunnel'.state = "running" /\ tunnel'.peers = tunnel.peers
        /\ tunnel'.stale <=> tunnel.peers # {} BY <1>0, <1>5 DEF Tunnels
  <2>4. routes' \in RouteTables /\ routes'.kernel \subseteq routes'.owned BY <1>0, <1>5 DEF RouteTables
  <2> QED
    BY <1>0, <1>1, <1>2, <1>3, <1>5, <2>1, <2>3, <2>4, WindowsParts DEF Daemons, TunnelPcs, ConnectPcs, SessionKept,
      BlockedOutside, PeersBlocked, PointsOK, TransitionPcs, Connected
<1>6. CASE /\ tunnel.state # "running"
           /\ \E left \in {"none", tunnel.state} : tunnel' = [tunnel EXCEPT !.state = left]
           /\ wd' = [wd EXCEPT !.pc = "down", !.then = "fail"]
           /\ UNCHANGED routes
  <2>1. /\ wd' \in Daemons /\ wd'.pc = "down" /\ wd'.then = "fail" /\ wd'.conn = wd.conn
    BY <1>0, <1>6 DEF Daemons, TunnelPcs
  <2>2. /\ tunnel' \in Tunnels /\ tunnel'.peers = tunnel.peers /\ tunnel'.state # "running" BY <1>0, <1>6 DEF Tunnels
  <2> QED
    BY <1>0, <1>1, <1>2, <1>3, <1>6, <2>1, <2>2, WindowsParts DEF SessionKept, BlockedOutside, PeersBlocked, PointsOK,
      ConnectPcs, TransitionPcs
<1>7. CASE tunnel' = [tunnel EXCEPT !.state = "none"] /\ MonitorGone /\ wd' = Fail(wd)
  BY <1>0, <1>7, MonitorGoneOutcome, <1>1, <1>3, <1>2, WindowsParts DEF Daemons, TunnelPcs, Fail, Tunnels,
    SessionKept, BlockedOutside, PeersBlocked, PointsOK, ConnectPcs, TransitionPcs
<1> QED BY <1>4, <1>5, <1>6, <1>7 DEF StartTunnel

\* The new generation of the firewall protects the session from its commit on.
LEMMA FenceInterfaceHolds == ASSUME WindowsInv, FenceInterface PROVE WindowsInv'
<1>0. /\ wd \in Daemons /\ routes \in RouteTables /\ tunnel \in Tunnels /\ FirewallTypes /\ PointsOK
      /\ StrictKept /\ SessionKept /\ PeersBlocked /\ IsFiniteSet(tunnel.peers)
      /\ routes.kernel \subseteq routes.owned /\ TunnelTypes BY TypesUnfold
<1>1. PICK ok \in BOOLEAN :
           /\ EnableInterface(TRUE, ok)
           /\ IF ok THEN /\ promise' = [promise EXCEPT !.session = TRUE]
                         /\ Goto("exclude") /\ UNCHANGED <<routes, tunnel>>
                    ELSE /\ MonitorGone
                         /\ tunnel' = [tunnel EXCEPT !.state = "none"]
                         /\ wd' = Fail(wd) /\ UNCHANGED promise BY DEF FenceInterface
<1>2. /\ wd.pc = "fence" /\ ~Connected /\ wd.cfg.kill /\ wd.cfg.peer \in Peers
      /\ tunnel.state = "running" /\ (~tunnel.stale => tunnel.peers = {})
      /\ strict' = strict /\ wd.then # "switch"
      /\ promise.session => BlockedOutside(wfp) BY <1>0 DEF FenceInterface, PointsOK, ConnectPcs, SessionKept
<1>3. /\ wfp' \in SUBSET Filters /\ fw' \in Objects /\ faults' \in Nat
      /\ \/ wfp' = wfp
         \/ /\ Strict \in wfp' \/ Fence \in wfp'
            /\ strict => Strict \in wfp'
      /\ ok = TRUE => /\ Strict \in wfp' \/ Fence \in wfp'
                      /\ strict => Strict \in wfp' BY <1>0, <1>1, InterfaceOutcome
<1>4. CASE ok
  <2>1. /\ promise' \in [session : BOOLEAN, waived : BOOLEAN] /\ promise'.session = TRUE
        /\ promise'.waived = promise.waived /\ UNCHANGED <<routes, tunnel>> BY <1>0, <1>1, <1>4 DEF FirewallTypes
  <2>2. wd' \in Daemons /\ wd'.pc = "exclude" /\ wd'.cfg = wd.cfg /\ wd'.conn = wd.conn /\ wd'.then = wd.then
    BY <1>0, <1>1, <1>4 DEF Goto, Daemons, TunnelPcs, ConnectPcs
  <2> QED
    BY <1>0, <1>2, <1>3, <1>4, <2>1, <2>2, WindowsParts DEF FirewallTypes, StrictKept, Objects, SessionKept,
      BlockedOutside, PeersBlocked, PointsOK, ConnectPcs, TransitionPcs, Connected
<1>5. CASE ~ok
  BY <1>1, <1>5, <1>0, MonitorGoneOutcome, <1>2, <1>3, WindowsParts DEF Daemons, TunnelPcs, Fail, Tunnels,
    FirewallTypes, StrictKept, Objects, SessionKept, BlockedOutside, PeersBlocked, PointsOK, ConnectPcs, TransitionPcs
<1> QED BY <1>4, <1>5

\* updatePeer's firewall half: the fence goes as the peer's block comes.
LEMMA PermitPeerHolds == ASSUME WindowsInv, PermitPeer PROVE WindowsInv'
<1>0. /\ wd \in Daemons /\ routes \in RouteTables /\ tunnel \in Tunnels /\ FirewallTypes /\ PointsOK
      /\ StrictKept /\ SessionKept /\ PeersBlocked /\ IsFiniteSet(tunnel.peers)
      /\ routes.kernel \subseteq routes.owned /\ TunnelTypes /\ KillSwitchInv BY TypesUnfold
<1>1. PICK ok \in BOOLEAN :
           /\ IF wd.cfg.kill THEN EnablePeerTraffic(wd.cfg.peer, wd.cfg.excluded, ok)
              ELSE Done(ok)
           /\ wd' = IF ok THEN [wd EXCEPT !.pc = "uapi"] ELSE Fail(wd) BY DEF PermitPeer
<1>2. PICK peer, excluded : peer = wd.cfg.peer /\ excluded = wd.cfg.excluded OBVIOUS
<1>3. /\ peer \in Peers /\ (promise.session => wd.cfg.kill) /\ excluded \in SUBSET Bypass
      /\ UNCHANGED <<strict, promise, routes, tunnel>> /\ wd.pc = "peer"
  BY <1>0, <1>2 DEF Daemons, TunnelConfigs, NoConfig, PermitPeer, PointsOK, ConnectPcs
<1>4. /\ wd' \in Daemons /\ wd'.pc = IF ok THEN "uapi" ELSE "failure"
      /\ wd'.cfg = wd.cfg /\ wd'.conn = wd.conn /\ wd'.then = wd.then
  BY <1>0, <1>1 DEF Daemons, TunnelPcs, ConnectPcs, Fail
<1>6. /\ FirewallTypes' /\ StrictKept' /\ SessionKept' /\ PeersBlocked'
      /\ ok /\ promise.session => Fence \notin wfp' /\ Rule("block", peer) \in wfp'
  <2>1. CASE wd.cfg.kill
    <3>1. EnablePeerTraffic(peer, excluded, ok) BY <1>1, <1>2, <2>1
    <3>3. ok = TRUE => Fence \notin wfp' /\ Rule("block", peer) \in wfp' BY <1>0, <1>3, <3>1, EnablePeerOutcome
    <3> QED BY <1>0, <1>3, <1>4, <3>1, <3>3, PeerKeepsBlocks DEF Connected
  <2>2. CASE ~wd.cfg.kill BY <1>0, <1>1, <1>3, <2>2 DEF Done, FirewallTypes, StrictKept, SessionKept, PeersBlocked
  <2> QED BY <2>1, <2>2
<1> QED BY <1>0, <1>2, <1>3, <1>4, <1>6, WindowsParts DEF PointsOK, ConnectPcs, TransitionPcs, Connected

\* updatePeer's other half: a configured peer has its block.
LEMMA ConfigurePeerHolds == ASSUME WindowsInv, ConfigurePeer PROVE WindowsInv'
<1>0. /\ wd \in Daemons /\ routes \in RouteTables /\ tunnel \in Tunnels /\ FirewallTypes /\ PointsOK
      /\ StrictKept /\ SessionKept /\ PeersBlocked /\ IsFiniteSet(tunnel.peers)
      /\ routes.kernel \subseteq routes.owned /\ KillSwitchInv /\ WindowsInv BY TypesUnfold
<1>1. /\ UNCHANGED <<wfp, strict, promise, fw, routes>> /\ faults' \in Nat /\ wd.pc = "uapi"
      /\ wd.cfg.peer \in Peers /\ (promise.session => Fence \notin wfp /\ Rule("block", wd.cfg.peer) \in wfp)
  BY <1>0 DEF ConfigurePeer, policyVars, Answer, FirewallTypes, PointsOK, ConnectPcs
<1>2. FirewallTypes' /\ StrictKept' BY <1>0, <1>1 DEF FirewallTypes, StrictKept
<1>3. CASE wd' = Fail(wd) /\ UNCHANGED tunnel
  BY <1>0, <1>3, <1>1, <1>2, WindowsParts DEF Daemons, TunnelPcs, Fail, SessionKept, BlockedOutside, PeersBlocked,
    Connected, Reconciled, PointsOK, ConnectPcs, TransitionPcs
<1>4. CASE /\ tunnel' = [tunnel EXCEPT !.peers = @ \cup {wd.cfg.peer}]
           /\ wd' = [wd EXCEPT !.pc = IF wd.then = "switch" THEN "leave" ELSE "run", !.todo = wd.conn.excluded]
  <2>1. wd.conn.excluded \in SUBSET (Bypass \cup {"dns"}) BY <1>0 DEF Daemons, TunnelConfigs, NoConfig
  <2>2. /\ wd'.pc = IF wd.then = "switch" THEN "leave" ELSE "run"
        /\ wd'.then = wd.then /\ wd'.conn = wd.conn /\ wd'.cfg = wd.cfg BY <1>0, <1>4 DEF Daemons
  <2>3. wd' \in Daemons BY <1>0, <1>4, <2>1, <2>2 DEF Daemons, TunnelPcs
  <2>4. /\ tunnel' \in Tunnels /\ tunnel'.peers = tunnel.peers \cup {wd.cfg.peer}
        /\ tunnel'.state = tunnel.state /\ tunnel'.stale = tunnel.stale BY <1>0, <1>1, <1>4 DEF Tunnels
  <2>7. PeersBlocked' BY <1>0, <1>1, <2>4 DEF PeersBlocked, Reconciled
  <2>8. PointsOK' /\ wd'.pc \notin TransitionPcs
    BY <1>0, <1>1, <2>2 DEF PointsOK, ConnectPcs, TransitionPcs, Connected
  <2> QED
    BY <1>0, <1>1, <1>2, <2>2, <2>3, <2>4, <2>7, <2>8, FS_AddElement, WindowsParts DEF SessionKept, BlockedOutside,
      Connected
<1> QED BY <1>3, <1>4 DEF ConfigurePeer

\* The connection stands, or the session is given up.
LEMMA RunUpHolds == ASSUME WindowsInv, RunUp PROVE WindowsInv'
<1>0. /\ wd \in Daemons /\ routes \in RouteTables /\ tunnel \in Tunnels /\ FirewallTypes /\ PointsOK
      /\ StrictKept /\ SessionKept /\ PeersBlocked /\ IsFiniteSet(tunnel.peers)
      /\ routes.kernel \subseteq routes.owned BY TypesUnfold
<1>1. /\ UNCHANGED <<wfp, strict, fw, routes, tunnel>> /\ faults' \in Nat /\ wd.pc = "run"
      /\ wd.cfg.peer \in Peers BY <1>0 DEF RunUp, Answer, FirewallTypes, PointsOK
<1>2. CASE wd' = Idle([wd EXCEPT !.conn = wd.cfg, !.known = TRUE]) /\ UNCHANGED promise
  <2>1. /\ wd' \in Daemons /\ wd'.pc = "idle" /\ wd'.then = "none" /\ wd'.conn = wd.cfg
    BY <1>0, <1>2 DEF Daemons, TunnelPcs, Idle, NoConfig
  <2> QED
    BY <1>0, <1>1, <1>2, <2>1, ConfigIsNone, WindowsParts DEF FirewallTypes, StrictKept, SessionKept, BlockedOutside,
      PeersBlocked, Reconciled, Connected, Daemons, PointsOK, ConnectPcs, TransitionPcs
<1>3. CASE /\ wd' = [wd EXCEPT !.pc = "forget", !.then = "fail", !.from = {wd.cfg.peer}]
           /\ promise' = [promise EXCEPT !.session = FALSE]
  <2>1. wd' \in Daemons /\ wd'.pc = "forget" /\ wd'.then = "fail" BY <1>0, <1>1, <1>3 DEF Daemons, TunnelPcs
  <2>2. /\ promise' \in [session : BOOLEAN, waived : BOOLEAN] /\ promise'.session = FALSE
        /\ promise'.waived = promise.waived BY <1>0, <1>3 DEF FirewallTypes
  <2>4. SessionKept' /\ PeersBlocked' BY <2>2, NoSessionKeepsBlocks
  <2> QED
    BY <1>0, <1>1, <2>1, <2>2, <2>4, WindowsParts DEF FirewallTypes, StrictKept, PointsOK, ConnectPcs, TransitionPcs
<1> QED BY <1>2, <1>3 DEF RunUp

\* deletePeer takes a block only while another peer has one.
LEMMA ForgetPeerOutcome ==
    ASSUME WindowsInv, NEW peer, NEW ok \in BOOLEAN, ForgetPeer(peer, ok),
           UNCHANGED <<strict, promise>>, wd.pc = "forget", wd'.pc # "boot", wd'.conn = wd.conn
    PROVE  /\ FirewallTypes' /\ tunnel' \in Tunnels /\ IsFiniteSet(tunnel'.peers)
           /\ StrictKept' /\ SessionKept' /\ PeersBlocked'
<1>0. /\ tunnel \in Tunnels /\ FirewallTypes /\ PointsOK
      /\ StrictKept /\ SessionKept /\ PeersBlocked /\ IsFiniteSet(tunnel.peers) /\ KillSwitchInv BY TypesUnfold
<1>1. ~Connected => promise.session = FALSE BY <1>0 DEF PointsOK, FirewallTypes
<1>2. Connected' <=> Connected BY DEF Connected
<1>3. CASE UNCHANGED <<wfp, fw, tunnel>> /\ faults' \in Nat
  BY <1>0, <1>3, <1>1, <1>2 DEF FirewallTypes, StrictKept, SessionKept, BlockedOutside, PeersBlocked, Reconciled
<1>4. CASE /\ tunnel.state = "running"
           /\ IF Cardinality(tunnel.peers) > 1 THEN DisablePeerTraffic(peer, ok) ELSE Done(ok)
           /\ tunnel' = IF ok THEN [tunnel EXCEPT !.peers = @ \ {peer}] ELSE tunnel
  <2>1. /\ tunnel' \in Tunnels /\ tunnel'.peers \in SUBSET tunnel.peers
        /\ tunnel'.state = tunnel.state /\ tunnel'.stale = tunnel.stale BY <1>0, <1>4 DEF Tunnels
  <2>2. IsFiniteSet(tunnel'.peers) BY <1>0, <2>1, FS_Subset
  <2>3. CASE Done(ok)
    BY <2>3, <1>0, <1>1, <1>2, <2>1, <2>2 DEF Done, FirewallTypes, StrictKept, SessionKept, BlockedOutside,
      PeersBlocked, Reconciled
  <2>4. CASE Cardinality(tunnel.peers) > 1 /\ DisablePeerTraffic(peer, ok)
    <3>1. /\ wfp' \in SUBSET Filters /\ fw' \in Objects /\ faults' \in Nat
          /\ Strict \in wfp' <=> Strict \in wfp
          /\ \/ wfp' = wfp
             \/ /\ Reconciled
                /\ Fence \in wfp' <=> Fence \in wfp
                /\ \A p : p # peer /\ Rule("block", p) \in wfp => Rule("block", p) \in wfp'
          /\ Unsettled \/ ok = TRUE
          /\ wfp' = wfp => fw' = fw \/ (Reconciled' => Reconciled) \/ wfp' = {} BY <1>0, <2>4, DisablePeerOutcome
    <3>3. PICK other \in tunnel.peers : other # peer
      <4> SUFFICES ASSUME tunnel.peers \in SUBSET {peer} PROVE FALSE OBVIOUS
      <4>1. IsFiniteSet({peer}) /\ Cardinality({peer}) = 1 BY FS_Singleton
      <4> QED BY <1>0, <2>4, <4>1, FS_Subset, FS_CardinalityType
    <3>4. SessionKept'
      BY <1>1, <1>2, <2>1, <1>0, <3>1, <1>4, <3>3 DEF SessionKept, BlockedOutside, PeersBlocked, Tunnels
    <3> QED
      BY <1>0, <1>4, <2>1, <2>2, <3>1, <3>3, <3>4 DEF FirewallTypes, StrictKept, Objects, PeersBlocked, SessionKept,
        BlockedOutside, Reconciled, Tunnels, Unsettled
  <2> QED BY <1>4, <2>3, <2>4
<1> QED BY <1>0, <1>3, <1>4 DEF ForgetPeer, Answer, FirewallTypes

\* The peer of a failed, a switched or an ended connection is forgotten.
LEMMA ForgetHolds == ASSUME WindowsInv, Forget PROVE WindowsInv'
<1>0. /\ wd \in Daemons /\ routes \in RouteTables /\ routes.kernel \subseteq routes.owned /\ PointsOK BY TypesUnfold
<1>1. PICK ok \in BOOLEAN, peer \in wd.from :
           /\ ForgetPeer(peer, ok)
           /\ wd' = CASE wd.then = "fail" -> Fail(wd)
                      [] wd.then = "switch" -> IF ok THEN [wd EXCEPT !.pc = "switched"] ELSE Fail(wd)
                      [] OTHER -> [wd EXCEPT !.pc = "downRoutes", !.clean = @ /\ ok] BY DEF Forget
<1>2. wd.pc = "forget" /\ UNCHANGED <<strict, promise, routes>> BY DEF Forget
<1>3. \/ wd' = [wd EXCEPT !.pc = "failure"]
      \/ wd.then = "switch" /\ wd' = [wd EXCEPT !.pc = "switched"]
      \/ wd' = [wd EXCEPT !.pc = "downRoutes", !.clean = @ /\ ok] BY <1>1 DEF Fail
<1>4. /\ wd' \in Daemons /\ wd'.pc \in {"failure", "switched", "downRoutes"}
      /\ wd'.conn = wd.conn /\ wd'.cfg = wd.cfg /\ wd'.then = wd.then
      /\ wd'.pc = "switched" => wd.then = "switch" BY <1>0, <1>3, ZenonT(40) DEF Daemons, TunnelPcs
<1> QED BY <1>0, <1>1, <1>2, <1>4, ForgetPeerOutcome, WindowsParts DEF PointsOK, ConnectPcs, TransitionPcs, Connected

\* activationFailure
LEMMA ActivationFailsHolds == ASSUME WindowsInv, ActivationFails PROVE WindowsInv'
<1>0. /\ wd \in Daemons /\ routes \in RouteTables /\ tunnel \in Tunnels /\ FirewallTypes
      /\ StrictKept /\ IsFiniteSet(tunnel.peers) /\ routes.kernel \subseteq routes.owned BY TypesUnfold
<1>1. FirewallTypes' /\ StrictKept' /\ promise'.session = FALSE /\ UNCHANGED <<routes, tunnel>>
  BY <1>0, ReleaseOutcome DEF ActivationFails
<1>2. SessionKept' /\ PeersBlocked' BY <1>1, NoSessionKeepsBlocks
<1>3. wd' \in Daemons /\ wd'.pc = "idle" /\ wd'.then = "none"
  BY <1>0 DEF ActivationFails, Idle, Daemons, TunnelPcs, NoConfig
<1> QED BY <1>0, <1>1, <1>2, <1>3, WindowsParts DEF PointsOK, ConnectPcs, TransitionPcs

\* deleteInterface: the kill switch before the tunnel service.
LEMMA DownFirewallHolds == ASSUME WindowsInv, DownFirewall PROVE WindowsInv'
<1>0. /\ wd \in Daemons /\ routes \in RouteTables /\ tunnel \in Tunnels /\ FirewallTypes /\ TunnelTypes
      /\ StrictKept /\ IsFiniteSet(tunnel.peers) /\ PointsOK BY TypesUnfold
<1>1. PICK ok \in BOOLEAN : ReleaseKillSwitch(ok) /\ wd' = [wd EXCEPT !.pc = "downTunnel", !.clean = ok]
  BY DEF DownFirewall
<1>2. FirewallTypes' /\ StrictKept' /\ promise'.session = FALSE BY <1>0, <1>1, ReleaseOutcome
<1>3. SessionKept' /\ PeersBlocked' BY <1>2, NoSessionKeepsBlocks
<1>4. /\ wd' \in Daemons /\ wd'.pc = "downTunnel" /\ wd'.then = wd.then /\ wd'.cfg = wd.cfg
      /\ wd'.conn = wd.conn BY <1>0, <1>1 DEF Daemons, TunnelPcs
<1> QED
  BY <1>0, <1>2, <1>3, <1>4, MonitorGoneOutcome, WindowsParts DEF DownFirewall, PointsOK, ConnectPcs, TransitionPcs,
    Connected

\* Where a deactivation returns to: a new activation only after its success.
ReturnsTo(s, ok, t) ==
    /\ t \in Daemons /\ t.pc \in {"interface", "failure", "idle"}
    /\ t.conn = s.conn
    /\ t.pc = "interface" => ok = TRUE /\ s.then = "activate"
    /\ t.pc # "idle" => t.cfg = s.cfg /\ s.then \in {"activate", "fail"}
    /\ t.then \in {"none", s.then} /\ t.then # "switch"
    /\ t.pc = "idle" => t.then = "none"

\* DownDone returns there, and keeps the rest of the daemon.
LEMMA DownDoneOutcome ==
    ASSUME NEW s \in Daemons, NEW ok \in BOOLEAN, NEW t, t = DownDone(s, ok)
    PROVE  ReturnsTo(s, ok, t)
<1> USE DEF ReturnsTo
<1>1. CASE s.then = "activate" /\ ok
  <2>1. t = [s EXCEPT !.pc = "interface", !.then = "none", !.todo = s.cfg.excluded, !.clean = TRUE]
    BY <1>1 DEF DownDone
  <2>2. s.cfg.excluded \in SUBSET (Bypass \cup {"dns"}) BY DEF Daemons, TunnelConfigs, NoConfig
  <2> QED BY <1>1, <2>1, <2>2, ZenonT(40) DEF Daemons, TunnelPcs, ConnectPcs
<1>2. CASE (s.then = "activate" /\ ~ok) \/ s.then = "fail" BY <1>2 DEF DownDone, Fail, Daemons, TunnelPcs
<1>3. CASE s.then \notin {"activate", "fail"}
  <2>1. t = Idle(s) BY <1>3 DEF DownDone
  <2> QED BY <1>3, <2>1, ZenonT(40) DEF Daemons, TunnelPcs, Idle, NoConfig
<1> QED BY <1>1, <1>2, <1>3

\* The tunnel service goes, and with a confirmed cleanup the connection.
LEMMA DownTunnelHolds == ASSUME WindowsInv, DownTunnel PROVE WindowsInv'
<1>0. /\ wd \in Daemons /\ routes \in RouteTables /\ tunnel \in Tunnels /\ FirewallTypes /\ PointsOK
      /\ StrictKept /\ routes.kernel \subseteq routes.owned BY TypesUnfold
<1>1. PICK ok \in BOOLEAN :
           /\ Answer(ok)
           /\ tunnel' = [state |-> IF ok THEN "none" ELSE tunnel.state, peers |-> {}, stale |-> FALSE]
           /\ LET cleaned == wd.clean /\ ok /\ wd.done = {} IN
              wd' = DownDone(IF cleaned THEN [wd EXCEPT !.conn = NoConfig, !.known = FALSE] ELSE wd, cleaned)
  BY DEF DownTunnel
<1>2. PICK cleaned \in BOOLEAN : cleaned <=> wd.clean /\ ok /\ wd.done = {} OBVIOUS
<1>3. PICK s : s = IF cleaned THEN [wd EXCEPT !.conn = NoConfig, !.known = FALSE] ELSE wd OBVIOUS
<1>5. /\ s \in Daemons /\ s.cfg = wd.cfg /\ s.then = wd.then
      /\ cleaned => s.conn = NoConfig BY <1>0, <1>3 DEF Daemons
<1>6. /\ wd' \in Daemons /\ wd'.pc \in {"interface", "failure", "idle"}
      /\ wd'.conn = s.conn
      /\ wd'.pc = "interface" => cleaned = TRUE /\ s.then = "activate"
      /\ wd'.pc # "idle" => wd'.cfg = s.cfg /\ s.then \in {"activate", "fail"}
      /\ wd'.then \in {"none", s.then} /\ wd'.then # "switch"
      /\ wd'.pc = "idle" => wd'.then = "none"
  <2>1. PICK t : t = wd' OBVIOUS
  <2>3. ReturnsTo(s, cleaned, t) BY <1>1, <1>2, <1>3, <1>5, <2>1, DownDoneOutcome
  <2> QED BY <2>1, <2>3 DEF ReturnsTo
<1>7. /\ UNCHANGED <<wfp, strict, fw, promise, routes>> /\ faults' \in Nat /\ wd.pc = "downTunnel"
      /\ promise'.session = FALSE BY <1>0, <1>1 DEF DownTunnel, policyVars, Answer, FirewallTypes, PointsOK
<1>9. SessionKept' /\ PeersBlocked' BY <1>7, NoSessionKeepsBlocks
<1>11. PointsOK' /\ wd'.pc \notin TransitionPcs
  BY <1>0, <1>5, <1>6, <1>7 DEF PointsOK, ConnectPcs, TransitionPcs, Connected
<1> QED BY <1>0, <1>1, <1>6, <1>7, <1>9, <1>11, FS_EmptySet, WindowsParts DEF FirewallTypes, StrictKept, Tunnels

\* The kill switch over IPC, between two operations of the daemon.
LEMMA IpcKillSwitchHolds == ASSUME WindowsInv, IpcKillSwitch PROVE WindowsInv'
<1>0. /\ wd \in Daemons /\ routes \in RouteTables /\ tunnel \in Tunnels /\ FirewallTypes /\ PointsOK
      /\ StrictKept /\ SessionKept /\ PeersBlocked /\ IsFiniteSet(tunnel.peers)
      /\ routes.kernel \subseteq routes.owned BY TypesUnfold
<1>1. UNCHANGED <<wd, routes, tunnel>> /\ wd.pc = "idle" BY DEF IpcKillSwitch
<1>2. FirewallTypes' /\ StrictKept' /\ SessionKept' /\ PeersBlocked'
  <2>1. CASE ~Connected /\ ~promise.session /\ \E enabled \in BOOLEAN : Refresh(enabled)
    <3>1. FirewallTypes' /\ StrictKept' /\ ~promise'.session BY <1>0, <2>1, RefreshOutcome
    <3>2. promise'.session = FALSE BY <3>1 DEF FirewallTypes
    <3> QED BY <3>1, <3>2, NoSessionKeepsBlocks
  <2>2. ASSUME NEW ok \in BOOLEAN, BlockEverything(ok)
        PROVE  FirewallTypes' /\ StrictKept' /\ SessionKept' /\ PeersBlocked'
    <3>1. /\ FirewallTypes' /\ StrictKept' /\ promise'.session = promise.session
          /\ wfp' = wfp \/ (Strict \in wfp' /\ Fence \notin wfp')
          /\ ok = TRUE => Strict \in wfp' /\ Fence \notin wfp'
          /\ ok = FALSE => Unsettled BY <1>0, <2>2, BlockOutcome
    <3>2. SessionKept' BY <1>0, <1>1, <3>1 DEF SessionKept, BlockedOutside, Connected
    <3> QED BY <1>0, <1>1, <3>1, <3>2 DEF PeersBlocked, SessionKept, BlockedOutside, Unsettled, Reconciled
  <2>3. ASSUME NEW ok \in BOOLEAN, ReleaseKillSwitch(ok)
        PROVE  FirewallTypes' /\ StrictKept' /\ SessionKept' /\ PeersBlocked'
    BY <1>0, <2>3, ReleaseOutcome, NoSessionKeepsBlocks
  <2> QED BY <2>1, <2>2, <2>3 DEF IpcKillSwitch
<1> QED BY <1>0, <1>1, <1>2, WindowsParts DEF PointsOK, ConnectPcs, TransitionPcs, Connected

\* The client of OpenVPN drives the kill switch while the daemon has no tunnel.
LEMMA IpcOpenVpnHolds == ASSUME WindowsInv, IpcOpenVpn PROVE WindowsInv'
<1>0. /\ wd \in Daemons /\ routes \in RouteTables /\ tunnel \in Tunnels /\ FirewallTypes /\ PointsOK
      /\ StrictKept /\ SessionKept /\ PeersBlocked /\ IsFiniteSet(tunnel.peers)
      /\ routes.kernel \subseteq routes.owned /\ KillSwitchInv /\ TunnelTypes BY TypesUnfold
<1>1. UNCHANGED <<wd, routes, tunnel, strict>> /\ wd.pc = "idle" /\ ~Connected /\ tunnel.state = "none"
  BY DEF IpcOpenVpn
<1>2. FirewallTypes' /\ StrictKept' /\ SessionKept' /\ PeersBlocked'
  <2>1. ASSUME NEW ok \in BOOLEAN, EnableInterface(TRUE, ok), promise' = [promise EXCEPT !.session = @ \/ ok]
        PROVE  FirewallTypes' /\ StrictKept' /\ SessionKept' /\ PeersBlocked'
    <3>1. /\ wfp' \in SUBSET Filters /\ fw' \in Objects /\ faults' \in Nat
          /\ \/ wfp' = wfp
             \/ /\ Strict \in wfp' \/ Fence \in wfp'
                /\ strict => Strict \in wfp'
          /\ ok = TRUE => /\ Strict \in wfp' \/ Fence \in wfp'
                          /\ strict => Strict \in wfp' BY <1>0, <2>1, InterfaceOutcome
    <3>2. /\ promise' \in [session : BOOLEAN, waived : BOOLEAN] /\ promise'.waived = promise.waived
          /\ promise'.session <=> promise.session \/ ok BY <1>0, <2>1 DEF FirewallTypes
    <3> QED
      BY <1>0, <1>1, <3>1, <3>2 DEF FirewallTypes, StrictKept, Objects, SessionKept, BlockedOutside, PeersBlocked,
        Connected
  <2>2. ASSUME NEW ok \in BOOLEAN, EnablePeerTraffic(OpenVpn, {}, ok), UNCHANGED promise
        PROVE  FirewallTypes' /\ StrictKept' /\ SessionKept' /\ PeersBlocked'
    BY <1>1, <1>0, <2>2, PeerKeepsBlocks DEF Connected
  <2> QED BY <2>1, <2>2 DEF IpcOpenVpn
<1> QED BY <1>0, <1>1, <1>2, WindowsParts DEF PointsOK, ConnectPcs, TransitionPcs, Connected

\* The uninstaller takes everything, and what was promised with it.
LEMMA UninstalledHolds == ASSUME WindowsInv, Uninstalled PROVE WindowsInv'
<1>0. /\ wd \in Daemons /\ routes \in RouteTables /\ tunnel \in Tunnels /\ FirewallTypes /\ PointsOK
      /\ IsFiniteSet(tunnel.peers) /\ routes.kernel \subseteq routes.owned BY TypesUnfold
<1>1. /\ UNCHANGED <<wd, routes, tunnel, strict, fw, faults>> /\ wd.pc \in {"boot", "idle", "failed"}
      /\ wfp' = {} /\ promise' = [session |-> FALSE, waived |-> TRUE]
  BY DEF Uninstalled, RemovePersistentPolicy, tunnelVars
<1> QED
  BY <1>0, <1>1, WindowsParts DEF FirewallTypes, StrictKept, SessionKept, PeersBlocked, PointsOK, ConnectPcs,
    TransitionPcs, Connected

\* The same, outside a transition and with the daemon's connection kept.
LEMMA QuietKeepsConnection ==
    ASSUME WindowsInv, UNCHANGED <<policyVars, tunnel>>, faults' \in Nat,
           wd' \in Daemons, routes' \in RouteTables, routes'.kernel \subseteq routes'.owned,
           wd'.conn = wd.conn, wd.pc # "boot", wd'.pc \notin TransitionPcs, PointsOK'
    PROVE  WindowsInv'
<1> QED BY NoTransition, QuietStep DEF Connected

\* A record of the daemon with one counter changed is one of its states.
LEMMA CountedDaemon ==
    ASSUME NEW s \in Daemons, NEW d \in Bypass, NEW n \in Nat
    PROVE  /\ [s EXCEPT !.refs[d] = n, !.todo = @ \ {d}] \in Daemons
           /\ [s EXCEPT !.todo = @ \ {d}] \in Daemons
<1>1. [s.refs EXCEPT ![d] = n] \in [Bypass -> Nat] /\ s.todo \ {d} \in SUBSET (Bypass \cup {"dns"}) BY DEF Daemons
<1> QED BY <1>1 DEF Daemons

\* Daemon::addExclusionRoute, for an activation or a switch.
LEMMA ExcludeHolds == ASSUME WindowsInv, NEW d \in Bypass, Exclude(d) PROVE WindowsInv'
<1>0. /\ wd \in Daemons /\ routes \in RouteTables /\ FirewallTypes /\ TunnelTypes /\ PointsOK
      /\ routes.kernel \subseteq routes.owned /\ faults \in Nat BY TypesUnfold
<1>1. /\ wd.pc = "exclude" /\ UNCHANGED <<policyVars, tunnel>> /\ wd.refs[d] \in Nat BY <1>0 DEF Exclude, Daemons
<1>2. PICK s : s = [wd EXCEPT !.refs[d] = @ + 1, !.todo = @ \ {d}] OBVIOUS
<1>3. s \in Daemons /\ s.pc = wd.pc /\ s.conn = wd.conn /\ s.cfg = wd.cfg /\ s.then = wd.then
  <2>1. wd.refs[d] + 1 \in Nat BY <1>1
  <2>2. s = [wd EXCEPT !.refs[d] = wd.refs[d] + 1, !.todo = @ \ {d}] BY <1>2
  <2>3. s \in Daemons BY <1>0, <2>1, <2>2, CountedDaemon
  <2> QED BY <1>0, <1>2, <2>3 DEF Daemons
<1>4. wd' \in {s, Fail(s)} BY <1>2 DEF Exclude
<1>6. faults' \in Nat /\ routes' \in RouteTables /\ routes'.kernel \subseteq routes'.owned
  <2>1. CASE UNCHANGED <<routes, faults>> BY <1>0, <2>1
  <2>2. CASE \E ok \in BOOLEAN : AddRoute(d, ok) BY <1>0, <2>2, AddRouteOutcome
  <2> QED BY <2>1, <2>2 DEF Exclude
<1> QED
  BY <1>0, <1>1, <1>3, <1>4, <1>6, QuietKeepsConnection DEF policyVars, PointsOK, ConnectPcs, TransitionPcs,
    Connected, Fail, Daemons, TunnelPcs

\* Every exclusion has been attempted.
LEMMA ExcludedHolds == ASSUME WindowsInv, Excluded PROVE WindowsInv'
<1>0. /\ wd \in Daemons /\ routes \in RouteTables /\ PointsOK /\ faults \in Nat
      /\ routes.kernel \subseteq routes.owned BY TypesUnfold
<1>1. /\ wd.pc = "exclude" /\ UNCHANGED <<policyVars, tunnel, routes, faults>>
      /\ wd' = [wd EXCEPT !.pc = "peer"] BY DEF Excluded, Goto, firewallVars
<1>2. /\ wd' \in Daemons /\ wd'.pc = "peer" /\ wd'.conn = wd.conn /\ wd'.cfg = wd.cfg /\ wd'.then = wd.then
  BY <1>0, <1>1 DEF Daemons, TunnelPcs, ConnectPcs
<1> QED BY <1>0, <1>1, <1>2, QuietKeepsConnection DEF policyVars, PointsOK, ConnectPcs, TransitionPcs, Connected

\* A step outside every activation: what it must leave.
LEMMA PlainPoint ==
    ASSUME PointsOK, UNCHANGED <<promise, wfp, tunnel>>, wd'.conn = wd.conn, wd'.cfg = wd.cfg,
           wd'.then \in {wd.then, "told", "fail", "none"},
           wd'.pc \in {"down", "downRoutes", "downFirewall", "failure", "idle"}
    PROVE  PointsOK' /\ wd'.pc \notin TransitionPcs
BY DEF PointsOK, ConnectPcs, TransitionPcs, Connected

\* delExclusionRoute of a server switch.
LEMMA LeaveOldHolds == ASSUME WindowsInv, NEW d \in Bypass, LeaveOld(d) PROVE WindowsInv'
<1>0. /\ wd \in Daemons /\ routes \in RouteTables /\ FirewallTypes /\ TunnelTypes /\ PointsOK
      /\ routes.kernel \subseteq routes.owned /\ faults \in Nat BY TypesUnfold
<1>1. /\ wd.pc = "leave" /\ UNCHANGED <<policyVars, tunnel>> /\ wd.refs[d] \in Nat BY <1>0 DEF LeaveOld, Daemons
<1>2. \/ wd' = [wd EXCEPT !.todo = @ \ {d}]
      \/ wd' = [wd EXCEPT !.refs[d] = 0, !.todo = @ \ {d}]
      \/ wd.refs[d] > 1 /\ wd' = [wd EXCEPT !.refs[d] = wd.refs[d] - 1, !.todo = @ \ {d}]
  BY <1>0, <1>1 DEF LeaveOld, Daemons
<1>3. wd' \in Daemons
  <2>1. CASE wd' = [wd EXCEPT !.todo = @ \ {d}] BY <1>0, <2>1, CountedDaemon
  <2>2. CASE wd' = [wd EXCEPT !.refs[d] = 0, !.todo = @ \ {d}] BY <1>0, <2>2, CountedDaemon
  <2>3. CASE wd.refs[d] > 1 /\ wd' = [wd EXCEPT !.refs[d] = wd.refs[d] - 1, !.todo = @ \ {d}]
    <3>1. wd.refs[d] - 1 \in Nat BY <1>1, <2>3
    <3> QED BY <1>0, <2>3, <3>1, CountedDaemon
  <2> QED BY <1>2, <2>1, <2>2, <2>3
<1>4. wd'.pc = wd.pc /\ wd'.conn = wd.conn /\ wd'.cfg = wd.cfg /\ wd'.then = wd.then BY <1>0, <1>2 DEF Daemons
<1>5. faults' \in Nat /\ routes' \in RouteTables /\ routes'.kernel \subseteq routes'.owned
  <2>1. CASE UNCHANGED <<routes, faults>> BY <1>0, <2>1
  <2>2. CASE \E ok \in BOOLEAN : DeleteRoute(d, ok) BY <1>0, <2>2, DeleteRouteOutcome
  <2> QED BY <2>1, <2>2 DEF LeaveOld
<1> QED
  BY <1>0, <1>1, <1>3, <1>4, <1>5, QuietKeepsConnection DEF policyVars, PointsOK, ConnectPcs, TransitionPcs, Connected

\* The old peer of a switch is forgotten unless it is the new one.
LEMMA LeftOldHolds == ASSUME WindowsInv, LeftOld PROVE WindowsInv'
<1>0. /\ wd \in Daemons /\ routes \in RouteTables /\ PointsOK /\ faults \in Nat
      /\ routes.kernel \subseteq routes.owned BY TypesUnfold
<1>1. /\ wd.pc = "leave" /\ UNCHANGED <<policyVars, tunnel, routes, faults>>
      /\ \/ wd' = [wd EXCEPT !.pc = "switched"]
         \/ wd' = [wd EXCEPT !.pc = "forget", !.from = {wd.conn.peer}] BY DEF LeftOld, firewallVars
<1>2. {wd.conn.peer} \in SUBSET (Bypass \cup Peers \cup {"none"}) BY <1>0 DEF Daemons, TunnelConfigs, NoConfig
<1>3. /\ wd' \in Daemons /\ wd'.pc \in {"switched", "forget"}
      /\ wd'.conn = wd.conn /\ wd'.cfg = wd.cfg /\ wd'.then = wd.then
  BY <1>0, <1>1, <1>2, ZenonT(40) DEF Daemons, TunnelPcs
<1> QED BY <1>0, <1>1, <1>3, QuietKeepsConnection DEF policyVars, PointsOK, ConnectPcs, TransitionPcs, Connected

\* The connection is the new one, whatever the rest of the switch answers.
LEMMA SwitchedHolds == ASSUME WindowsInv, Switched PROVE WindowsInv'
<1>0. /\ wd \in Daemons /\ routes \in RouteTables /\ PointsOK /\ faults \in Nat
      /\ routes.kernel \subseteq routes.owned BY TypesUnfold
<1>1. /\ wd.pc = "switched" /\ UNCHANGED <<policyVars, tunnel, routes>> /\ faults' \in Nat
      /\ wd.cfg.peer \in Peers BY <1>0 DEF Switched, Answer, PointsOK
<1>2. PICK s : s = [wd EXCEPT !.conn = wd.cfg, !.known = TRUE] OBVIOUS
<1>3. s \in Daemons /\ s.conn = wd.cfg /\ s.cfg = wd.cfg /\ s.then = wd.then BY <1>0, <1>2 DEF Daemons
<1>5. /\ wd' \in Daemons /\ wd'.pc \in {"idle", "failure"} /\ wd'.conn = wd.cfg
      /\ wd'.pc = "idle" => wd'.then = "none"
      /\ wd'.pc = "failure" => wd'.then = wd.then /\ wd'.cfg = wd.cfg
  <2>1. CASE wd' = Idle(s) BY <1>3, <2>1 DEF Idle, Daemons, TunnelPcs, NoConfig
  <2>2. CASE wd' = Fail(s) BY <1>3, <2>2 DEF Fail, Daemons, TunnelPcs
  <2> QED BY <1>2, <2>1, <2>2 DEF Switched
<1>6. Connected' BY <1>0, <1>1, <1>5, ConfigIsNone DEF Connected, Daemons
<1>7. PointsOK' /\ wd'.pc \notin TransitionPcs BY <1>0, <1>1, <1>5, <1>6 DEF PointsOK, ConnectPcs, TransitionPcs
<1> QED BY <1>0, <1>1, <1>5, <1>6, <1>7, NoTransition, QuietStep

\* A client, or the monitor of the tunnel service, asks for a deactivation.
LEMMA DeactivateHolds == ASSUME WindowsInv, Deactivate \/ BackendFailure PROVE WindowsInv'
<1>0. /\ wd \in Daemons /\ routes \in RouteTables /\ PointsOK /\ faults \in Nat
      /\ routes.kernel \subseteq routes.owned BY TypesUnfold
<1>1. /\ wd.pc = "idle" /\ UNCHANGED <<policyVars, tunnel, routes, faults>>
      /\ wd' = [wd EXCEPT !.pc = "down", !.then = "told"] BY DEF Deactivate, BackendFailure, firewallVars
<1>2. /\ wd' \in Daemons /\ wd'.pc = "down" /\ wd'.conn = wd.conn /\ wd'.cfg = wd.cfg /\ wd'.then = "told"
  BY <1>0, <1>1 DEF Daemons, TunnelPcs
<1> QED BY <1>0, <1>1, <1>2, PlainPoint, QuietKeepsConnection DEF policyVars

\* A deactivation that returns without success.
LEMMA RefusedDown ==
    ASSUME WindowsInv, wd.pc # "boot", UNCHANGED <<policyVars, tunnel, routes>>, faults' \in Nat,
           wd' = DownDone(wd, FALSE)
    PROVE  WindowsInv'
<1>0. /\ wd \in Daemons /\ routes \in RouteTables /\ PointsOK /\ routes.kernel \subseteq routes.owned BY TypesUnfold
<1>1. PICK s, t : s = wd /\ t = wd' OBVIOUS
<1>2. s \in Daemons /\ t = DownDone(s, FALSE) BY <1>0, <1>1
<1>3. ReturnsTo(s, FALSE, t) BY <1>2, DownDoneOutcome
<1>4. /\ wd' \in Daemons /\ wd'.pc \in {"failure", "idle"} /\ wd'.conn = wd.conn
      /\ wd'.pc = "failure" => wd'.cfg = wd.cfg
      /\ wd'.then \in {"none", wd.then} /\ (wd'.pc = "idle" => wd'.then = "none") BY <1>1, <1>3 DEF ReturnsTo
<1>5. PointsOK' /\ wd'.pc \notin TransitionPcs BY <1>0, <1>4 DEF PointsOK, ConnectPcs, TransitionPcs, Connected
<1> QED BY <1>0, <1>4, <1>5, QuietKeepsConnection

\* run(Down) and the resolvers.
LEMMA DownHolds == ASSUME WindowsInv, Down PROVE WindowsInv'
<1>0. /\ wd \in Daemons /\ routes \in RouteTables /\ PointsOK /\ faults \in Nat
      /\ routes.kernel \subseteq routes.owned BY TypesUnfold
<1>1. wd.pc = "down" /\ UNCHANGED <<policyVars, tunnel, routes>> /\ faults' \in Nat
  <2>1. \E ok \in BOOLEAN : Answer(ok) BY DEF Down
  <2>2. faults' \in Nat BY <1>0, <2>1 DEF Answer
  <2> QED BY <2>2 DEF Down
<1>2. CASE wd' = DownDone(wd, FALSE) BY <1>1, <1>2, RefusedDown
<1>3. ASSUME NEW dns \in BOOLEAN,
             wd' = [wd EXCEPT !.pc = IF Connected THEN "forget" ELSE "downRoutes",
                              !.from = {wd.conn.peer}, !.todo = {d \in Bypass : wd.refs[d] > 0}, !.clean = TRUE,
                              !.done = IF dns THEN {} ELSE {"dns"}]
      PROVE  WindowsInv'
  <2>1. {wd.conn.peer} \in SUBSET (Bypass \cup Peers \cup {"none"}) BY <1>0 DEF Daemons, TunnelConfigs, NoConfig
  <2>2. /\ wd'.pc = IF Connected THEN "forget" ELSE "downRoutes"
        /\ wd'.conn = wd.conn /\ wd'.cfg = wd.cfg /\ wd'.then = wd.then BY <1>0, <1>3 DEF Daemons
  <2>3. wd' \in Daemons
    <3>1. (IF Connected THEN "forget" ELSE "downRoutes") \in TunnelPcs BY DEF TunnelPcs
    <3>2. (IF dns THEN {} ELSE {"dns"}) \in SUBSET (Bypass \cup {"dns"}) OBVIOUS
    <3>3. {d \in Bypass : wd.refs[d] > 0} \in SUBSET (Bypass \cup {"dns"}) OBVIOUS
    <3> QED BY <1>0, <1>3, <2>1, <3>1, <3>2, <3>3 DEF Daemons
  <2> QED
    BY <1>0, <1>1, <2>2, <2>3, QuietKeepsConnection DEF policyVars, PointsOK, ConnectPcs, TransitionPcs, Connected
<1> QED BY <1>2, <1>3 DEF Down

\* A route of the deactivation.
LEMMA DownRouteHolds == ASSUME WindowsInv, NEW d \in Bypass, DownRoute(d) PROVE WindowsInv'
<1>0. /\ wd \in Daemons /\ routes \in RouteTables /\ FirewallTypes /\ TunnelTypes /\ PointsOK
      /\ routes.kernel \subseteq routes.owned /\ faults \in Nat BY TypesUnfold
<1>1. PICK ok \in BOOLEAN :
           /\ DeleteRoute(d, ok)
           /\ wd' = [wd EXCEPT !.todo = @ \ {d}, !.clean = @ /\ ok,
                               !.refs[d] = IF ok THEN 0 ELSE @] BY DEF DownRoute
<1>2. wd.pc = "downRoutes" /\ UNCHANGED <<policyVars, tunnel>> BY DEF DownRoute
<1>3. wd'.pc = "downRoutes" /\ wd'.conn = wd.conn /\ wd'.cfg = wd.cfg /\ wd'.then = wd.then
  BY <1>0, <1>1, <1>2 DEF Daemons
<1>4. wd' \in Daemons
  <2>1. (wd.clean /\ ok) \in BOOLEAN /\ wd.todo \ {d} \in SUBSET (Bypass \cup {"dns"}) BY <1>0 DEF Daemons
  <2>2. [wd.refs EXCEPT ![d] = IF ok THEN 0 ELSE @] \in [Bypass -> Nat] BY <1>0 DEF Daemons
  <2> QED BY <1>0, <1>1, <2>1, <2>2 DEF Daemons
<1>5. faults' \in Nat /\ routes' \in RouteTables /\ routes'.kernel \subseteq routes'.owned
  BY <1>0, <1>1, DeleteRouteOutcome
<1> QED BY <1>0, <1>2, <1>3, <1>4, <1>5, PlainPoint, QuietKeepsConnection DEF policyVars

\* Without a confirmed cleanup the interface stays.
LEMMA DownRoutesDoneHolds == ASSUME WindowsInv, DownRoutesDone PROVE WindowsInv'
<1>0. /\ wd \in Daemons /\ routes \in RouteTables /\ PointsOK /\ faults \in Nat
      /\ routes.kernel \subseteq routes.owned BY TypesUnfold
<1>1. wd.pc = "downRoutes" /\ UNCHANGED <<policyVars, tunnel, routes, faults>> BY DEF DownRoutesDone, firewallVars
<1>2. CASE wd' = DownDone(wd, FALSE) BY <1>0, <1>1, <1>2, RefusedDown
<1>3. CASE wd' = [wd EXCEPT !.pc = "downFirewall"]
  BY <1>0, <1>3, <1>1, PlainPoint, QuietKeepsConnection DEF Daemons, TunnelPcs, policyVars
<1> QED BY <1>2, <1>3 DEF DownRoutesDone

\* What a step of a transition must leave, when the filters stay.
LEMMA TransitionStep ==
    ASSUME WindowsInv, UNCHANGED <<policyVars, tunnel>>, faults' \in Nat,
           wd' \in Daemons, routes' \in RouteTables, wd'.conn = wd.conn, wd'.cfg = wd.cfg,
           wd'.then = wd.then, wd.pc \in TransitionPcs, wd'.pc \in TransitionPcs, TransitionOK'
    PROVE  WindowsInv'
<1> QED BY TypesUnfold, QuietStep DEF Connected, TransitionPcs, policyVars, PointsOK, ConnectPcs

\* What a step of a transition must leave, when it changes the peer's permits.
LEMMA PermitsStep ==
    ASSUME WindowsInv, NEW peer \in Peers, NEW excluded \in SUBSET Bypass, NEW ok \in BOOLEAN,
           EnablePeerTraffic(peer, excluded, ok),
           UNCHANGED <<strict, promise, routes, tunnel>>, wd' \in Daemons,
           wd'.conn = wd.conn, wd'.cfg = wd.cfg, wd'.then = wd.then,
           wd.pc \in TransitionPcs, wd'.pc \in TransitionPcs, TransitionOK'
    PROVE  WindowsInv'
<1>0. /\ routes \in RouteTables /\ tunnel \in Tunnels /\ FirewallTypes /\ TunnelTypes /\ PointsOK
      /\ KillSwitchInv /\ IsFiniteSet(tunnel.peers) BY TypesUnfold
<1> QED
  BY <1>0, PeerKeepsBlocks DEF WindowsInv, KillSwitchInv, PointsOK, ConnectPcs, TransitionPcs, Connected, TunnelTypes,
    RouteTables, Tunnels

\* replaceManagedExclusions up to the transition.
LEMMA ReplaceHolds == ASSUME WindowsInv, NEW after \in SUBSET Bypass, Replace(after) PROVE WindowsInv'
<1>0. /\ wd \in Daemons /\ routes \in RouteTables /\ tunnel \in Tunnels /\ PointsOK /\ faults \in Nat
      /\ routes.kernel \subseteq routes.owned BY TypesUnfold
<1>1. wd.pc = "idle" /\ Connected /\ UNCHANGED <<policyVars, tunnel, routes, faults>> BY DEF Replace, firewallVars
<1>2. /\ wd.conn \in TunnelConfigs /\ wd.conn.excluded \in SUBSET Bypass
      /\ [wd.conn EXCEPT !.excluded = after] \in TunnelConfigs
      /\ [wd.conn EXCEPT !.excluded = after].peer = wd.conn.peer
      /\ [wd.conn EXCEPT !.excluded = after].excluded = after /\ wd.conn.peer \in Peers
  BY <1>0, <1>1 DEF Daemons, Connected, TunnelConfigs
<1>3. PICK s : s = [wd EXCEPT !.from = wd.conn.excluded,
                              !.cfg = [wd.conn EXCEPT !.excluded = after], !.done = {}] OBVIOUS
<1>4. /\ s \in Daemons /\ s.conn = wd.conn /\ s.then = wd.then /\ s.from = wd.conn.excluded
      /\ s.cfg.excluded = after /\ s.cfg.peer \in Peers BY <1>0, <1>2, <1>3 DEF Daemons
<1>5. \/ wd' = Idle(s)
      \/ wd' = [s EXCEPT !.pc = "updated"] /\ after = wd.conn.excluded
      \/ wd' = [s EXCEPT !.pc = "narrow"]
      \/ ~wd.conn.kill /\ wd' = [s EXCEPT !.pc = "openNew", !.todo = after \ wd.conn.excluded] BY <1>3 DEF Replace
<1>7. CASE wd' = Idle(s)
  <2>1. wd' \in Daemons /\ wd'.pc = "idle" /\ wd'.then = "none" /\ wd'.conn = wd.conn
    BY <1>4, <1>7 DEF Idle, Daemons, TunnelPcs, NoConfig
  <2> QED BY <1>0, <1>1, <2>1, QuietKeepsConnection DEF PointsOK, ConnectPcs, TransitionPcs
<1>8. CASE wd' # Idle(s)
  <2>1. /\ wd' \in Daemons /\ wd'.conn = wd.conn /\ wd'.then = wd.then /\ wd'.cfg = s.cfg
        /\ wd'.from = s.from /\ wd'.pc \in {"updated", "narrow", "openNew"}
        /\ wd'.pc = "updated" => after = wd.conn.excluded
        /\ wd'.pc = "openNew" => ~wd.conn.kill /\ wd'.todo = after \ wd.conn.excluded
    <3>1. after \ wd.conn.excluded \in SUBSET (Bypass \cup {"dns"}) OBVIOUS
    <3>2. CASE wd' = [s EXCEPT !.pc = "updated"] /\ after = wd.conn.excluded
      BY <1>4, <3>2 DEF Daemons, TunnelPcs, TransitionPcs
    <3>3. CASE wd' = [s EXCEPT !.pc = "narrow"] BY <1>4, <3>3 DEF Daemons, TunnelPcs, TransitionPcs
    <3>4. CASE ~wd.conn.kill /\ wd' = [s EXCEPT !.pc = "openNew", !.todo = after \ wd.conn.excluded]
      BY <1>4, <3>1, <3>4, ZenonT(40) DEF Daemons, TunnelPcs, TransitionPcs
    <3> QED BY <1>5, <1>8, <3>2, <3>3, <3>4
  <2> QED
    BY <1>0, <1>1, <1>2, <1>4, <2>1, QuietStep DEF TransitionOK, TransitionPcs, OpenPcs, ExclusionReceipts, Connected,
      Added, Removed, PointsOK, ConnectPcs, policyVars
<1> QED BY <1>7, <1>8

\* What every point of a transition knows.
LEMMA TransitionFacts ==
    ASSUME WindowsInv, wd.pc \in TransitionPcs
    PROVE  /\ Connected /\ wd.conn.peer \in Peers /\ wd.from \in SUBSET Bypass
           /\ wd.cfg.excluded \in SUBSET Bypass
           /\ Common \in SUBSET Bypass /\ Added \in SUBSET Bypass /\ Removed \in SUBSET Bypass
           /\ wd.conn.kill \in BOOLEAN
<1>1. wd \in Daemons /\ TransitionOK BY TypesUnfold
<1>2. Connected /\ wd.from \in SUBSET Bypass BY <1>1 DEF TransitionOK
<1> QED BY <1>1, <1>2 DEF Common, Added, Removed, Connected, Daemons, TunnelConfigs, NoConfig

\* The three sets of a transition do not change during it.
LEMMA SameSets ==
    ASSUME wd'.cfg = wd.cfg, wd'.from = wd.from
    PROVE  Common' = Common /\ Added' = Added /\ Removed' = Removed
BY DEF Common, Added, Removed

\* A failed change of the permits is told as such.
LEMMA UncertainHolds ==
    ASSUME WindowsInv, wd.pc \in TransitionPcs, wd'.conn = wd.conn, wd'.from = wd.from,
           wd'.pc \in {"uncertain", "undo"}, routes' = routes
    PROVE  TransitionOK'
<1> QED BY TransitionFacts, TypesUnfold DEF TransitionOK, TransitionPcs, OpenPcs, ExclusionReceipts, Connected

\* The permits narrow before a route moves.
LEMMA NarrowHolds == ASSUME WindowsInv, Narrow PROVE WindowsInv'
<1>0. wd \in Daemons /\ FirewallTypes /\ routes.kernel \subseteq routes.owned BY TypesUnfold
<1>1. wd.pc = "narrow" /\ wd.pc \in TransitionPcs /\ UNCHANGED <<strict, promise, routes, tunnel>>
  BY DEF Narrow, TransitionPcs
<1>2. /\ Connected /\ wd.conn.peer \in Peers /\ wd.from \in SUBSET Bypass
      /\ Common \in SUBSET Bypass /\ Removed \in SUBSET Bypass BY <1>1, TransitionFacts
<1>3. PICK ok \in BOOLEAN :
           /\ EnablePeerTraffic(wd.conn.peer, Common, ok)
           /\ wd' = IF ok THEN [wd EXCEPT !.pc = "moveOut", !.todo = Removed]
                          ELSE Settle(wd, "uncertain") BY DEF Narrow
<1>4. PICK peer, excluded : peer = wd.conn.peer /\ excluded = Common OBVIOUS
<1>5. EnablePeerTraffic(peer, excluded, ok) /\ peer \in Peers /\ excluded \in SUBSET Bypass BY <1>2, <1>3, <1>4
<1>6. /\ wd' \in Daemons /\ wd'.conn = wd.conn /\ wd'.cfg = wd.cfg /\ wd'.then = wd.then
      /\ wd'.from = wd.from /\ wd'.pc = IF ok THEN "moveOut" ELSE "uncertain"
      /\ ok => wd'.todo = Removed
  <2>1. Removed \in SUBSET (Bypass \cup {"dns"}) BY <1>2
  <2> QED BY <1>0, <1>3, <2>1, ZenonT(40) DEF Daemons, TunnelPcs, TransitionPcs, Settle
<1>7. TransitionOK'
  <2>1. CASE ~ok BY <1>1, <1>6, <2>1, UncertainHolds
  <2>2. CASE ok
    <3>1. Permits(wfp', peer) = excluded BY <1>0, <1>5, <2>2, EnablePeerOutcome
    <3>2. Common' = Common /\ Added' = Added /\ Removed' = Removed BY <1>6, SameSets
    <3> QED
      BY <1>0, <1>1, <1>2, <1>4, <1>6, <2>2, <3>1, <3>2 DEF TransitionOK, TransitionPcs, OpenPcs, ExclusionReceipts,
        Connected
  <2> QED BY <2>1, <2>2
<1> QED BY <1>1, <1>5, <1>6, <1>7, PermitsStep DEF TransitionPcs

\* The permits widen when every route has moved.
LEMMA WidenHolds == ASSUME WindowsInv, Widen PROVE WindowsInv'
<1>0. wd \in Daemons /\ FirewallTypes /\ routes.kernel \subseteq routes.owned /\ TransitionOK BY TypesUnfold
<1>1. wd.pc = "widen" /\ wd.pc \in TransitionPcs /\ UNCHANGED <<strict, promise, routes, tunnel>>
  BY DEF Widen, TransitionPcs
<1>2. /\ Connected /\ wd.conn.peer \in Peers /\ wd.from \in SUBSET Bypass
      /\ wd.cfg.excluded \in SUBSET Bypass BY <1>1, TransitionFacts
<1>3. PICK ok \in BOOLEAN :
           /\ EnablePeerTraffic(wd.conn.peer, wd.cfg.excluded, ok)
           /\ wd' = IF ok THEN [wd EXCEPT !.pc = "updated"] ELSE [wd EXCEPT !.pc = "undo"] BY DEF Widen
<1>4. PICK peer, excluded : peer = wd.conn.peer /\ excluded = wd.cfg.excluded OBVIOUS
<1>5. EnablePeerTraffic(peer, excluded, ok) /\ peer \in Peers /\ excluded \in SUBSET Bypass BY <1>2, <1>3, <1>4
<1>6. /\ wd' \in Daemons /\ wd'.conn = wd.conn /\ wd'.cfg = wd.cfg /\ wd'.then = wd.then
      /\ wd'.from = wd.from /\ wd'.pc = IF ok THEN "updated" ELSE "undo"
  BY <1>0, <1>3 DEF Daemons, TunnelPcs, TransitionPcs
<1>7. TransitionOK'
  <2>1. CASE ~ok BY <1>1, <1>6, <2>1, UncertainHolds
  <2>2. CASE ok
    <3>1. Permits(wfp', peer) = excluded BY <1>0, <1>5, <2>2, EnablePeerOutcome
    <3> QED
      BY <1>0, <1>1, <1>2, <1>4, <1>6, <2>2, <3>1, SameSets DEF TransitionOK, TransitionPcs, OpenPcs,
        ExclusionReceipts, Connected
  <2> QED BY <2>1, <2>2
<1> QED BY <1>1, <1>5, <1>6, <1>7, PermitsStep DEF TransitionPcs

\* rollback begins with the permits both policies share.
LEMMA UndoHolds == ASSUME WindowsInv, Undo PROVE WindowsInv'
<1>0. wd \in Daemons /\ FirewallTypes /\ routes.kernel \subseteq routes.owned BY TypesUnfold
<1>1. wd.pc = "undo" /\ wd.pc \in TransitionPcs /\ UNCHANGED <<strict, promise, routes, tunnel>>
  BY DEF Undo, TransitionPcs
<1>2. /\ Connected /\ wd.conn.peer \in Peers /\ wd.from \in SUBSET Bypass
      /\ Common \in SUBSET Bypass BY <1>1, TransitionFacts
<1>3. PICK ok \in BOOLEAN :
           /\ EnablePeerTraffic(wd.conn.peer, Common, ok)
           /\ wd' = IF ok THEN [wd EXCEPT !.pc = "undoRoutes", !.todo = wd.done, !.clean = TRUE]
                          ELSE Settle(wd, "uncertain") BY DEF Undo
<1>4. PICK peer, excluded : peer = wd.conn.peer /\ excluded = Common OBVIOUS
<1>5. EnablePeerTraffic(peer, excluded, ok) /\ peer \in Peers /\ excluded \in SUBSET Bypass BY <1>2, <1>3, <1>4
<1>6. /\ wd' \in Daemons /\ wd'.conn = wd.conn /\ wd'.cfg = wd.cfg /\ wd'.then = wd.then
      /\ wd'.from = wd.from /\ wd'.pc = IF ok THEN "undoRoutes" ELSE "uncertain"
      /\ wd'.done = wd.done /\ (ok => wd'.todo = wd.done)
  BY <1>0, <1>3, ZenonT(40) DEF Daemons, TunnelPcs, TransitionPcs, Settle
<1>7. TransitionOK'
  <2>1. CASE ~ok BY <1>1, <1>6, <2>1, UncertainHolds
  <2>2. CASE ok
    <3>1. Permits(wfp', peer) = excluded BY <1>0, <1>5, <2>2, EnablePeerOutcome
    <3>2. Common' = Common /\ Added' = Added /\ Removed' = Removed BY <1>6, SameSets
    <3> QED
      BY <1>0, <1>1, <1>2, <1>4, <1>6, <2>2, <3>1, <3>2 DEF TransitionOK, TransitionPcs, OpenPcs, ExclusionReceipts,
        Connected
  <2> QED BY <2>1, <2>2
<1> QED BY <1>1, <1>5, <1>6, <1>7, PermitsStep DEF TransitionPcs

\* rollback ends with the old permits, if every route is back.
LEMMA UndoPermitsHolds == ASSUME WindowsInv, UndoPermits PROVE WindowsInv'
<1>0. /\ wd \in Daemons /\ FirewallTypes /\ routes.kernel \subseteq routes.owned /\ TransitionOK
      /\ routes \in RouteTables /\ faults \in Nat BY TypesUnfold
<1>1. /\ wd.pc = "undoRoutes" /\ wd.pc \in TransitionPcs /\ wd.todo = {}
      /\ UNCHANGED <<strict, promise, routes, tunnel>> BY DEF UndoPermits, TransitionPcs
<1>2. Connected /\ wd.conn.peer \in Peers /\ wd.from \in SUBSET Bypass BY <1>1, TransitionFacts
<1>3. PICK ok \in BOOLEAN :
           /\ IF wd.clean THEN EnablePeerTraffic(wd.conn.peer, wd.from, ok)
                          ELSE Refused(ok)
           /\ wd' = Settle(wd, IF ok THEN "rolledBack" ELSE "uncertain") BY DEF UndoPermits
<1>6. /\ wd' \in Daemons /\ wd'.conn = wd.conn /\ wd'.cfg = wd.cfg /\ wd'.then = wd.then
      /\ wd'.from = wd.from /\ wd'.pc = IF ok THEN "rolledBack" ELSE "uncertain"
      /\ wd'.done = wd.done BY <1>0, <1>3 DEF Daemons, TunnelPcs, TransitionPcs, Settle
<1>8. wd'.pc \in TransitionPcs BY <1>6 DEF TransitionPcs
<1>9. CASE ~wd.clean BY <1>3, <1>9, <1>1, <1>6, UncertainHolds, <1>0, <1>8, TransitionStep DEF Refused, policyVars
<1>10. CASE wd.clean
  <2>4. PICK peer, excluded : peer = wd.conn.peer /\ excluded = wd.from OBVIOUS
  <2>5. EnablePeerTraffic(peer, excluded, ok) /\ peer \in Peers /\ excluded \in SUBSET Bypass
    BY <1>2, <1>3, <1>10, <2>4
  <2>7. TransitionOK'
    <3>1. CASE ~ok BY <1>1, <1>6, <3>1, UncertainHolds
    <3>2. CASE ok
      <4>1. Permits(wfp', peer) = excluded BY <1>0, <2>5, <3>2, EnablePeerOutcome
      <4> QED
        BY <1>0, <1>1, <1>2, <1>6, <1>10, <2>4, <3>2, <4>1, SameSets DEF TransitionOK, TransitionPcs, OpenPcs,
          ExclusionReceipts, Connected
    <3> QED BY <3>1, <3>2
  <2> QED BY <1>1, <1>6, <1>8, <2>5, <2>7, PermitsStep
<1> QED BY <1>9, <1>10

\* One route operation of a transition, as the daemon records it.
MovedDaemon(s, d, ok, good, bad) ==
    LET moved == [s EXCEPT !.todo = @ \ {d}, !.done = @ \cup {d}] IN
    IF ~ok THEN [moved EXCEPT !.pc = bad]
    ELSE IF moved.todo = {} THEN [moved EXCEPT !.pc = good] ELSE moved

RecordedIn(s, t, d, ok, good, bad) ==
    /\ t \in Daemons /\ t.conn = s.conn /\ t.cfg = s.cfg /\ t.then = s.then /\ t.from = s.from
    /\ t.todo = s.todo \ {d} /\ t.clean = s.clean
    /\ t.pc = IF ok = FALSE THEN bad ELSE IF t.todo = {} THEN good ELSE s.pc

\* The record keeps everything but the point and the routes it has attempted.
LEMMA MovingOutcome ==
    ASSUME NEW s \in Daemons, NEW d \in Bypass, NEW ok \in BOOLEAN, NEW t,
           NEW good \in TransitionPcs, NEW bad \in TransitionPcs,
           t = MovedDaemon(s, d, ok, good, bad)
    PROVE  RecordedIn(s, t, d, ok, good, bad)
<1> USE DEF RecordedIn
<1>1. PICK moved : moved = [s EXCEPT !.todo = @ \ {d}, !.done = @ \cup {d}] OBVIOUS
<1>2. /\ moved \in Daemons /\ moved.conn = s.conn /\ moved.cfg = s.cfg /\ moved.then = s.then
      /\ moved.from = s.from /\ moved.todo = s.todo \ {d} /\ moved.clean = s.clean /\ moved.pc = s.pc
  <2>1. s.todo \ {d} \in SUBSET (Bypass \cup {"dns"}) /\ s.done \cup {d} \in SUBSET (Bypass \cup {"dns"})
    BY DEF Daemons
  <2> QED BY <1>1, <2>1 DEF Daemons
<1>3. t = IF ~ok THEN [moved EXCEPT !.pc = bad]
          ELSE IF moved.todo = {} THEN [moved EXCEPT !.pc = good] ELSE moved BY <1>1 DEF MovedDaemon
<1>4. good \in TunnelPcs /\ bad \in TunnelPcs BY DEF TunnelPcs
<1>5. CASE ~ok BY <1>2, <1>3, <1>4, <1>5 DEF Daemons
<1>6. CASE ok /\ moved.todo = {} BY <1>2, <1>3, <1>4, <1>6 DEF Daemons
<1>7. CASE ok /\ moved.todo # {} BY <1>2, <1>3, <1>7
<1> QED BY <1>5, <1>6, <1>7

Recorded(d, ok, good, bad) ==
    /\ wd' \in Daemons /\ wd'.conn = wd.conn /\ wd'.cfg = wd.cfg /\ wd'.then = wd.then
    /\ wd'.from = wd.from
    /\ wd'.todo = wd.todo \ {d} /\ wd'.clean = wd.clean
    /\ wd'.pc = IF ok = FALSE THEN bad ELSE IF wd'.todo = {} THEN good ELSE wd.pc

\* The same for a route that is deleted.
LEMMA DeletingMoves ==
    ASSUME WindowsInv, NEW d \in Bypass,
           NEW good \in TransitionPcs, NEW bad \in TransitionPcs, Moving(d, DeleteRoute, good, bad)
    PROVE  d \in wd.todo /\ \E ok \in BOOLEAN : DeleteRoute(d, ok) /\ Recorded(d, ok, good, bad)
<1>1. PICK ok \in BOOLEAN :
          /\ DeleteRoute(d, ok)
          /\ wd' = MovedDaemon(wd, d, ok, good, bad) BY DEF Moving, MovedDaemon
<1>2. PICK s, t : s = wd /\ t = wd' OBVIOUS
<1>5. RecordedIn(s, t, d, ok, good, bad) BY <1>1, <1>2, TypesUnfold, MovingOutcome
<1> QED BY <1>1, <1>2, <1>5 DEF Moving, Recorded, RecordedIn

\* The same for a route that is added.
LEMMA AddingMoves ==
    ASSUME WindowsInv, NEW d \in Bypass,
           NEW good \in TransitionPcs, NEW bad \in TransitionPcs, Moving(d, AddRoute, good, bad)
    PROVE  d \in wd.todo /\ \E ok \in BOOLEAN : AddRoute(d, ok) /\ Recorded(d, ok, good, bad)
<1>1. PICK ok \in BOOLEAN :
          /\ AddRoute(d, ok)
          /\ wd' = MovedDaemon(wd, d, ok, good, bad) BY DEF Moving, MovedDaemon
<1>2. PICK s, t : s = wd /\ t = wd' OBVIOUS
<1>5. RecordedIn(s, t, d, ok, good, bad) BY <1>1, <1>2, TypesUnfold, MovingOutcome
<1> QED BY <1>1, <1>2, <1>5 DEF Moving, Recorded, RecordedIn

\* An old route goes, under the kill switch or after the new ones are open.
LEMMA DeletedRouteHolds ==
    ASSUME WindowsInv, NEW d \in Bypass, UNCHANGED <<policyVars, tunnel>>,
           \/ wd.pc = "moveOut" /\ Moving(d, DeleteRoute, "moved", "undo")
           \/ wd.pc = "closeOld" /\ Moving(d, DeleteRoute, "updated", "undoOpening")
    PROVE  WindowsInv'
<1>0. /\ wd \in Daemons /\ FirewallTypes /\ routes.kernel \subseteq routes.owned /\ TransitionOK
      /\ routes \in RouteTables /\ TunnelTypes BY TypesUnfold
<1>1. PICK good, bad : \/ wd.pc = "moveOut" /\ good = "moved" /\ bad = "undo"
                       \/ wd.pc = "closeOld" /\ good = "updated" /\ bad = "undoOpening" OBVIOUS
<1>2. wd.pc \in TransitionPcs /\ good \in TransitionPcs /\ bad \in TransitionPcs BY <1>1 DEF TransitionPcs
<1>3. d \in wd.todo /\ \E ok \in BOOLEAN : DeleteRoute(d, ok) /\ Recorded(d, ok, good, bad)
  <2>1. Moving(d, DeleteRoute, good, bad) BY <1>1
  <2> QED BY <1>2, <2>1, DeletingMoves
<1>4. PICK ok \in BOOLEAN : DeleteRoute(d, ok) /\ Recorded(d, ok, good, bad) BY <1>3
<1>5. /\ wd' \in Daemons /\ wd'.conn = wd.conn /\ wd'.cfg = wd.cfg /\ wd'.then = wd.then
      /\ wd'.from = wd.from
      /\ wd'.todo = wd.todo \ {d}
      /\ wd'.pc = IF ok = FALSE THEN bad ELSE IF wd'.todo = {} THEN good ELSE wd.pc BY <1>4 DEF Recorded
<1>6. /\ routes' \in RouteTables /\ faults' \in Nat
      /\ routes'.kernel \subseteq routes'.owned
      /\ \A e \in Bypass : e # d => (e \in routes'.kernel <=> e \in routes.kernel)
      /\ d \in routes'.kernel => d \in routes.kernel
      /\ ok = TRUE => d \notin routes'.kernel BY <1>0, <1>4, DeleteRouteOutcome
<1>7. /\ Connected /\ wd.from \in SUBSET Bypass /\ Added \in SUBSET Bypass /\ Removed \in SUBSET Bypass
  BY <1>2, TransitionFacts
<1>8. Common' = Common /\ Added' = Added /\ Removed' = Removed /\ Added \cap Removed = {}
  BY <1>5, SameSets DEF Added, Removed
<1>9. /\ wd.todo \subseteq Removed /\ (Removed \ wd.todo) \cap routes.kernel = {}
      /\ wd.pc = "closeOld" => Added \subseteq routes.kernel /\ ~wd.conn.kill
      /\ wd.pc = "moveOut" /\ wd.conn.kill => Permits(wfp, wd.conn.peer) = Common
  BY <1>0, <1>1 DEF TransitionOK, OpenPcs
<1> QED
  BY <1>1, <1>2, <1>3, <1>5, <1>6, <1>7, <1>8, <1>9, TransitionStep DEF TransitionOK, TransitionPcs, OpenPcs,
    ExclusionReceipts, Connected, policyVars, Permits

\* A new route comes, under the kill switch or before the old ones go.
LEMMA AddedRouteHolds ==
    ASSUME WindowsInv, NEW d \in Bypass, UNCHANGED <<policyVars, tunnel>>,
           \/ wd.pc = "moveIn" /\ Moving(d, AddRoute, "widen", "undo")
           \/ wd.pc = "openNew" /\ Moving(d, AddRoute, "opened", "undoOpening")
    PROVE  WindowsInv'
<1>0. /\ wd \in Daemons /\ FirewallTypes /\ routes.kernel \subseteq routes.owned /\ TransitionOK
      /\ routes \in RouteTables /\ TunnelTypes BY TypesUnfold
<1>1. PICK good, bad : \/ wd.pc = "moveIn" /\ good = "widen" /\ bad = "undo"
                       \/ wd.pc = "openNew" /\ good = "opened" /\ bad = "undoOpening" OBVIOUS
<1>2. wd.pc \in TransitionPcs /\ good \in TransitionPcs /\ bad \in TransitionPcs BY <1>1 DEF TransitionPcs
<1>3. d \in wd.todo /\ \E ok \in BOOLEAN : AddRoute(d, ok) /\ Recorded(d, ok, good, bad)
  <2>1. Moving(d, AddRoute, good, bad) BY <1>1
  <2> QED BY <1>2, <2>1, AddingMoves
<1>4. PICK ok \in BOOLEAN : AddRoute(d, ok) /\ Recorded(d, ok, good, bad) BY <1>3
<1>5. /\ wd' \in Daemons /\ wd'.conn = wd.conn /\ wd'.cfg = wd.cfg /\ wd'.then = wd.then
      /\ wd'.from = wd.from
      /\ wd'.todo = wd.todo \ {d}
      /\ wd'.pc = IF ok = FALSE THEN bad ELSE IF wd'.todo = {} THEN good ELSE wd.pc BY <1>4 DEF Recorded
<1>6. /\ routes' \in RouteTables /\ faults' \in Nat
      /\ routes'.kernel \subseteq routes'.owned
      /\ \A e \in Bypass : e # d => (e \in routes'.kernel <=> e \in routes.kernel)
      /\ d \in routes.kernel => d \in routes'.kernel
      /\ ok = TRUE => d \in routes'.kernel BY <1>0, <1>4, AddRouteOutcome
<1>7. /\ Connected /\ wd.from \in SUBSET Bypass /\ Added \in SUBSET Bypass /\ Removed \in SUBSET Bypass
  BY <1>2, TransitionFacts
<1>8. Common' = Common /\ Added' = Added /\ Removed' = Removed /\ Added \cap Removed = {}
  BY <1>5, SameSets DEF Added, Removed
<1>9. /\ wd.todo \subseteq Added /\ Added \ wd.todo \subseteq routes.kernel
      /\ wd.pc = "openNew" => ~wd.conn.kill
      /\ wd.pc = "moveIn" => Removed \cap routes.kernel = {}
      /\ wd.pc = "moveIn" /\ wd.conn.kill => Permits(wfp, wd.conn.peer) = Common
  BY <1>0, <1>1 DEF TransitionOK, OpenPcs
<1> QED
  BY <1>1, <1>2, <1>3, <1>5, <1>6, <1>7, <1>8, <1>9, TransitionStep DEF TransitionOK, TransitionPcs, OpenPcs,
    ExclusionReceipts, Connected, policyVars, Permits

\* A step of a transition that only goes to another of its points.
LEMMA PointStep ==
    ASSUME WindowsInv, UNCHANGED <<policyVars, tunnel, routes, faults>>, wd.pc \in TransitionPcs,
           NEW pc \in TransitionPcs, NEW todo \in SUBSET (Bypass \cup {"dns"}), NEW clean \in BOOLEAN,
           wd' = [wd EXCEPT !.pc = pc, !.todo = todo, !.clean = clean], TransitionOK'
    PROVE  WindowsInv'
<1>1. wd \in Daemons /\ routes \in RouteTables /\ faults \in Nat BY TypesUnfold
<1>2. /\ wd' \in Daemons /\ wd'.conn = wd.conn /\ wd'.cfg = wd.cfg /\ wd'.then = wd.then /\ wd'.pc = pc
  BY <1>1 DEF Daemons, TunnelPcs
<1> QED BY <1>1, <1>2, TransitionStep

\* The fields a step to another point changes, and those it does not.
LEMMA PointFields ==
    ASSUME wd \in Daemons, NEW pc, NEW todo, NEW clean,
           wd' = [wd EXCEPT !.pc = pc, !.todo = todo, !.clean = clean]
    PROVE  /\ wd'.pc = pc /\ wd'.todo = todo /\ wd'.clean = clean /\ wd'.done = wd.done
           /\ wd'.conn = wd.conn /\ wd'.cfg = wd.cfg /\ wd'.from = wd.from
BY DEF Daemons

\* The end of a phase of a transition, and the beginning of its rollback.
LEMMA PhaseHolds ==
    ASSUME WindowsInv, UNCHANGED <<policyVars, tunnel, routes, faults>>,
           \/ wd.pc = "moveOut" /\ wd.todo = {} /\ Goto("moved")
           \/ wd.pc = "moved" /\ NextPhase("moveIn", Added, "widen")
           \/ wd.pc = "openNew" /\ wd.todo = {} /\ Goto("opened")
           \/ wd.pc = "opened" /\ NextPhase("closeOld", Removed, "updated")
           \/ wd.pc = "undoOpening" /\ wd' = [wd EXCEPT !.pc = "undoOpen", !.todo = wd.done, !.clean = TRUE]
           \/ /\ wd.pc = "undoOpen" /\ wd.todo = {}
              /\ wd' = Settle(wd, IF wd.clean THEN "rolledBack" ELSE "uncertain")
    PROVE  WindowsInv'
<1>0. /\ wd \in Daemons /\ routes \in RouteTables /\ TransitionOK /\ routes.kernel \subseteq routes.owned
  BY TypesUnfold
<1>1. wd.pc \in TransitionPcs BY DEF TransitionPcs
<1>2. /\ Connected /\ wd.from \in SUBSET Bypass /\ Added \in SUBSET Bypass /\ Removed \in SUBSET Bypass
      /\ wd.conn.kill \in BOOLEAN BY <1>1, TransitionFacts
<1>3. PICK pc, todo, clean :
         /\ wd' = [wd EXCEPT !.pc = pc, !.todo = todo, !.clean = clean]
         /\ \/ wd.pc = "moveOut" /\ wd.todo = {} /\ pc = "moved" /\ todo = {} /\ clean = wd.clean
            \/ /\ wd.pc = "moved" /\ pc = (IF Added = {} THEN "widen" ELSE "moveIn")
               /\ todo = Added /\ clean = wd.clean
            \/ wd.pc = "openNew" /\ wd.todo = {} /\ pc = "opened" /\ todo = {} /\ clean = wd.clean
            \/ /\ wd.pc = "opened" /\ pc = (IF Removed = {} THEN "updated" ELSE "closeOld")
               /\ todo = Removed /\ clean = wd.clean
            \/ wd.pc = "undoOpening" /\ pc = "undoOpen" /\ todo = wd.done /\ clean = TRUE
            \/ /\ wd.pc = "undoOpen" /\ wd.todo = {} /\ clean = wd.clean /\ todo = {}
               /\ pc = (IF wd.clean THEN "rolledBack" ELSE "uncertain")
  <2>1. CASE wd.pc = "moveOut" /\ wd.todo = {} /\ Goto("moved")
    <3>1. wd' = [wd EXCEPT !.pc = "moved", !.todo = {}, !.clean = wd.clean] BY <1>0, <2>1 DEF Goto, Daemons
    <3> QED BY <2>1, <3>1
  <2>2. CASE wd.pc = "moved" /\ NextPhase("moveIn", Added, "widen")
    <3>1. wd' = [wd EXCEPT !.pc = IF Added = {} THEN "widen" ELSE "moveIn", !.todo = Added, !.clean = wd.clean]
      BY <1>0, <2>2 DEF NextPhase, Daemons
    <3> QED BY <2>2, <3>1
  <2>3. CASE wd.pc = "openNew" /\ wd.todo = {} /\ Goto("opened")
    <3>1. wd' = [wd EXCEPT !.pc = "opened", !.todo = {}, !.clean = wd.clean] BY <1>0, <2>3 DEF Goto, Daemons
    <3> QED BY <2>3, <3>1
  <2>4. CASE wd.pc = "opened" /\ NextPhase("closeOld", Removed, "updated")
    <3>1. wd' = [wd EXCEPT !.pc = IF Removed = {} THEN "updated" ELSE "closeOld", !.todo = Removed, !.clean = wd.clean]
      BY <1>0, <2>4 DEF NextPhase, Daemons
    <3> QED BY <2>4, <3>1
  <2>5. CASE wd.pc = "undoOpening" /\ wd' = [wd EXCEPT !.pc = "undoOpen", !.todo = wd.done, !.clean = TRUE] BY <2>5
  <2>6. CASE /\ wd.pc = "undoOpen" /\ wd.todo = {}
             /\ wd' = Settle(wd, IF wd.clean THEN "rolledBack" ELSE "uncertain")
    <3>1. wd' = [wd EXCEPT !.pc = IF wd.clean THEN "rolledBack" ELSE "uncertain", !.todo = {}, !.clean = wd.clean]
      BY <1>0, <2>6 DEF Settle, Daemons
    <3> QED BY <2>6, <3>1
  <2> QED BY <2>1, <2>2, <2>3, <2>4, <2>5, <2>6
<1>4. pc \in TransitionPcs /\ todo \in SUBSET (Bypass \cup {"dns"}) /\ clean \in BOOLEAN
  <2>1. wd.clean \in BOOLEAN /\ wd.done \in SUBSET (Bypass \cup {"dns"}) BY <1>0 DEF Daemons
  <2> QED BY <1>2, <1>3, <2>1 DEF TransitionPcs
<1>5. /\ wd'.pc = pc /\ wd'.todo = todo /\ wd'.clean = clean /\ wd'.done = wd.done
      /\ wd'.conn = wd.conn /\ wd'.cfg = wd.cfg /\ wd'.from = wd.from BY <1>0, <1>3, PointFields
<1>8. TransitionOK'
  BY <1>0, <1>2, <1>3, <1>5, SameSets DEF TransitionOK, TransitionPcs, OpenPcs, ExclusionReceipts, Connected,
    policyVars, Permits
<1> QED BY <1>1, <1>3, <1>4, <1>8, PointStep

\* A route the transition attempted goes back where it was.
LEMMA UndoRouteHolds == ASSUME WindowsInv, NEW d \in Bypass, UndoRoute(d) PROVE WindowsInv'
<1>0. /\ wd \in Daemons /\ FirewallTypes /\ routes.kernel \subseteq routes.owned /\ TransitionOK
      /\ routes \in RouteTables /\ TunnelTypes BY TypesUnfold
<1>1. /\ wd.pc \in {"undoRoutes", "undoOpen"} /\ wd.pc \in TransitionPcs /\ d \in wd.todo
      /\ UNCHANGED <<policyVars, tunnel>> BY DEF UndoRoute, TransitionPcs
<1>2. PICK ok \in BOOLEAN :
           /\ IF d \in Added THEN DeleteRoute(d, ok) ELSE AddRoute(d, ok)
           /\ wd' = [wd EXCEPT !.todo = @ \ {d}, !.clean = @ /\ ok] BY DEF UndoRoute
<1>3. /\ Connected /\ wd.from \in SUBSET Bypass /\ Added \in SUBSET Bypass /\ Removed \in SUBSET Bypass
  BY <1>1, TransitionFacts
<1>4. /\ wd' \in Daemons /\ wd'.conn = wd.conn /\ wd'.cfg = wd.cfg /\ wd'.then = wd.then /\ wd'.from = wd.from
      /\ wd'.pc = wd.pc /\ wd'.todo = wd.todo \ {d} /\ wd'.done = wd.done
      /\ wd'.clean => wd.clean /\ ok = TRUE BY <1>0, <1>2 DEF Daemons
<1>5. Common' = Common /\ Added' = Added /\ Removed' = Removed /\ Added \cap Removed = {}
  BY <1>4, SameSets DEF Added, Removed
<1>6. /\ routes' \in RouteTables /\ faults' \in Nat
      /\ routes'.kernel \subseteq routes'.owned
      /\ \A e \in Bypass : e # d => (e \in routes'.kernel <=> e \in routes.kernel)
      /\ ok = TRUE => (d \in routes'.kernel <=> d \notin Added)
  <2>1. CASE d \in Added BY <1>0, <1>2, <2>1, DeleteRouteOutcome
  <2>2. CASE d \notin Added BY <1>0, <1>2, <2>2, AddRouteOutcome
  <2> QED BY <2>1, <2>2
<1>8. /\ wd.pc = "undoRoutes" /\ wd.conn.kill => Permits(wfp, wd.conn.peer) = Common
      /\ wd.pc = "undoOpen" => ~wd.conn.kill
      /\ wd.clean => /\ Removed \cap (wd.done \ wd.todo) \subseteq routes.kernel
                     /\ Added \cap (wd.done \ wd.todo) \cap routes.kernel = {} BY <1>0, <1>1 DEF TransitionOK, OpenPcs
<1> QED
  BY <1>1, <1>3, <1>4, <1>5, <1>6, <1>8, TransitionStep DEF TransitionOK, TransitionPcs, OpenPcs, ExclusionReceipts,
    Connected, policyVars, Permits

\* The receipt ends the transition.
LEMMA ReceiptHolds == ASSUME WindowsInv, Receipt PROVE WindowsInv'
<1>0. /\ wd \in Daemons /\ routes \in RouteTables /\ faults \in Nat /\ routes.kernel \subseteq routes.owned
      /\ PointsOK BY TypesUnfold
<1>1. /\ wd.pc \in {"updated", "rolledBack", "uncertain"} /\ wd.pc \in TransitionPcs
      /\ UNCHANGED <<policyVars, tunnel, routes, faults>> BY DEF Receipt, TransitionPcs, firewallVars
<1>3. PICK s : /\ wd' = Idle(s)
               /\ s = CASE wd.pc = "updated" ->
                       [wd EXCEPT !.conn = wd.cfg,
                                  !.refs = [d \in Bypass |-> IF d \in wd.cfg.excluded THEN 1
                                                             ELSE IF d \in wd.from THEN 0 ELSE wd.refs[d]]]
                    [] wd.pc = "uncertain" ->
                       [wd EXCEPT !.refs = [d \in Bypass |-> IF d \in wd.cfg.excluded THEN 1 ELSE wd.refs[d]],
                                  !.known = FALSE]
                    [] OTHER -> wd BY DEF Receipt
<1>4. s \in Daemons
  <2>2. /\ [d \in Bypass |-> IF d \in wd.cfg.excluded THEN 1
                             ELSE IF d \in wd.from THEN 0 ELSE wd.refs[d]] \in [Bypass -> Nat]
        /\ [d \in Bypass |-> IF d \in wd.cfg.excluded THEN 1 ELSE wd.refs[d]] \in [Bypass -> Nat] BY <1>0 DEF Daemons
  <2>3. CASE wd.pc = "updated"
    <3>1. s = [wd EXCEPT !.conn = wd.cfg,
                         !.refs = [d \in Bypass |-> IF d \in wd.cfg.excluded THEN 1
                                                    ELSE IF d \in wd.from THEN 0 ELSE wd.refs[d]]] BY <1>3, <2>3
    <3> QED BY <1>0, <2>2, <3>1 DEF Daemons
  <2>4. CASE wd.pc = "uncertain"
    <3>1. s = [wd EXCEPT !.refs = [d \in Bypass |-> IF d \in wd.cfg.excluded THEN 1 ELSE wd.refs[d]],
                         !.known = FALSE] BY <1>3, <2>4
    <3> QED BY <1>0, <2>2, <3>1 DEF Daemons
  <2>5. CASE wd.pc = "rolledBack" BY <1>0, <1>3, <2>5
  <2> QED BY <1>1, <2>3, <2>4, <2>5
<1>5. wd' \in Daemons /\ wd'.pc = "idle" /\ wd'.then = "none" /\ wd'.conn = s.conn
  <2>1. wd' = Idle(s) BY <1>3
  <2> QED BY <1>4, <2>1 DEF Idle, Daemons, TunnelPcs, NoConfig
<1>6. s.conn \in {wd.conn, wd.cfg} BY <1>0, <1>3, <1>1 DEF Daemons
<1>8. PointsOK' /\ wd'.pc \notin TransitionPcs BY <1>5 DEF PointsOK, ConnectPcs, TransitionPcs
<1> QED
  BY <1>0, <1>1, <1>5, <1>6, <1>8, TransitionFacts, ConfigIsNone, NoTransition, QuietStep DEF PointsOK, Daemons,
    Connected

-----------------------------------------------------------------------------

\* Every step of the daemon keeps the invariant.
LEMMA WindowsStepHolds == ASSUME WindowsInv, WindowsStep(TunnelConfigs) PROVE WindowsInv'
<1>1. CASE Boot \/ \E c \in TunnelConfigs, sameKeys \in BOOLEAN : Activate(c, sameKeys)
  BY <1>1, BootHolds, ActivateHolds
<1>2. CASE StartTunnel \/ FenceInterface \/ Excluded \/ PermitPeer \/ ConfigurePeer \/ RunUp
  BY <1>2, StartTunnelHolds, FenceInterfaceHolds, ExcludedHolds, PermitPeerHolds, ConfigurePeerHolds, RunUpHolds
<1>3. CASE LeftOld \/ Switched \/ Forget \/ ActivationFails
  BY <1>3, LeftOldHolds, SwitchedHolds, ForgetHolds, ActivationFailsHolds
<1>4. CASE Deactivate \/ Down \/ DownRoutesDone \/ DownFirewall \/ DownTunnel
  BY <1>4, DeactivateHolds, DownHolds, DownRoutesDoneHolds, DownFirewallHolds, DownTunnelHolds
<1>5. CASE \E d \in Bypass : Exclude(d) \/ LeaveOld(d) \/ DownRoute(d) \/ UndoRoute(d)
  BY <1>5, ExcludeHolds, LeaveOldHolds, DownRouteHolds, UndoRouteHolds
<1>6. CASE \E c \in TunnelConfigs : c.peer = wd.conn.peer /\ c.kill = wd.conn.kill /\ Replace(c.excluded)
  <2>1. PICK c \in TunnelConfigs : Replace(c.excluded) BY <1>6
  <2> QED BY <2>1, ReplaceHolds DEF TunnelConfigs
<1>7. CASE Narrow \/ Widen \/ Undo \/ UndoPermits \/ Receipt
  BY <1>7, NarrowHolds, WidenHolds, UndoHolds, UndoPermitsHolds, ReceiptHolds
<1>8. CASE MoveOut \/ CloseOld BY <1>8, DeletedRouteHolds, PhaseHolds DEF MoveOut, CloseOld
<1>9. CASE MoveIn \/ OpenNew BY <1>9, AddedRouteHolds, PhaseHolds DEF MoveIn, OpenNew
<1>10. CASE MovedOut \/ OpenedNew \/ UndoOpening \/ UndoOpened
  BY <1>10, PhaseHolds DEF MovedOut, OpenedNew, UndoOpening, UndoOpened, firewallVars
<1> QED BY <1>1, <1>2, <1>3, <1>4, <1>5, <1>6, <1>7, <1>8, <1>9, <1>10 DEF WindowsStep

\* Every step of the host keeps the invariant.
LEMMA WindowsHostStepHolds == ASSUME WindowsInv, WindowsHostStep PROVE WindowsInv'
BY CrashHolds, TunnelDiesHolds, DeactivateHolds, IpcKillSwitchHolds, IpcOpenVpnHolds, UninstalledHolds DEF
  WindowsHostStep

\* The inductive invariant of the Windows tunnel holds for every number of
\* peers, of excluded addresses, of failures and of restarts.
THEOREM WindowsInvariance == WindowsSpec => []WindowsInv
<1>1. WindowsInv /\ [WindowsStep(TunnelConfigs) \/ WindowsHostStep]_<<firewallVars, tunnelVars>> => WindowsInv'
  <2> SUFFICES ASSUME WindowsInv, [WindowsStep(TunnelConfigs) \/ WindowsHostStep]_<<firewallVars, tunnelVars>>
               PROVE  WindowsInv' OBVIOUS
  <2>1. CASE UNCHANGED <<firewallVars, tunnelVars>>
    BY <2>1 DEF firewallVars, policyVars, tunnelVars, WindowsInv, FirewallTypes, TunnelTypes, KillSwitchInv,
      StrictKept, SessionKept, PeersBlocked, PointsOK, Connected, BlockedOutside, Reconciled, TransitionOK,
      ExclusionReceipts, Common, Added, Removed, Permits
  <2> QED BY <2>1, WindowsStepHolds, WindowsHostStepHolds
<1> QED BY <1>1, WindowsInitHolds, PTL DEF WindowsSpec

\* The filters and routes of the Windows service are what it answered for: a
\* host whose kill switch is engaged is never open, and a receipt of a replaced
\* exclusion policy is the truth.
THEOREM WindowsPolicyAlwaysHolds == WindowsSpec => []WindowsPolicyHolds
<1>1. WindowsInv => WindowsPolicyHolds
  BY TypesUnfold DEF KillSwitchHolds, StrictKept, SessionKept, BlockedOutside, TransitionOK, WindowsPolicyHolds
<1> QED BY <1>1, WindowsInvariance, PTL
=============================================================================
