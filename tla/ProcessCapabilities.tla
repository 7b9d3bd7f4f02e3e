-------------------------- MODULE ProcessCapabilities --------------------------
(***************************************************************************)
(* IpcServer's privileged processes: a client asks for a capability,       *)
(* claims it with one connection, describes the launch, starts the process *)
(* and goes away at any moment.  Signals of the process, of the socket and *)
(* of the lifecycle timer arrive in any order.                             *)
(***************************************************************************)
EXTENDS Naturals, FiniteSets

CONSTANTS
    Capabilities,    \* capability names the generator may return
    Users,           \* identities of clients
    Programs,        \* the executables a client may ask for
    MaxGlobal,       \* maximumGlobalProcessCapabilities
    MaxUnclaimed,    \* maximumUnclaimedProcessCapabilities
    MaxPerUser,      \* maximumProcessCapabilitiesPerUser
    MaxRejected      \* maximumRejectedCapabilityPeers

ASSUME CapabilityAssumption ==
    {MaxGlobal, MaxUnclaimed, MaxPerUser, MaxRejected} \subseteq Nat /\ "none" \notin Users \cup Programs

VARIABLE processes   \* m_processes: capability -> descriptor, "none" when there is none

NoDescriptor ==
    [phase |-> "none", user |-> "none", conn |-> "none", goneQueued |-> FALSE, timer |-> FALSE,
     state |-> "not running", real |-> "not running", rejected |-> 0,
     program |-> "none", arguments |-> FALSE, refused |-> FALSE,
     inProgram |-> "none", inArguments |-> "none", late |-> FALSE]

CapabilitiesInit == processes = [c \in Capabilities |-> NoDescriptor]

Exists(c) == processes[c].phase # "none"
Live == {c \in Capabilities : Exists(c)}
Becomes(c, d) == processes' = [processes EXCEPT ![c] = d]

\* createPrivilegedProcess
CreatePrivilegedProcess(c) ==
    /\ ~Exists(c)
    /\ Cardinality(Live) < MaxGlobal
    /\ Cardinality({l \in Live : processes[l].phase = "awaiting claim"}) < MaxUnclaimed
    /\ Becomes(c, [NoDescriptor EXCEPT !.phase = "awaiting claim", !.timer = TRUE])

\* finalizeProcessCapability: the descriptor goes, and a QProcess that still
\* runs is killed by its destructor.
FinalizeProcessCapability(c) == Becomes(c, NoDescriptor)

\* beginProcessTermination; d is the descriptor as the caller leaves it.
BeginProcessTermination(c, d) ==
    IF d.state = "not running" THEN FinalizeProcessCapability(c)
    ELSE Becomes(c, [d EXCEPT !.conn = "none", !.phase = "terminating", !.timer = TRUE,
                              !.goneQueued = @ \/ d.conn # "none",
                              !.real = IF @ = "running" THEN "killed" ELSE @])

\* processQuotaAvailable
QuotaAvailable(u) ==
    Cardinality({c \in Live : processes[c].phase # "awaiting claim" /\ processes[c].user = u}) < MaxPerUser

\* handleProcessConnection: a rejected peer, a peer over quota, or the claim,
\* after which the count of rejected peers is read no more.
RejectPeer(c) ==
    /\ processes[c].phase = "awaiting claim"
    /\ IF processes[c].rejected + 1 >= MaxRejected THEN FinalizeProcessCapability(c)
       ELSE Becomes(c, [processes[c] EXCEPT !.rejected = @ + 1])

HandleProcessConnection(c, u) ==
    /\ processes[c].phase = "awaiting claim"
    /\ IF ~QuotaAvailable(u) THEN FinalizeProcessCapability(c)
       ELSE \/ Becomes(c, [processes[c] EXCEPT !.phase = "awaiting start", !.user = u, !.rejected = 0,
                                               !.conn = "up", !.timer = TRUE])
            \/ FinalizeProcessCapability(c)   \* the peer is gone, or remoting cannot be enabled

\* The client's socket closes: the handler runs from a zero timer.
SocketCloses(c) ==
    /\ processes[c].conn = "up"
    /\ Becomes(c, [processes[c] EXCEPT !.conn = "closed", !.goneQueued = TRUE])

HandleProcessSocketGone(c) ==
    /\ processes[c].goneQueued
    /\ LET d == [processes[c] EXCEPT !.goneQueued = FALSE, !.conn = "none"] IN
       IF d.phase \in {"running", "terminating"} \/ d.state # "not running"
       THEN BeginProcessTermination(c, d) ELSE FinalizeProcessCapability(c)

\* handleProcessTimeout: the lifecycle timer.
HandleProcessTimeout(c) ==
    /\ processes[c].timer
    /\ LET d == [processes[c] EXCEPT !.timer = FALSE] IN
       CASE d.phase \in {"awaiting claim", "finished"} -> FinalizeProcessCapability(c)
         [] d.phase \in {"awaiting start", "running"} -> BeginProcessTermination(c, d)
         [] d.phase = "terminating" -> BeginProcessTermination(c, d)

(***************************** IpcServerProcess ***************************)

Up(c) == processes[c].conn = "up"

\* What the wrapper was told is `program', `arguments' and `refused'; what its
\* QProcess will launch is `inProgram' and the program `inArguments' was checked
\* for.  A QProcess that is not idle ignores a new program and new arguments.
Resting(d) == d.real = "not running"

\* rejectLaunchSpecification
Refuse(d) == [d EXCEPT !.refused = TRUE, !.arguments = FALSE, !.inArguments = IF Resting(d) THEN "none" ELSE @]

\* setProgram forgets what was said about the launch before; "none" stands for
\* an identifier or an executable that is refused.
SetProgram(c, p) ==
    /\ Up(c)
    /\ LET d == processes[c] IN
       Becomes(c, [d EXCEPT !.program = p, !.arguments = FALSE, !.refused = (p = "none"), !.late = ~Resting(d),
                            !.inProgram = IF Resting(d) THEN p ELSE @, !.inArguments = IF Resting(d) THEN "none" ELSE @])

\* validateProcessArguments, and the staging of the configuration file.
ArgumentsAccepted == {TRUE, FALSE}

\* setArguments
SetArguments(c) ==
    /\ Up(c)
    /\ \E valid \in ArgumentsAccepted :
          LET d == processes[c] IN
          Becomes(c, IF d.program = "none" \/ d.refused \/ ~valid THEN Refuse(d)
                     ELSE [d EXCEPT !.arguments = TRUE, !.inArguments = IF Resting(d) THEN d.program ELSE @])

\* setWorkingDirectory, setNativeArguments and the channel modes with a value
\* the service does not accept.
SetForbidden(c) == Up(c) /\ Becomes(c, Refuse(processes[c]))

\* start, with the signals QProcess emits before it returns.
Start(c) ==
    /\ Up(c) /\ Resting(processes[c])
    /\ LET d == processes[c] IN
       IF d.program = "none" \/ ~d.arguments \/ d.refused \/ d.inProgram = "none"
       THEN Becomes(c, IF d.state = "not running" THEN [d EXCEPT !.phase = "finished", !.timer = TRUE] ELSE d)
       ELSE Becomes(c, [d EXCEPT !.real = "starting", !.state = "starting"])

StartedUnwatched(c) ==
    /\ processes[c].real = "starting"
    /\ Becomes(c, [processes[c] EXCEPT !.real = "running", !.state = "running", !.phase = "running", !.timer = FALSE])

\* The process comes up, or does not.
Started(c) ==
    /\ processes[c].real = "starting"
    /\ LET d == [processes[c] EXCEPT !.real = "running", !.state = "running"] IN
       IF d.phase = "terminating" \/ d.conn # "up" THEN BeginProcessTermination(c, d)
       ELSE Becomes(c, [d EXCEPT !.phase = "running", !.timer = FALSE])

FailsToStart(c) ==
    /\ processes[c].real = "starting"
    /\ Becomes(c, [processes[c] EXCEPT !.real = "not running", !.state = "not running",
                                       !.phase = "finished", !.timer = TRUE])

\* The process ends: by itself, killed, or at the client's terminate.
Finishes(c) ==
    /\ processes[c].real \in {"running", "killed"}
    /\ Becomes(c, [processes[c] EXCEPT !.real = "not running", !.state = "not running",
                                       !.phase = "finished", !.timer = TRUE])

\* kill, terminate and close of the client.
ClientEnds(c) ==
    /\ Up(c) /\ processes[c].real = "running"
    /\ Becomes(c, [processes[c] EXCEPT !.real = "killed"])

CapabilityStep ==
    \E c \in Capabilities :
        \/ CreatePrivilegedProcess(c) \/ RejectPeer(c) \/ SocketCloses(c)
        \/ \E u \in Users : HandleProcessConnection(c, u)
        \/ HandleProcessSocketGone(c) \/ HandleProcessTimeout(c)
        \/ \E p \in Programs \cup {"none"} : SetProgram(c, p)
        \/ SetArguments(c) \/ SetForbidden(c)
        \/ Start(c) \/ Started(c) \/ FailsToStart(c) \/ Finishes(c) \/ ClientEnds(c)

CapabilitySpec == CapabilitiesInit /\ [][CapabilityStep]_processes

(***************************** what it promises ***************************)

\* A permitted program with checked arguments, and arguments checked for that
\* very program unless the client named the program while another process ran.
Fits(d) == d.inProgram # "none" /\ d.inArguments # "none" /\ (d.late \/ d.inArguments = d.inProgram)

\* A privileged process is never left alone: while one runs that nobody has
\* killed, its client is connected, or the loss of the client is queued, or a
\* timer that ends it is armed; a descriptor that waits for anything has a
\* timer or a client, so no capability stays in the table for ever; no user
\* has more claimed capabilities than the quota; and what runs is a permitted
\* program with arguments that were checked, for that program unless setProgram
\* came while an earlier process ran: QProcess ignores it then, setArguments
\* checks for the new program and a later start() launches the old one.
ProcessesAttended ==
    /\ \A c \in Live :
          LET d == processes[c] IN
          /\ d.real \in {"starting", "running"} => d.conn = "up" \/ d.goneQueued \/ d.timer
          /\ d.phase = "running" => d.conn = "up" \/ d.goneQueued
          /\ d.phase # "running" => d.timer
          /\ d.real # "not running" => Fits(d)
    /\ \A u \in Users : Cardinality({c \in Live : processes[c].user = u}) <= MaxPerUser
=============================================================================
