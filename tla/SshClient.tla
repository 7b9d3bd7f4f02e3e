------------------------------ MODULE SshClient ------------------------------
(***************************************************************************)
(* The SSH transport of the server controllers: libssh::Client (one        *)
(* operation at a time under one absolute deadline, cancellable from       *)
(* another thread) and SshSession above it (scripts, verified uploads, and *)
(* the text files and scripts of a container, each a row of operations).   *)
(*                                                                         *)
(* The remote side is external: a started command goes on whatever becomes *)
(* of the connection, its output, exit status and end of file travel as    *)
(* separate messages, and the connection may drop at any moment.           *)
(***************************************************************************)
EXTENDS Integers, Sequences, FiniteSets

CONSTANTS Contents,   \* what may be uploaded
          MaxJobs,    \* bound: calls of SshSession
          MaxDrops,   \* bound: connections lost
          MaxCancels  \* bound: cancelCurrentOperation calls from outside

ASSUME SshBounds == {MaxJobs, MaxDrops, MaxCancels} \subseteq Nat /\ Contents # {}

Absent == "absent"
ASSUME AbsentIsNoContent == Absent \notin Contents

VARIABLES operation,  \* m_operationDeadlineMs, m_cancelRequested and what has passed
          link,       \* m_session and m_channel, with what is on the wire
          job,        \* the SshSession call that runs, with its position
          procs,      \* external: the remote processes, by number
          disk,       \* external: files of the host and of the container
          trouble     \* how often the environment has misbehaved

sshVars == <<operation, link, job, procs, disk, trouble>>

-----------------------------------------------------------------------------
(* What the calls of SshSession consist of: operations, each a row of      *)
(* remote commands over one connection, each with what its failure means:  *)
(* it ends the call, it is kept while the call goes on, or it is ignored.  *)

Operation(cmds, failing) == [cmds |-> cmds, failing |-> failing]

runScript(lines) == <<Operation(lines, "ends")>>
runScriptInSingleShell == <<Operation(<<"shell">>, "ends")>>
uploadFileToHost == <<Operation(<<"put">>, "ends")>>
uploadLocalFileToHost == <<Operation(<<"put">>, "ends")>>
runScriptAndUploadFiles == <<Operation(<<"shell", "put">>, "ends")>>

UploadOverwrite == <<Operation(<<"cp">>, "ends")>>
UploadAppend == <<Operation(<<"cpTemporary">>, "ends"), Operation(<<"cat">>, "ends")>>

uploadTextFileToContainer(append) ==
    uploadFileToHost \o runScript(<<"mkdir">>)
      \o (IF append THEN UploadAppend ELSE UploadOverwrite)
      \o <<Operation(<<"shred">>, "ignored")>>

runContainerScript ==
    uploadTextFileToContainer(FALSE)
      \o <<Operation(<<"run">>, "kept"), Operation(<<"remove">>, "ignored")>>

getTextFileFromContainer == runScript(<<"dump">>)
Calls == [script |-> runScript(<<"line", "line">>), shell |-> runScriptInSingleShell,
          file |-> uploadLocalFileToHost, composite |-> runScriptAndUploadFiles,
          text |-> uploadTextFileToContainer(FALSE), append |-> uploadTextFileToContainer(TRUE),
          container |-> runContainerScript, read |-> getTextFileFromContainer]

NoSshJob == [kind |-> "none", at |-> "idle", ops |-> <<>>, cmds |-> <<>>, error |-> "ok",
          result |-> "ok", again |-> FALSE, sent |-> FALSE, upload |-> "ok",
          content |-> Absent, oks |-> {}, n |-> 0]

Quiet == [session |-> FALSE, up |-> FALSE, channel |-> 0, wire |-> <<>>, unread |-> {},
          eof |-> FALSE, closed |-> FALSE, status |-> "none", drained |-> {},
          seen |-> FALSE, got |-> {}]

NoOperation == [open |-> FALSE, cancel |-> FALSE, late |-> {}]

SshInit ==
    /\ operation = NoOperation
    /\ link = Quiet
    /\ job = NoSshJob
    /\ procs = <<>>
    /\ disk = [host |-> Absent, file |-> {}, exists |-> TRUE, scratch |-> Absent]
    /\ trouble = [drops |-> 0, cancels |-> 0]

-----------------------------------------------------------------------------
(* Deadlines and cancellation.                                             *)

\* boundaryState: a cancellation is seen before a deadline; a phase is
\* bounded by its own cap and by the operation's deadline.
boundaryState(phase) ==
    CASE operation.cancel -> "interrupted"
      [] {phase, "operation"} \cap operation.late # {} -> "timeout"
      [] OTHER -> "ok"
boundaryError(phase) == boundaryState(phase)
teardownMode(phase) == IF boundaryState(phase) = "ok" THEN "graceful" ELSE "abort"

\* abortSession: the socket is closed under the channel; the remote process
\* loses its input if it had not got all of it.
Cut(p) == IF p.input = "open" THEN [p EXCEPT !.input = "cut"] ELSE p
abortSession ==
    /\ link' = Quiet
    /\ procs' = [i \in DOMAIN procs |-> IF i = link.channel THEN Cut(procs[i]) ELSE procs[i]]

To(at) == job' = [job EXCEPT !.at = at]
SshFailed(error) == job' = [job EXCEPT !.at = "ran", !.error = error]

\* beginOperation: nothing of the previous operation is left, not even a
\* cancellation that came in between.
beginOperation ==
    /\ job.at = "next" /\ job.ops # <<>> /\ ~operation.open
    /\ operation' = [open |-> TRUE, cancel |-> FALSE, late |-> {}]
    /\ abortSession
    /\ job' = [job EXCEPT !.at = "pin", !.cmds = Head(job.ops).cmds, !.error = "ok",
                          !.again = FALSE, !.sent = FALSE, !.upload = "ok"]
    /\ UNCHANGED <<disk, trouble>>

-----------------------------------------------------------------------------
(* connectToHost.                                                          *)

\* A connection that fails ends the command; when it was the reconnection of
\* a reconciliation, the upload's own error is the one reported.
ConnectFailed(error) ==
    /\ abortSession
    /\ SshFailed(IF job.again /\ job.upload # "ok" /\ boundaryError("operation") = "ok"
              THEN job.upload ELSE error)

\* A phase of connectToHost: the boundary is looked at before and after it, and
\* it may fail with an error of its own.
Phase(at, next, error, connected) ==
    /\ job.at = at
    /\ UNCHANGED <<operation, disk>>
    /\ \/ /\ boundaryError("connect") # "ok"
          /\ ConnectFailed(boundaryError("connect"))
          /\ UNCHANGED trouble
       \/ /\ boundaryError("connect") = "ok"
          /\ trouble.drops < MaxDrops
          /\ trouble' = [trouble EXCEPT !.drops = @ + 1]
          /\ ConnectFailed(error)
       \/ /\ boundaryError("connect") = "ok"
          /\ link' = connected
          /\ To(next)
          /\ UNCHANGED <<procs, trouble>>

ResolvePin == Phase("pin", "resolve", "pinError", link)
resolveHostName == Phase("resolve", "dial", "unresolved", link)
Dial == Phase("dial", "hostKey", "transport", [Quiet EXCEPT !.session = TRUE, !.up = TRUE])
verifyServerHostKey == Phase("hostKey", "auth", "hostKeyMismatch", link)
Authenticate == Phase("auth", "exec", "denied", link)
connectToHost == ResolvePin \/ resolveHostName \/ Dial \/ verifyServerHostKey \/ Authenticate

-----------------------------------------------------------------------------
(* executeChannel.                                                         *)

Command == IF job.again THEN "verify" ELSE Head(job.cmds)

\* scpFileCopy's preparation: the source is copied to a private snapshot
\* before anything is sent; a local failure ends the upload here.
SnapshotUpload ==
    /\ job.at = "exec" /\ Command = "put"
    /\ \/ boundaryError("operation") = "ok" /\ To("open")
       \/ boundaryError("operation") # "ok" /\ SshFailed(boundaryError("operation"))
    /\ UNCHANGED <<operation, link, procs, disk, trouble>>

ExecuteCommand ==
    /\ job.at = "exec" /\ Command # "put"
    /\ \/ boundaryError("operation") = "ok" /\ link.session /\ To("open")
       \/ boundaryError("operation") # "ok" /\ SshFailed(boundaryError("operation"))
       \/ boundaryError("operation") = "ok" /\ ~link.session /\ SshFailed("internal")
    /\ UNCHANGED <<operation, link, procs, disk, trouble>>

\* finishChannel: the channel is closed first; a close that fails turns a
\* success into an error.
FinishChannel(result) == job' = [job EXCEPT !.at = "close", !.error = result]

SshStarted == [cmd |-> Command, content |-> job.content, n |-> job.n, at |-> "run",
            input |-> IF Command = "put" THEN "open" ELSE "whole", code |-> "none",
            prints |-> {}, during |-> 0]

\* The channel is opened and the command requested; from here on the remote
\* process exists, whatever the client hears of it.
OpenChannel ==
    /\ job.at = "open"
    /\ UNCHANGED <<operation, disk, trouble>>
    /\ \/ /\ boundaryError("open") # "ok"
          /\ FinishChannel(boundaryError("open"))
          /\ UNCHANGED <<link, procs>>
       \/ /\ boundaryError("open") = "ok" /\ ~link.up
          /\ FinishChannel("transport")
          /\ UNCHANGED <<link, procs>>
       \/ /\ boundaryError("open") = "ok" /\ link.up
          /\ procs' = Append(procs, SshStarted)
          /\ link' = [Quiet EXCEPT !.session = TRUE, !.up = TRUE, !.channel = Len(procs) + 1]
          /\ job' = [job EXCEPT !.at = "pump", !.sent = @ \/ Command = "put"]

\* The output comes in chunks of at most one read: "out" and after it "more" on
\* the standard output, "err" on the other stream.
StreamsWaiting(unread) == {s \in {"out", "err"} : s \in unread \/ (s = "out" /\ "more" \in unread)}
NextChunks(unread) == (unread \cap {"err"}) \cup (IF "out" \in unread THEN {"out"} ELSE unread \cap {"more"})

\* readOneChunk on both streams: a stream counts as drained only when it has
\* nothing more after the end of the channel was seen.
ReadChunks ==
    [link EXCEPT !.got = @ \cup NextChunks(link.unread),
                 !.unread = @ \ NextChunks(link.unread),
                 !.drained = IF link.seen THEN {"out", "err"} \ StreamsWaiting(link.unread)
                             ELSE @ \ StreamsWaiting(link.unread)]

\* exitState, without waiting for the streams.
exitStateUndrained(l) ==
    CASE ~(l.eof \/ l.closed) -> "pending"
      [] l.status = "none" -> IF l.closed THEN "missing" ELSE "pending"
      [] OTHER -> IF l.status = "zero" THEN "success" ELSE "failure"

\* exitState: success needs the end of the channel, both streams drained and a
\* verified exit status of zero.
exitState(l) ==
    CASE ~(l.eof \/ l.closed) \/ l.drained # {"out", "err"} -> "pending"
      [] l.status = "none" -> IF l.closed THEN "missing" ELSE "pending"
      [] OTHER -> IF l.status = "zero" THEN "success" ELSE "failure"

\* One turn of the pump: read, write what the window allows, look for the end.
Pumped ==
    LET read == [ReadChunks EXCEPT !.seen = link.eof \/ link.closed]
    IN  /\ link' = read
        /\ CASE exitState(read) = "pending" -> UNCHANGED job
             [] exitState(read) = "success" -> FinishChannel("ok")
             [] OTHER -> FinishChannel("checkFailed")

\* Standard input: the file's chunks, then the end of file.
WriteInput ==
    /\ procs[link.channel].input = "open"
    /\ procs' = [procs EXCEPT ![link.channel].input = "whole"]

Pump ==
    /\ job.at = "pump"
    /\ UNCHANGED <<operation, disk, trouble>>
    /\ \/ /\ boundaryError("operation") # "ok"
          /\ FinishChannel(boundaryError("operation"))
          /\ UNCHANGED <<link, procs>>
       \/ /\ boundaryError("operation") = "ok" /\ ~link.up
          /\ FinishChannel("transport")
          /\ UNCHANGED <<link, procs>>
       \/ /\ boundaryError("operation") = "ok" /\ link.up
          /\ Pumped
          /\ UNCHANGED procs
       \/ /\ boundaryError("operation") = "ok" /\ link.up
          /\ WriteInput
          /\ UNCHANGED <<link, job>>

\* closeChannel: graceful within the deadline, otherwise the transport is cut.
closeChannel ==
    /\ job.at = "close"
    /\ UNCHANGED <<operation, disk, trouble>>
    /\ LET closing == CASE teardownMode("operation") = "abort" -> boundaryError("operation")
                        [] ~link.up /\ link.channel # 0 -> "transport"
                        [] OTHER -> "ok"
       IN  /\ IF closing = "ok"
              THEN /\ link' = [Quiet EXCEPT !.session = link.session, !.up = link.up,
                                            !.got = link.got]
                   /\ procs' = [i \in DOMAIN procs |->
                                  IF i = link.channel THEN Cut(procs[i]) ELSE procs[i]]
              ELSE /\ link' = [Quiet EXCEPT !.got = link.got]
                   /\ procs' = [i \in DOMAIN procs |->
                                  IF i = link.channel THEN Cut(procs[i]) ELSE procs[i]]
           /\ SshFailed(IF job.error = "ok" THEN closing ELSE job.error)

-----------------------------------------------------------------------------
(* What follows a command.                                                 *)

\* The receipt of an upload is a line only printed once the target is in place.
UploadReceipt == "out" \in link.got

NextCommand ==
    job' = [job EXCEPT !.cmds = Tail(@), !.error = "ok", !.again = FALSE,
                       !.oks = @ \cup {Len(procs)},
                       !.at = IF Len(job.cmds) = 1 THEN "finish" ELSE "exec"]

\* executeCommand and executeScript inside runScript: the first error ends the row.
AfterCommand ==
    /\ job.at = "ran" /\ job.cmds # <<>> /\ Command \notin {"put", "verify"}
    /\ \/ job.error = "ok" /\ NextCommand
       \/ job.error # "ok" /\ To("failed")
    /\ UNCHANGED <<operation, link, procs, disk, trouble>>

\* scpFileCopy: the receipt decides, not the exit status; without it the
\* connection is renewed under the same deadline and the target compared.
AfterUpload ==
    /\ job.at = "ran" /\ job.cmds # <<>> /\ Command = "put"
    /\ UNCHANGED <<disk, trouble>>
    /\ \/ /\ boundaryError("operation") # "ok"
          /\ job' = [job EXCEPT !.at = "failed", !.error = boundaryError("operation")]
          /\ UNCHANGED <<operation, link, procs>>
       \/ /\ boundaryError("operation") = "ok" /\ job.sent /\ UploadReceipt
          /\ NextCommand
          /\ UNCHANGED <<operation, link, procs>>
       \/ /\ boundaryError("operation") = "ok" /\ job.sent /\ ~UploadReceipt
          /\ abortSession
          /\ operation' = [operation EXCEPT !.late = @ \ {"connect", "open"}]
          /\ job' = [job EXCEPT !.at = "pin", !.again = TRUE, !.upload = job.error]
       \/ /\ boundaryError("operation") = "ok" /\ ~job.sent
          /\ To("failed")
          /\ UNCHANGED <<operation, link, procs>>

AfterReconcile ==
    /\ job.at = "ran" /\ job.again
    /\ \/ /\ boundaryError("operation") # "ok"
          /\ job' = [job EXCEPT !.at = "failed", !.error = boundaryError("operation")]
       \/ /\ boundaryError("operation") = "ok" /\ UploadReceipt
          /\ NextCommand
       \/ /\ boundaryError("operation") = "ok" /\ ~UploadReceipt
          /\ job' = [job EXCEPT !.at = "failed",
                                !.error = CASE job.upload # "ok" -> job.upload
                                            [] job.error # "ok" -> job.error
                                            [] OTHER -> "scpFailure"]
    /\ UNCHANGED <<operation, link, procs, disk, trouble>>

\* runScriptAndUploadFiles removes what it may have uploaded, as far as the
\* connection still allows; the outcome of that command is not looked at.
CleanUpUpload ==
    /\ job.at = "failed"
    /\ To("finish")
    /\ \/ job.kind = "composite" /\ job.sent /\ link.up /\ disk' = [disk EXCEPT !.host = Absent]
       \/ UNCHANGED disk
    /\ UNCHANGED <<operation, link, procs, trouble>>

\* finishOperation: a success is one only within the deadline; the connection
\* never outlives the operation.
finishOperation ==
    /\ job.at = "finish"
    /\ LET result == IF job.error = "ok" THEN boundaryError("operation") ELSE job.error
           failing == Head(job.ops).failing
           over == result # "ok" /\ failing = "ends"
       IN  job' = [job EXCEPT !.ops = IF over THEN <<>> ELSE Tail(@),
                              !.cmds = <<>>,
                              !.result = IF failing = "ignored" \/ result = "ok" THEN @ ELSE result,
                              !.at = IF over \/ Len(job.ops) = 1 THEN "answered" ELSE "next"]
    /\ abortSession
    /\ operation' = [operation EXCEPT !.open = FALSE, !.late = {}]
    /\ UNCHANGED <<disk, trouble>>

-----------------------------------------------------------------------------
(* The caller and the environment.                                         *)

CallSession ==
    /\ job.at = "idle" /\ job.n < MaxJobs
    /\ \E kind \in DOMAIN Calls, c \in Contents :
         job' = [NoSshJob EXCEPT !.kind = kind, !.at = "next", !.ops = Calls[kind],
                              !.content = c, !.n = job.n + 1]
    /\ UNCHANGED <<operation, link, procs, trouble>>
    \* Temporary names are random: an upload of an earlier call is elsewhere.
    /\ disk' = [disk EXCEPT !.host = Absent, !.scratch = Absent]

TakeAnswer ==
    /\ job.at = "answered"
    /\ job' = [NoSshJob EXCEPT !.n = job.n]
    /\ UNCHANGED <<operation, link, procs, disk, trouble>>

cancelCurrentOperation ==
    /\ trouble.cancels < MaxCancels /\ job.at # "idle"
    /\ operation' = [operation EXCEPT !.cancel = TRUE]
    /\ trouble' = [trouble EXCEPT !.cancels = @ + 1]
    /\ UNCHANGED <<link, job, procs, disk>>

TimePasses ==
    /\ operation.open /\ trouble.cancels < MaxCancels
    /\ \E phase \in {"connect", "open", "operation"} \ operation.late :
         operation' = [operation EXCEPT !.late = @ \cup {phase}]
    /\ trouble' = [trouble EXCEPT !.cancels = @ + 1]
    /\ UNCHANGED <<link, job, procs, disk>>

ConnectionDrops ==
    /\ link.up /\ trouble.drops < MaxDrops
    /\ link' = [link EXCEPT !.up = FALSE, !.wire = <<>>]
    /\ procs' = [i \in DOMAIN procs |-> IF i = link.channel THEN Cut(procs[i]) ELSE procs[i]]
    /\ trouble' = [trouble EXCEPT !.drops = @ + 1]
    /\ UNCHANGED <<operation, job, disk>>

ContainerRemoved ==
    /\ disk.exists
    /\ disk' = [disk EXCEPT !.exists = FALSE]
    /\ UNCHANGED <<operation, link, job, procs, trouble>>

\* What a command leaves behind when it succeeds. A process of an earlier call
\* works on its own temporary names.
Effect(p) ==
    CASE p.cmd = "put" /\ p.n = job.n -> [disk EXCEPT !.host = p.content]
      [] p.cmd = "cp" -> [disk EXCEPT !.file = {p.content}]
      [] p.cmd = "cpTemporary" -> [disk EXCEPT !.scratch = p.content]
      [] p.cmd = "cat" -> [disk EXCEPT !.file = @ \cup {p.content}]
      [] OTHER -> disk

InContainer == {"mkdir", "cp", "cpTemporary", "cat", "run", "remove", "dump"}

Possible(p) ==
    /\ p.cmd \in InContainer => disk.exists
    /\ p.cmd \in {"cp", "cpTemporary"} => (p.n = job.n => disk.host = p.content)
    /\ p.cmd = "cat" => (p.n = job.n => disk.scratch = p.content)
    /\ p.cmd = "verify" => (p.n = job.n /\ disk.host = p.content)
    /\ p.input = "whole"

Hears(i, messages) ==
    link' = IF i = link.channel /\ link.up THEN [link EXCEPT !.wire = messages] ELSE link

\* Output first; exit status and end of file in either order; a process that is
\* killed sends no status.
Messages(prints, code) ==
    LET data == IF prints = {} THEN <<>> ELSE IF prints = {"out"} THEN <<"out">> ELSE <<"out", "more", "err">>
    IN  IF code = "none" THEN {data \o <<"eof", "closed">>}
        ELSE {data \o <<code, "eof", "closed">>, data \o <<"eof", code, "closed">>}

\* An upload and the comparison print their receipt; other commands may print
\* more than one read takes.
Output(cmd) == IF cmd \in {"put", "verify"} THEN {"out"} ELSE {"out", "more", "err"}

\* A remote command ends: it did its work; it refused; or it was killed, before
\* its work or, for an upload, between the rename and the receipt.
RemoteEnds ==
    \E i \in DOMAIN procs, outcome \in {"done", "refused", "killed", "unsynced"} :
      LET p == procs[i]
          code == CASE outcome = "done" -> "zero" [] outcome = "killed" -> "none" [] OTHER -> "one"
          prints == IF outcome = "done" THEN Output(p.cmd) ELSE {}
      IN  /\ p.at = "run" /\ p.input # "open"
          /\ outcome = "done" => Possible(p)
          /\ outcome = "refused" => ~Possible(p) \/ p.cmd \in {"line", "shell", "run"}
          /\ outcome = "unsynced" => Possible(p) /\ p.cmd = "put"
          /\ outcome = "killed" => trouble.drops < MaxDrops
          /\ trouble' = IF outcome = "killed" THEN [trouble EXCEPT !.drops = @ + 1] ELSE trouble
          /\ disk' = IF outcome \in {"done", "unsynced"} THEN Effect(p) ELSE disk
          /\ procs' = [procs EXCEPT ![i].at = "end", ![i].code = code, ![i].prints = prints,
                                   ![i].during = job.n]
          /\ \E m \in Messages(prints, code) : Hears(i, m)
          /\ UNCHANGED <<operation, job>>

\* libssh takes the next message off the wire.
Receive ==
    /\ link.wire # <<>> /\ link.up
    /\ LET m == Head(link.wire)
           rest == [link EXCEPT !.wire = Tail(@)]
       IN  link' = CASE m \in {"out", "more", "err"} -> [rest EXCEPT !.unread = @ \cup {m}]
                     [] m = "eof" -> [rest EXCEPT !.eof = TRUE]
                     [] m = "closed" -> [rest EXCEPT !.closed = TRUE]
                     [] OTHER -> [rest EXCEPT !.status = m]
    /\ UNCHANGED <<operation, job, procs, disk, trouble>>

ClientSide ==
    \/ CallSession \/ beginOperation \/ connectToHost \/ SnapshotUpload \/ ExecuteCommand
    \/ OpenChannel \/ Pump \/ closeChannel \/ AfterCommand \/ AfterUpload \/ AfterReconcile
    \/ CleanUpUpload \/ finishOperation \/ TakeAnswer
ServerSide ==
    \/ cancelCurrentOperation \/ TimePasses \/ ConnectionDrops \/ ContainerRemoved
    \/ RemoteEnds \/ Receive
SshStep == ClientSide \/ ServerSide

SshSpec == SshInit /\ [][SshStep]_sshVars

-----------------------------------------------------------------------------
(* Properties.                                                             *)

\* A copy that an earlier call started and gave up listening to has finished
\* during this one: nothing stops it, and it writes the same file.
Overtaken ==
    \E i \in DOMAIN procs : /\ procs[i].cmd = "cp" /\ procs[i].code = "zero"
                            /\ procs[i].n # job.n /\ procs[i].during = job.n

\* What a call of SshSession promises when it succeeds.
Promised ==
    CASE job.kind \in {"file", "composite"} -> disk.host = job.content
      [] job.kind \in {"text", "append"} -> job.content \in disk.file \/ Overtaken
      [] OTHER -> TRUE

\* SshSession's calls and libssh::Client's executeChannel and scpFileCopy: a call
\* answered with success has done what it promises. Every command it counts as
\* done ended with a verified exit status of zero (an upload: has put its content
\* in place, though its own answer was lost), and the file it uploaded is there,
\* however the answer was lost, late or reconciled (a file of the container:
\* unless a copy of an earlier call overtook it). A command that executeChannel
\* reports as successful had its whole output read.
AnsweredIsDone ==
    /\ job.at = "answered" /\ job.result = "ok" =>
         /\ Promised
         /\ \A i \in job.oks : procs[i].at = "end" /\ procs[i].code = "zero"
    /\ job.at = "ran" /\ job.error = "ok" => procs[Len(procs)].prints \subseteq link.got
=============================================================================
