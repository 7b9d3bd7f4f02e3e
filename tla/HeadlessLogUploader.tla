------------------------ MODULE HeadlessLogUploader ------------------------
(***************************************************************************)
(* The headless daemon's log uploader (headless/remoteLogUploader.cpp).    *)
(* A poll every 30 seconds reads the log file it was provisioned with and   *)
(* sends what lies behind its cursor; the cursor file is written after the  *)
(* collector's receipt, and a receipt is confirmed by a later poll that     *)
(* finds the source unchanged.  The network waits are nested event loops:   *)
(* an import of a new target may run inside them.                           *)
(***************************************************************************)
EXTENDS LogCollector

CONSTANTS MaximumBatchBytes, RebindTailBytes, PrefixBytes

VARIABLES
  file,    \* the source: inode, generation of its content, size
  saved,   \* durable: the configured token (0: bootstrap) and the cursor file
  poller   \* the uploader's memory and where its poll stands

headlessVars == <<file, saved, poller>>

NoPrint == <<0, 0, 0>>
FreshState == [off |-> 0, fp |-> NoPrint, inode |-> 0, anchor |-> <<0, 0>>, awaiting |-> FALSE,
               redact |-> FALSE, binding |-> 0, base |-> 0]
NoFile == [FreshState EXCEPT !.off = 99]

\* loadState: a cursor of another target is put aside.
LoadState(s) ==
  IF s.state = NoFile \/ s.state.binding # s.token
  THEN [saved |-> [s EXCEPT !.state = NoFile], mem |-> FreshState]
  ELSE [saved |-> s, mem |-> s.state]

Load(s) ==
  [saved |-> LoadState(s).saved, mem |-> LoadState(s).mem, token |-> s.token]

\* saved is what a restart finds; token and mem are the object's own copies.
HeadlessInit ==
  /\ file = [inode |-> 1, gen |-> 1, size |-> 0]
  /\ saved = [token |-> 0, state |-> NoFile]
  /\ poller = [state |-> "Pending", phase |-> "idle", mem |-> FreshState, next |-> FreshState, token |-> 0]

Fail(p) == [p EXCEPT !.state = "Error", !.phase = "idle", !.next = FreshState]
Finish(p, state, w) == [p EXCEPT !.state = state, !.phase = "idle", !.mem = w, !.next = FreshState]

SourceFingerprint ==
  <<file.inode, IF file.size = 0 THEN 0 ELSE file.gen,
    IF file.size < PrefixBytes THEN file.size ELSE PrefixBytes>>
CursorAnchor(off) == IF off = 0 THEN <<0, 0>> ELSE <<file.inode, file.gen>>

\* Start again with a bounded, redacted tail of the file.
Rebind(w) ==
  LET off == IF file.size > RebindTailBytes THEN file.size - RebindTailBytes ELSE 0
  IN  [w EXCEPT !.fp = SourceFingerprint, !.off = off, !.base = off, !.redact = TRUE, !.anchor = <<0, 0>>]

IdentityChanged(w) == w.inode # 0 /\ w.inode # file.inode
Rotated(w) == IF IdentityChanged(w) THEN [Rebind(w) EXCEPT !.fp = NoPrint] ELSE w
Reprinted(w) == IF w.fp # SourceFingerprint THEN Rebind(w) ELSE w
Truncated(w) == IF w.off > file.size THEN Rebind(w) ELSE w

\* What makes a poll give up on its source: it changed in a way that leaves
\* open what the last receipt stands for.
SourceRefused(w) ==
  LET r == Rotated(w) IN
  \/ IdentityChanged(w) /\ (w.awaiting \/ file.size >= w.off)
  \/ r.anchor # <<0, 0>> /\ r.off <= file.size /\ r.anchor # CursorAnchor(r.off)
  \/ r.fp \notin {NoPrint, SourceFingerprint} /\ r.awaiting
  \/ Reprinted(r).off > file.size /\ r.awaiting

Working(w) == [Truncated(Reprinted(Rotated(w))) EXCEPT !.inode = file.inode]

\* The target's binding is part of the state; another binding starts afresh.
Bound(w, token) ==
  IF w.binding \in {0, token} THEN [w EXCEPT !.binding = token] ELSE [FreshState EXCEPT !.binding = token]

Resumed(w) ==
  IF w.awaiting /\ file.size > w.off THEN [w EXCEPT !.awaiting = FALSE, !.redact = TRUE] ELSE w

Candidate(w) ==
  LET next == IF w.off + MaximumBatchBytes < file.size THEN w.off + MaximumBatchBytes ELSE file.size
  IN  [w EXCEPT !.off = next, !.redact = FALSE, !.awaiting = TRUE, !.anchor = CursorAnchor(next)]

HeadlessRequest(w, token) ==
  LET next == Candidate(w).off
  IN  [batch |-> <<w.fp, w.off, next>>, token |-> token,
       body |-> IF w.redact THEN [raw |-> FALSE, secret |-> 0]
                ELSE [raw |-> TRUE, secret |-> <<file.gen, w.off, next>>],
       cells |-> {[kind |-> "headless", gen |-> file.gen, pos |-> i, secret |-> 0] : i \in w.off..(next - 1)}]

Idle == poller.phase = "idle" /\ poller.state # "Error"

PollBootstrap ==
  /\ Idle /\ poller.token = 0
  /\ poller' = [poller EXCEPT !.phase = "boot"]
  /\ UNCHANGED <<file, saved, col, wire, budget>>

\* The token is written to the configuration; a cursor bound to the target
\* without it is put aside.
BootstrapReply ==
  /\ poller.phase = "boot"
  /\ \/ /\ saved' = [token |-> Bootstrap(col).token, state |-> NoFile]
        /\ poller' = [poller EXCEPT !.phase = "idle", !.mem = FreshState, !.token = Bootstrap(col).token]
        /\ UNCHANGED budget
     \/ Spend("events") /\ poller' = Fail(poller) /\ UNCHANGED saved
  /\ UNCHANGED <<file, col, wire>>

\* The part of a poll that needs no answer: the source is refused, a receipt
\* is confirmed, or there is nothing to send.
SettledUpload(w) ==
  CASE w.awaiting /\ file.size = w.off ->
         [state |-> "Healthy", w |-> [w EXCEPT !.awaiting = FALSE, !.anchor = CursorAnchor(w.off)]]
    [] OTHER -> [state |-> "Pending", w |-> [w EXCEPT !.anchor = CursorAnchor(w.off)]]

Poll ==
  /\ Idle /\ poller.token # 0
  /\ LET b == Bound(poller.mem, poller.token)
         kept0 == IF poller.mem.binding \in {0, poller.token} THEN saved ELSE [saved EXCEPT !.state = NoFile]
         w == Resumed(Working(b))
         s == SettledUpload(w)
     IN  IF SourceRefused(b) THEN poller' = [Fail(poller) EXCEPT !.mem = IF kept0 = saved THEN @ ELSE b]
                                  /\ saved' = kept0 /\ UNCHANGED wire
         ELSE IF w.off >= file.size
         THEN poller' = Finish(poller, s.state, s.w) /\ saved' = [saved EXCEPT !.state = s.w] /\ UNCHANGED wire
         ELSE /\ poller' = [poller EXCEPT !.phase = "post", !.next = Candidate(w),
                                          !.mem = IF kept0 = saved THEN @ ELSE b]
              /\ saved' = kept0
              /\ wire' = [wire EXCEPT !.live = {HeadlessRequest(w, poller.token)}, !.answer = 0]
  /\ UNCHANGED <<file, col, budget>>

PostReplyUnsure ==
  /\ poller.phase = "post"
  /\ saved' = [saved EXCEPT !.state = poller.next]
  /\ poller' = Finish(poller, "Pending", poller.next)
  /\ wire' = [wire EXCEPT !.live = {}, !.answer = 0]
  /\ UNCHANGED <<file, col, budget>>

\* The receipt is durable before the cursor is.
PostReply ==
  /\ poller.phase = "post"
  /\ \/ /\ wire.answer = 204 /\ UNCHANGED budget
        /\ saved' = [saved EXCEPT !.state = poller.next]
        /\ poller' = Finish(poller, "Pending", poller.next)
     \/ wire.answer \notin {0, 204} /\ UNCHANGED <<budget, saved>> /\ poller' = Fail(poller)
     \/ Spend("events") /\ UNCHANGED saved /\ poller' = Fail(poller)
  /\ \E late \in {wire.late, wire.live} :
       wire' = [live |-> {}, late |-> IF wire.answer = 0 THEN late ELSE wire.late, answer |-> 0]
  /\ UNCHANGED <<file, col>>

Reload(s) ==
  /\ saved' = Load(s).saved
  /\ poller' = [poller EXCEPT !.state = "Pending", !.mem = Load(s).mem, !.token = s.token]

\* remoteLogs.import from the control socket, also while a poll waits.
Import ==
  /\ Spend("events")
  /\ \E t \in {0, col.token} : Reload([saved EXCEPT !.token = t])
  /\ UNCHANGED <<file, col, wire>>

Restart ==
  /\ Spend("events")
  /\ saved' = Load(saved).saved
  /\ poller' = [state |-> "Pending", phase |-> "idle", mem |-> Load(saved).mem, next |-> FreshState,
                token |-> saved.token]
  /\ wire' = [live |-> {}, late |-> wire.live, answer |-> 0]
  /\ UNCHANGED <<file, col>>

Grow == Spend("growth") /\ file' = [file EXCEPT !.size = @ + 1] /\ UNCHANGED <<saved, poller, col, wire>>
Replace ==
  /\ Spend("events")
  /\ \E inode \in {file.inode, file.inode + 1} : file' = [inode |-> inode, gen |-> file.gen + 1, size |-> 0]
  /\ UNCHANGED <<saved, poller, col, wire>>

PollerStep == PollBootstrap \/ BootstrapReply \/ Poll \/ PostReply
HeadlessNext == PollerStep \/ Import \/ Restart \/ Grow \/ Replace
=============================================================================
