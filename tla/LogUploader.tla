---------------------------- MODULE LogUploader ----------------------------
(***************************************************************************)
(* The desktop client's uploader of its own and its service's logs         *)
(* (client/core/controllers/remoteLogUploader.cpp and                      *)
(* core/utils/remoteLogBatchHealth.h).  A log is a growing sequence of     *)
(* cells; a cell remembers the secret (the upload token) that was live when *)
(* it was written.  "up" is the object's memory, "kept" what its settings   *)
(* hold: per log the cursor of the last acknowledged range and the retry    *)
(* marker that keeps a range redacted while the secret set changes.         *)
(***************************************************************************)
EXTENDS LogCollector, Integers

CONSTANTS Kinds,       \* the logs, in the order they are collected (a sequence)
          Batch,       \* maxPayloadBytes, also the tail a new log starts with
          Sample,      \* fingerprintSampleBytes
          ScanTick,    \* stateScanBytesPerTick
          MaxMarkers   \* maximumRetrySanitizerMarkers

VARIABLES
  src,     \* the log files: generation (content identity) and cells
  kept,    \* durable settings: cursors, markers, tombstone, bootstrap token
  up,      \* the uploader's memory
  vpn      \* is the tunnel connected, and has the uploader been told

clientVars == <<src, kept, up, vpn>>

Logs == ToSet(Kinds)
Size(k) == Len(src[k].cells)
Least(a, b) == IF a < b THEN a ELSE b
NoFp == <<0, 0>>
NoCursor == [off |-> -1, fp |-> NoFp, fb |-> 0, secret |-> 0, base |-> 0]
NoMarker == [present |-> FALSE, fp |-> NoFp, off |-> 0, high |-> 0, secret |-> 0,
             awaiting |-> FALSE, conf |-> -1]
NoScan == [fp |-> NoFp, target |-> 0, pos |-> 0]

Memory == [phase |-> "idle", requested |-> FALSE, queued |-> TRUE, retry |-> FALSE,
           stale |-> FALSE, pending |-> <<>>, armed |-> FALSE, failed |-> FALSE,
           failClosed |-> FALSE, redacted |-> FALSE, readable |-> FALSE,
           scanning |-> FALSE, captured |-> [k \in Logs |-> 0],
           scan |-> [k \in Logs |-> NoScan], state |-> "Idle", token |-> 0, wait |-> FALSE]

LogUploaderInit ==
  /\ src = [k \in Logs |-> [gen |-> 1, cells |-> <<>>]]
  /\ kept = [cursor |-> [k \in Logs |-> NoCursor], marker |-> [k \in Logs |-> NoMarker],
             tombstone |-> FALSE, token |-> 0]
  /\ up = Memory
  /\ vpn = [connected |-> TRUE, signal |-> FALSE]

(***************************************************************************)
(* The secret transition (remoteLogBatchHealth.h): what happens to a       *)
(* marker when a log is scanned (Advance) or a range acknowledged (Arm).   *)
(***************************************************************************)
Closed == [closed |-> TRUE, clear |-> FALSE, marker |-> NoMarker]
Kept(mk) == [closed |-> FALSE, clear |-> FALSE, marker |-> mk]
Cleared == [closed |-> FALSE, clear |-> TRUE, marker |-> NoMarker]

AdvanceSecretTransition(mk, e, secret) ==
  LET rebind == mk.present /\ ~mk.awaiting /\ e.rebindSafe
      broken == \/ e.accepted < 0 \/ e.accepted > e.size
                \/ mk.present /\ (\/ ~e.identity \/ ~e.cursorMatches
                                  \/ e.size < mk.high \/ e.accepted > mk.high)
      grown == [mk EXCEPT !.high = IF e.size > @ THEN e.size ELSE @,
                          !.secret = secret,
                          !.awaiting = @ /\ e.size <= mk.high /\ mk.secret = secret]
  IN  IF rebind /\ 0 <= e.accepted /\ e.accepted <= e.size
      THEN Kept([mk EXCEPT !.high = e.size, !.awaiting = FALSE, !.secret = secret])
      ELSE IF broken THEN Closed
      ELSE IF ~mk.present
      THEN IF e.acceptedSecret = secret THEN Kept(mk)
           ELSE Kept([mk EXCEPT !.present = TRUE, !.high = e.size, !.secret = secret])
      ELSE IF ~grown.awaiting THEN Kept(grown)
      ELSE IF grown.conf # e.cursorOff
      THEN IF grown.conf > e.cursorOff /\ e.accepted < grown.high
           THEN Kept([grown EXCEPT !.awaiting = FALSE]) ELSE Closed
      ELSE IF e.acceptedSecret = secret /\ e.size = e.accepted /\ e.accepted = grown.high
      THEN Cleared
      ELSE IF e.accepted < grown.high THEN Kept([grown EXCEPT !.awaiting = FALSE])
      ELSE IF e.acceptedSecret # secret THEN Closed
      ELSE Kept(grown)

ArmStableSourceAfterAck(mk, pay) ==
  IF \/ mk.fp # pay.fp \/ mk.secret # pay.secret \/ pay.size < mk.high
     \/ pay.next > pay.size
  THEN Closed
  ELSE Kept([mk EXCEPT !.high = pay.size, !.awaiting = TRUE, !.conf = pay.next])

\* Persisting a marker: a full table is closed for good by a tombstone.
MarkerCount(d) == Cardinality({k \in Logs : d.marker[k].present})
PersistMarker(x, k, mk) ==
  IF x.d.tombstone THEN [x EXCEPT !.m.failClosed = TRUE]
  ELSE IF ~x.d.marker[k].present /\ MarkerCount(x.d) >= MaxMarkers
  THEN [x EXCEPT !.d.tombstone = TRUE, !.m.failClosed = TRUE]
  ELSE [x EXCEPT !.d.marker[k] = mk]

Quarantine(x) == [x EXCEPT !.m.redacted = TRUE]
FailClosed(x) == [Quarantine(x) EXCEPT !.m.failClosed = TRUE]

\* x is the pair of memory and settings; the range is what this scan would
\* send, or the empty one at the end of the log.
ReconcileTransition(x, k, r) ==
  LET mk == x.d.marker[k]
      cur == x.d.cursor[k]
      rebindSafe == mk.present /\ ~mk.awaiting /\ (mk.fp # r.fp \/ ~r.matches)
      e == [rebindSafe |-> rebindSafe,
            identity |-> mk.fp = r.fp /\ (mk.awaiting \/ mk.off = cur.off),
            cursorMatches |-> r.matches,
            cursorOff |-> cur.off,
            acceptedSecret |-> cur.secret,
            size |-> r.size,
            accepted |-> IF rebindSafe \/ ~mk.present THEN r.off ELSE cur.off]
      t == AdvanceSecretTransition(mk, e, r.secret)
  IN  IF x.d.tombstone THEN FailClosed(x)
      ELSE IF ~mk.present /\ cur.secret = r.secret THEN x
      ELSE IF t.closed THEN FailClosed(x)
      ELSE IF t.clear THEN [x EXCEPT !.d.marker[k] = NoMarker]
      ELSE IF ~t.marker.present THEN x
      ELSE Quarantine(PersistMarker(x, k, [t.marker EXCEPT !.fp = r.fp, !.off = r.off,
                                                           !.conf = IF t.marker.awaiting THEN @ ELSE -1]))

(***************************************************************************)
(* Collecting the payload of one log.                                      *)
(***************************************************************************)
Fingerprint(k, fb) == <<src[k].gen, fb>>
InitialOffset(size) == IF size > Batch THEN size - Batch ELSE 0

\* Where the next range starts, and whether the saved cursor belongs to the
\* file that is there now.
Position(x, k) ==
  LET cur == x.d.cursor[k]
      size == Size(k)
      fb == IF cur.fb > 0 THEN Least(cur.fb, size) ELSE Least(Sample, size)
      matches == cur.off \in 0..size /\ cur.fp = Fingerprint(k, fb)
      fb2 == IF matches THEN fb ELSE Least(Sample, size)
      scan == x.m.scan[k]
      off == IF matches THEN cur.off
             ELSE IF scan.fp = Fingerprint(k, fb2) /\ scan.target <= size /\ scan # NoScan
             THEN scan.target ELSE InitialOffset(size)
  IN  [size |-> size, matches |-> matches, fb |-> fb2, fp |-> Fingerprint(k, fb2),
       off |-> off, secret |-> x.m.token]

\* The sanitizer's state at the start of the range is known from the cursor
\* or found by reading the log from its start, a tick at a time.
AdvanceStateScan(x, k, r) ==
  LET scan == IF x.m.scan[k].fp = r.fp /\ x.m.scan[k].target = r.off
              THEN x.m.scan[k] ELSE [NoScan EXCEPT !.fp = r.fp, !.target = r.off]
  IN  [x EXCEPT !.m.scan[k] = IF r.off = 0 THEN NoScan
                              ELSE [scan EXCEPT !.pos = Least(@ + ScanTick, r.off)]]
ScanDone(x, k, r) == r.off = 0 \/ x.m.scan[k].pos = r.off

CellsOf(k, from, to) ==
  {[kind |-> k, gen |-> src[k].gen, pos |-> i, secret |-> src[k].cells[i + 1]] : i \in from..(to - 1)}

Payload(x, k, r) ==
  LET next == Least(r.off + Batch, r.size)
      raw == ~(x.m.redacted \/ x.m.failClosed)
  IN  [kind |-> k, off |-> r.off, next |-> next, size |-> r.size, fp |-> r.fp, fb |-> r.fb,
       secret |-> r.secret, more |-> next < r.size, advances |-> TRUE,
       base |-> IF r.matches THEN x.d.cursor[k].base ELSE r.off,
       body |-> [raw |-> raw, secret |-> r.secret], cells |-> CellsOf(k, r.off, next)]

\* m_collectionWholeRedactionUsed is one flag for the whole collection, but a
\* payload is redacted by its own log's transition: "own" isolates it.
PayloadAt(x, k, r) ==
  LET scanned == IF r.matches THEN x ELSE AdvanceStateScan(x, k, r)
      own == [scanned EXCEPT !.m.redacted = FALSE]
      y == IF x.m.failClosed THEN FailClosed(own) ELSE ReconcileTransition(own, k, r)
      done == [y EXCEPT !.m.redacted = @ \/ x.m.redacted]
      ended == IF x.d.tombstone \/ x.d.marker[k].present THEN ReconcileTransition(x, k, r) ELSE x
  IN  CASE r.off >= r.size -> [ended EXCEPT !.m.captured[k] = r.size]
        [] r.off < r.size /\ ~r.matches /\ ~ScanDone(scanned, k, r) ->
             [scanned EXCEPT !.m.scanning = TRUE, !.m.readable = FALSE]
        [] OTHER -> [done EXCEPT !.m.pending = Append(@, Payload(y, k, r)), !.m.captured[k] = r.size]

PayloadFromFile(x, k) == PayloadAt(x, k, Position(x, k))

\* The logs that can be opened are collected in their order.
CollectPayloads(x, open) ==
  FoldLeft(LAMBDA y, k : IF k \in open THEN PayloadFromFile(y, k) ELSE [y EXCEPT !.m.readable = FALSE],
           [x EXCEPT !.m.pending = <<>>, !.m.readable = TRUE, !.m.scanning = FALSE,
                     !.m.redacted = FALSE], Kinds)

(***************************************************************************)
(* Health and retries.                                                     *)
(***************************************************************************)
RecordFailure(m) == [m EXCEPT !.failed = TRUE, !.state = "Error", !.retry = TRUE]
ClearRetry(m) == [m EXCEPT !.retry = FALSE]

MarkUploadSuccess(m) ==
  IF m.failClosed \/ m.redacted THEN RecordFailure(m)
  ELSE IF m.failed THEN m ELSE ClearRetry(m)

CanBecomeHealthy(m) ==
  ~m.failed /\ m.readable /\ ~m.scanning /\ ~m.requested /\ ~m.failClosed /\ ~m.redacted

FinishUpload(m) ==
  [m EXCEPT !.phase = "idle", !.requested = FALSE, !.pending = <<>>, !.failed = FALSE,
            !.redacted = FALSE, !.readable = FALSE, !.scanning = FALSE, !.token = 0, !.armed = FALSE,
            !.state = IF m.failed THEN "Error" ELSE IF CanBecomeHealthy(m) THEN "Healthy" ELSE @,
            !.queued = @ \/ (m.requested /\ ~m.retry)]

UploadNow(m) ==
  IF m.retry THEN m
  ELSE IF m.phase # "idle" THEN [m EXCEPT !.requested = TRUE]
  ELSE [m EXCEPT !.phase = "snapshot", !.stale = FALSE, !.captured = [k \in Logs |-> 0]]

\* A stale batch matters only while one is running.
RetryNow(m) ==
  IF m.phase # "idle" THEN [m EXCEPT !.requested = TRUE, !.retry = FALSE]
  ELSE [m EXCEPT !.queued = TRUE, !.retry = FALSE]

(***************************************************************************)
(* Sending.  A request carries the batch id derived from the range and the *)
(* content, and the token of the target.                                   *)
(***************************************************************************)
UploadRequest(m) ==
  LET p == Head(m.pending)
  IN  [batch |-> <<p.kind, p.fp, p.off, p.next, p.body>>, body |-> p.body, cells |-> p.cells,
       token |-> m.token]

Heartbeat == [kind |-> "client", off |-> 0, next |-> 0, size |-> 0, fp |-> NoFp, fb |-> 0,
              secret |-> 0, more |-> FALSE, advances |-> FALSE, base |-> 0,
              body |-> [raw |-> FALSE, secret |-> 0], cells |-> {}]

\* The target is looked up again before every request: a batch whose
\* connection or token is not current any more is dropped and run again.
PostNext(m, d) ==
  LET silent == [wire EXCEPT !.live = {}, !.answer = 0]
  IN  /\ kept' = d
      /\ IF m.pending = <<>> THEN up' = FinishUpload(m) /\ wire' = silent
         ELSE IF m.stale \/ d.token # m.token
         THEN up' = FinishUpload([m EXCEPT !.requested = TRUE]) /\ wire' = silent
         ELSE up' = [m EXCEPT !.phase = "post", !.armed = FALSE] /\ wire' = [silent EXCEPT !.live = {UploadRequest(m)}]

(***************************************************************************)
(* The handlers.  They run one at a time on the client's main thread.      *)
(***************************************************************************)
Ready == ~up.armed

Trigger ==
  /\ Ready
  /\ \/ up.queued /\ up' = UploadNow([up EXCEPT !.queued = FALSE])
     \/ up.retry /\ up' = UploadNow(ClearRetry(up))
     \/ ~up.retry /\ ~up.queued /\ up.phase = "idle" /\ up' = UploadNow(up)
  /\ UNCHANGED <<src, kept, vpn, col, wire, budget>>

\* connectionContextChanged and edited servers restart the work.
ContextChanged ==
  /\ Ready /\ vpn.signal
  /\ vpn' = [vpn EXCEPT !.signal = FALSE]
  /\ up' = RetryNow([up EXCEPT !.stale = TRUE])
  /\ UNCHANGED <<src, kept, col, wire, budget>>

AfterSnapshot == [up EXCEPT !.phase = "idle", !.requested = FALSE]
Rerun(m) == IF up.requested THEN [m EXCEPT !.queued = TRUE] ELSE m

SnapshotFailed ==
  /\ Ready /\ up.phase = "snapshot"
  /\ kept' = kept /\ wire' = wire
  /\ \/ up.stale /\ up' = [AfterSnapshot EXCEPT !.queued = TRUE] /\ UNCHANGED budget
     \/ ~up.stale /\ Spend("events")
        /\ up' = IF up.requested THEN RetryNow(RecordFailure(AfterSnapshot)) ELSE RecordFailure(AfterSnapshot)
  /\ UNCHANGED <<src, vpn, col>>

NotConnected ==
  /\ Ready /\ up.phase = "snapshot" /\ ~up.stale /\ ~vpn.connected
  /\ up' = Rerun([ClearRetry(AfterSnapshot) EXCEPT !.state = "WaitingForVpn"])
  /\ UNCHANGED <<src, kept, vpn, col, wire, budget>>

\* No token: it is requested, unless the last one was refused a moment ago.
NeedToken ==
  /\ Ready /\ up.phase = "snapshot" /\ ~up.stale /\ vpn.connected /\ kept.token = 0
  /\ up' = Rerun(IF up.wait THEN [AfterSnapshot EXCEPT !.retry = TRUE, !.wait = FALSE]
                 ELSE [AfterSnapshot EXCEPT !.phase = "boot", !.state = "Uploading"])
  /\ UNCHANGED <<src, kept, vpn, col, wire, budget>>

\* Whole redaction, and a log that cannot be read, count as failures.
Judged(m) ==
  LET red == IF m.failClosed \/ m.redacted THEN RecordFailure(m) ELSE m
  IN  IF ~m.readable /\ ~m.scanning THEN RecordFailure(red) ELSE red

Collect(open) ==
  /\ Ready /\ up.phase = "snapshot" /\ ~up.stale /\ vpn.connected /\ kept.token # 0
  /\ \E x \in {CollectPayloads([m |-> [AfterSnapshot EXCEPT !.failed = FALSE, !.token = kept.token],
                                d |-> kept], open)} :
     \E m \in {Judged(x.m)} :
       IF m.pending = <<>> /\ ~m.readable
       THEN /\ up' = Rerun(IF m.scanning THEN [m EXCEPT !.queued = TRUE, !.state = "Uploading"] ELSE m)
            /\ kept' = x.d /\ wire' = wire
       ELSE PostNext(Rerun([m EXCEPT !.state = "Uploading", !.requested = x.m.scanning,
                                     !.pending = IF m.pending = <<>> THEN <<Heartbeat>> ELSE m.pending]), x.d)
  /\ UNCHANGED <<src, vpn, col>>

CollectAll == Collect(Logs) /\ UNCHANGED budget
CollectSome == \E k \in Logs : Collect(Logs \ {k}) /\ Spend("events")

BootstrapAnswer ==
  /\ Ready /\ up.phase = "boot"
  /\ LET done == [up EXCEPT !.phase = "idle", !.requested = FALSE]
     IN  \/ /\ kept' = [kept EXCEPT !.token = Bootstrap(col).token]
            /\ up' = [ClearRetry(done) EXCEPT !.queued = TRUE]
            /\ UNCHANGED budget
         \/ Spend("events") /\ kept' = kept /\ up' = Rerun(RecordFailure(done))
  /\ UNCHANGED <<src, vpn, col, wire>>

\* An acknowledged range: the marker is armed first, then the cursor moves.
Acked == Ready /\ up.phase = "post" /\ wire.answer = 204
Current == Head(up.pending)

ArmMarker(x, p) ==
  LET mk == x.d.marker[p.kind]
      t == ArmStableSourceAfterAck(mk, p)
  IN  IF x.d.tombstone THEN FailClosed(x)
      ELSE IF ~mk.present THEN x
      ELSE IF t.closed THEN FailClosed(x)
      ELSE Quarantine(PersistMarker(x, p.kind, t.marker))

Arm ==
  LET x == ArmMarker([m |-> up, d |-> kept], Current)
  IN  /\ Acked /\ Current.advances
      /\ kept' = x.d /\ up' = [x.m EXCEPT !.armed = TRUE]
      /\ UNCHANGED <<src, vpn, col, wire, budget>>

NextCursor(p) ==
  [off |-> p.next, fp |-> p.fp, fb |-> p.fb, secret |-> p.secret, base |-> p.base]

\* The rest of the batch goes on only while nothing failed.
Continue(m, d) ==
  LET rest == [m EXCEPT !.pending = Tail(@), !.armed = FALSE]
  IN  PostNext(IF m.failClosed THEN [rest EXCEPT !.pending = <<>>] ELSE rest, d)

Succeeded(m, p) ==
  LET good == MarkUploadSuccess(m) IN IF p.more THEN [good EXCEPT !.requested = TRUE] ELSE good

CursorFailed(m) == [RecordFailure(m) EXCEPT !.failClosed = TRUE, !.requested = TRUE]

MoveCursor ==
  /\ up.armed
  /\ \/ /\ ~up.failClosed /\ UNCHANGED budget
        /\ Continue(Succeeded([up EXCEPT !.scan[Current.kind] = NoScan], Current),
                    [kept EXCEPT !.cursor[Current.kind] = NextCursor(Current)])
     \/ up.failClosed /\ UNCHANGED budget /\ Continue(CursorFailed(up), kept)
     \/ ~up.failClosed /\ Spend("events") /\ Continue(CursorFailed(up), kept)
  /\ UNCHANGED <<src, vpn, col>>

HeartbeatAcked ==
  /\ Acked /\ ~Current.advances
  /\ Continue(MarkUploadSuccess(up), kept)
  /\ UNCHANGED <<src, vpn, col, budget>>

\* A refused token: every range of this batch is marked before the token is
\* forgotten; then a new one is requested.
Retain(x, p) ==
  LET mk == x.d.marker[p.kind]
      high == IF mk.present /\ mk.high > p.size THEN mk.high ELSE p.size
      new == [present |-> TRUE, fp |-> p.fp, off |-> p.off, high |-> high,
              secret |-> p.secret, awaiting |-> FALSE, conf |-> -1]
  IN  IF ~p.advances THEN x
      ELSE IF mk.present /\ mk.fp # p.fp THEN FailClosed(x)
      ELSE Quarantine(PersistMarker(x, p.kind, new))

Refused ==
  LET x == FoldLeft(Retain, [m |-> [up EXCEPT !.failClosed = FALSE], d |-> kept], up.pending)
      closed == up.failClosed \/ x.m.failClosed
      m == RecordFailure([x.m EXCEPT !.failClosed = closed, !.pending = <<>>,
                                     !.requested = @ \/ ~x.m.failClosed, !.wait = ~x.m.failClosed])
  IN  /\ Ready /\ up.phase = "post" /\ wire.answer = 403
      /\ PostNext(m, IF x.m.failClosed THEN x.d ELSE [x.d EXCEPT !.token = 0])
      /\ UNCHANGED <<src, vpn, col, budget>>

\* Any other answer, or none: the batch ends and the cursors stay.
UploadFailed ==
  /\ Ready /\ up.phase = "post"
  /\ \/ wire.answer \notin {0, 204, 403} /\ UNCHANGED budget
     \/ wire.answer \in {0, 204} /\ Spend("events")
  /\ kept' = kept
  /\ up' = FinishUpload(RecordFailure([up EXCEPT !.pending = <<>>]))
  /\ \E late \in {wire.late, wire.live} : wire' = [live |-> {}, late |-> late, answer |-> 0]
  /\ UNCHANGED <<src, vpn, col>>

ClientCrash ==
  /\ Spend("events")
  /\ up' = Memory
  /\ wire' = [live |-> {}, late |-> wire.live, answer |-> 0]
  /\ vpn' = [connected |-> FALSE, signal |-> FALSE]
  /\ UNCHANGED <<src, kept, col>>

(***************************************************************************)
(* The writers of the logs, the tunnel and the collector.                  *)
(***************************************************************************)
Write(k) ==
  /\ Spend("cells")
  /\ src' = [src EXCEPT ![k].cells = Append(@, kept.token)]
  /\ UNCHANGED <<kept, up, vpn, col, wire>>

RotateLog(k) ==
  /\ Spend("events")
  /\ src' = [src EXCEPT ![k] = [gen |-> @.gen + 1, cells |-> <<>>]]
  /\ UNCHANGED <<kept, up, vpn, col, wire>>

Tunnel ==
  /\ IF vpn.connected THEN Spend("events") ELSE UNCHANGED budget
  /\ vpn' = [connected |-> ~vpn.connected, signal |-> TRUE]
  /\ UNCHANGED <<src, kept, up, col, wire>>

UploaderStep ==
  \/ Trigger \/ ContextChanged \/ SnapshotFailed \/ NotConnected \/ NeedToken
  \/ CollectAll \/ CollectSome \/ BootstrapAnswer \/ Arm \/ MoveCursor \/ HeartbeatAcked
  \/ Refused \/ UploadFailed

LogUploaderNext ==
  UploaderStep \/ ClientCrash \/ Tunnel \/ \E k \in Logs : Write(k) \/ RotateLog(k)
=============================================================================
