---------------------------- MODULE LogDelivery ----------------------------
(***************************************************************************)
(* Log delivery end to end: one producer, the desktop client or the        *)
(* headless daemon, and its share of the collector.  Clients of one        *)
(* collector have their own tokens, locks, files and receipts, so one      *)
(* producer at a time says all there is to say about them.                 *)
(***************************************************************************)
EXTENDS LogUploader, HeadlessLogUploader

VARIABLE producer   \* which program this installation runs

vars == <<clientVars, headlessVars, collectorVars, producer>>

Init ==
  /\ producer \in {"desktop", "headless"}
  /\ LogUploaderInit /\ HeadlessInit /\ CollectorInit

DesktopStep == producer = "desktop" /\ LogUploaderNext /\ UNCHANGED <<headlessVars, producer>>
DaemonStep == producer = "headless" /\ HeadlessNext /\ UNCHANGED <<clientVars, producer>>
StoreStep == CollectorStep /\ UNCHANGED <<clientVars, headlessVars, producer>>

Next == DesktopStep \/ DaemonStep \/ StoreStep

Spec == Init /\ [][Next]_vars

(***************************************************************************)
(* What lies behind a cursor was received: every cell between the point    *)
(* where a log was first (or last) taken up and the durable cursor reached  *)
(* the collector's store (remoteLogUploader.cpp: postNext of the desktop,  *)
(* poll of the daemon).  Lost answers, crashes and token changes included. *)
(***************************************************************************)
DesktopDelivered ==
  \A k \in Logs : LET c == kept.cursor[k] IN
    \A i \in c.base..(c.off - 1) : \E cell \in col.ever : cell.kind = k /\ cell.gen = c.fp[1] /\ cell.pos = i

HeadlessDelivered ==
  saved.state # NoFile =>
    \A i \in saved.state.base..(saved.state.off - 1) :
      \E cell \in col.ever : cell.kind = "headless" /\ cell.gen = saved.state.fp[2] /\ cell.pos = i

DeliveredBehindCursor == DesktopDelivered /\ HeadlessDelivered

(***************************************************************************)
(* A log is sent unredacted only under the secret set it was written       *)
(* under: a cell written while another token was live never leaves in a     *)
(* payload that was sanitized for the new one only.                         *)
(***************************************************************************)
SanitizedUnderOwnSecret ==
  \A i \in 1..Len(col.files) : LET f == col.files[i] IN
    f.body.raw => \A cell \in f.cells : cell.secret \in {0, f.body.secret}

(***************************************************************************)
(* What left the machine is exactly what the cursor passed, redacted as it *)
(* had to be, for both uploaders.                                          *)
(***************************************************************************)
DeliveryIsExact == DeliveredBehindCursor /\ SanitizedUnderOwnSecret

-----------------------------------------------------------------------------
\* The instance that is checked: two desktop logs, two cells to write, a payload
\* of one cell, so that the second cell of a log is past the tail a new log
\* starts with.
TwoLogs == <<"client", "service">>
SmallBounds == [cells |-> 2, growth |-> 3, events |-> 2]
=============================================================================
