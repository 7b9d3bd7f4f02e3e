---------------------------- MODULE LogCollector ----------------------------
(***************************************************************************)
(* The native log collector that runs beside the VPN server                *)
(* (client/server_scripts/client_logs/native).  One client's share of the  *)
(* store: the token it authenticates with, its log files in order of age   *)
(* and its batch receipts in order of acceptance.  Requests of one client  *)
(* are serialised by the client's lock file, so an upload is one step whose *)
(* outcome says how far it got: a failure or a crash after the rename      *)
(* leaves the file without its receipt.                                    *)
(***************************************************************************)
EXTENDS Naturals, Sequences, FiniteSets, SequencesExt

CONSTANTS MaxFiles,     \* client_files and total_files: logs kept for a client
          MaxReceipts,  \* client_receipts
          MaxToken,     \* bound: how many tokens the operator ever issues
          Bounds        \* bounds on what the environment does, by kind of event

ASSUME CollectorAssumption == MaxFiles \in Nat \ {0} /\ MaxReceipts \in Nat \ {0} /\ MaxToken \in Nat \ {0}

VARIABLES col,     \* the store
          wire,    \* the request on its way, one whose sender gave up, the answer
          budget   \* what is left of the bounds

collectorVars == <<col, wire, budget>>
Spend(f) == budget[f] > 0 /\ budget' = [budget EXCEPT ![f] = @ - 1]

\* A stored log: the batch id in its name, its content and, for the
\* properties only, the log cells the content stands for.
Stored(req) == [batch |-> req.batch, body |-> req.body, cells |-> req.cells]

\* "ever" is history: every cell that was once renamed into the store.
CollectorInit ==
  /\ col = [token |-> 1, files |-> <<>>, receipts |-> <<>>, ever |-> {}]
  /\ wire = [live |-> {}, late |-> {}, answer |-> 0]
  /\ budget = Bounds

Authenticate(c, req) == req.token = c.token

Receipt(c, batch) == {r \in ToSet(c.receipts) : r.batch = batch}
LogFiles(c, batch) == {f \in ToSet(c.files) : f.batch = batch}

\* The last n entries: what a bound on a table ordered by age keeps.
Newest(s, n) == IF Len(s) > n THEN SubSeq(s, Len(s) - n + 1, Len(s)) ELSE s

Record(c, req) ==
  [c EXCEPT !.receipts = Newest(Append(@, [batch |-> req.batch, body |-> req.body]), MaxReceipts)]

\* Room for one more file is made before the rename, oldest files first.
Reserve(c) == [c EXCEPT !.files = Newest(@, MaxFiles - 1)]

Rename(c, req) ==
  [c EXCEPT !.files = Append(@, Stored(req)), !.ever = @ \cup req.cells]

PruneClient(c) == [c EXCEPT !.files = Newest(@, MaxFiles)]

Outcome(c, status) == [col |-> c, status |-> status]

\* A batch that has a receipt, or a file whose receipt is missing, is
\* compared with what was accepted before; an equal one is acknowledged again
\* and its receipt completed.
Replay(c, req) ==
  LET known == IF Receipt(c, req.batch) # {} THEN Receipt(c, req.batch) ELSE LogFiles(c, req.batch)
  IN  IF \E k \in known : k.body # req.body
      THEN {Outcome(c, 409)}
      ELSE {Outcome(IF Receipt(c, req.batch) # {} THEN c ELSE Record(c, req), 204)}

\* A new batch.  503: no upload slot or body buffer; 500: a step of the write
\* failed, before the rename, between the rename and the receipt, or in the
\* maintenance that follows.
Store(c, req) ==
  LET renamed == Rename(Reserve(c), req)
      stored == PruneClient(Record(renamed, req))
  IN  {Outcome(c, 503), Outcome(c, 500), Outcome(Reserve(c), 500),
       Outcome(renamed, 500), Outcome(stored, 500), Outcome(stored, 204)}

UploadUnlisted(c, req) ==
  IF ~Authenticate(c, req) THEN {Outcome(c, 403)}
  ELSE IF Receipt(c, req.batch) # {} THEN Replay(c, req)
  ELSE Store(c, req)

Upload(c, req) ==
  IF ~Authenticate(c, req) THEN {Outcome(c, 403)}
  ELSE IF Receipt(c, req.batch) \cup LogFiles(c, req.batch) # {} THEN Replay(c, req)
  ELSE Store(c, req)

\* The token is read, never replaced, for a client that already has one.
Bootstrap(c) == [status |-> 200, token |-> c.token]

\* Retention by age, every hour or at a start: the oldest file or receipt.
Maintenance(c) ==
  {[c EXCEPT !.files = Tail(@)] : x \in {1} \cap 1..Len(c.files)}
    \cup {[c EXCEPT !.receipts = Tail(@)] : x \in {1} \cap 1..Len(c.receipts)}

\* The operator provisions the client again: a new random token.
Rotate(c) == {[c EXCEPT !.token = @ + 1] : x \in {c.token} \cap 1..(MaxToken - 1)}

Serve ==
  /\ wire.live # {} /\ wire.answer = 0
  /\ \E req \in wire.live : \E o \in Upload(col, req) :
       /\ o.status \in {500, 503} => budget.events > 0
       /\ budget' = IF o.status \in {500, 503} THEN [budget EXCEPT !.events = @ - 1] ELSE budget
       /\ col' = o.col
       /\ wire' = [wire EXCEPT !.answer = o.status]

\* A request whose sender gave up is still served when it arrives.
ServeLate ==
  /\ \E req \in wire.late : \E o \in Upload(col, req) : col' = o.col
  /\ wire' = [wire EXCEPT !.late = {}]
  /\ UNCHANGED budget

Upkeep == Spend("events") /\ col' \in Maintenance(col) \cup Rotate(col) /\ UNCHANGED wire

CollectorStep == Serve \/ ServeLate \/ Upkeep

(***************************************************************************)
(* One batch is stored once: a retry after a lost answer, an error or a    *)
(* crash between the rename and the receipt finds the first copy           *)
(* (collector_store.cpp, upload).                                          *)
(***************************************************************************)
StoredOnce ==
  \A i, j \in 1..Len(col.files) : col.files[i].batch = col.files[j].batch => i = j
=============================================================================
