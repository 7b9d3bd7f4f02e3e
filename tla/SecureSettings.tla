--------------------------- MODULE SecureSettings ---------------------------
(***************************************************************************)
(* The client's settings: QSettings behind an encrypting layer whose key   *)
(* and IV live in the system keychain, reached through a broker that gives *)
(* every native call a deadline (client/secureQSettings), and the two      *)
(* repositories that keep the servers and the updater's anti-replay floor  *)
(* in them (client/core/repositories).                                     *)
(*                                                                         *)
(* A public operation is a list of tasks run under the object's mutex; a   *)
(* task that needs the key material talks to the keychain first.  A crash  *)
(* may fall between any two calls of the keychain or of the disk.          *)
(***************************************************************************)
EXTENDS Naturals, Sequences, FiniteSets

CONSTANTS Servers,        \* the servers a user may add
          Payloads,       \* the payloads a release generation may be signed with
          MaxGeneration,  \* bound: generations the update server reaches
          MaxMaterial,    \* bound: keys and IVs ever generated
          MaxStarts,      \* bound: starts of the client
          MaxEdits,       \* bound: operations the user and the updater ask for
          MaxFaults       \* bound: faults of the disk and of the keychain

ASSUME SettingsAssumption ==
    /\ Servers # {} /\ Payloads # {} /\ "" \notin Payloads
    /\ {MaxGeneration, MaxMaterial, MaxStarts, MaxEdits, MaxFaults} \subseteq Nat

Keys == {"servers", "journal", "floor", "digest", "default", "marker"}

isEncryptedSetting(k) == k \in {"servers", "journal"}
isLocalOnlySetting(k) == k \in {"journal", "floor", "digest"}
requiresDurableWrite(k) == isLocalOnlySetting(k) \/ k = "servers"
isRetainedAcrossSettingsClear(k) == k \in {"journal", "floor", "digest"}

Tags == {"key", "iv"}

CreatesAnyway(encryptedPayloadExists) == TRUE
keychainMaterialCreationAllowed(encryptedPayloadExists) == ~encryptedPayloadExists

VARIABLES
    disk,      \* key -> what the settings file holds
    mem,       \* key -> what QSettings holds, written or not
    chain,     \* [key, iv] -> the material the keychain holds, 0 for none
    away,      \* the keychain answers EntryNotFound for entries it will show again
    app,       \* the process: the SecureQSettings object, its broker and repositories
    late,      \* a keychain write whose caller gave up waiting
    file,      \* the backup the user saved
    owed,      \* ghost: servers saved, not removed since
    accepted,  \* ghost: the (generation, payload) pairs the updater accepted, in order
    made, starts, edits, faults

settingsVars == <<disk, mem, chain, away, app, late, file, owed, accepted, made, starts, edits, faults>>
world == <<chain, away, late, file, made, starts, edits>>

Absent == [form |-> "absent"]
Plain(v) == [form |-> "plain", v |-> v]
Encrypted(v, m) == [form |-> "enc", v |-> v, by |-> m]

\* A cached value, the invalid one that makes callers fail closed, or none.
NoCache == [state |-> "none"]
Invalid == [state |-> "invalid"]
Cached(v) == [state |-> "valid", v |-> v]

NoTag == "none"
Idle == [tasks |-> <<>>, step |-> "task", tag |-> NoTag, create |-> FALSE, fresh |-> 0]
Running(tasks) == [Idle EXCEPT !.tasks = tasks]

Down == [up |-> FALSE, mat |-> [t \in Tags |-> 0], tried |-> [t \in Tags |-> FALSE],
         broken |-> FALSE, bad |-> FALSE, unreset |-> FALSE, cache |-> [k \in Keys |-> NoCache],
         list |-> {}, default |-> {}, observed |-> 0, call |-> Idle]

get(k) == [do |-> "get", key |-> k]
set(k, v) == [do |-> "set", key |-> k, v |-> v, owe |-> {}]
save(v, owe) == [do |-> "set", key |-> "servers", v |-> v, owe |-> owe]
bind(g, p) == [do |-> "bind", g |-> g, p |-> p]
Just(what) == [do |-> what]

SettingsInit ==
    \* A fresh installation, or one of before settings were encrypted.
    /\ disk \in {[k \in Keys |-> Absent],
                 [k \in Keys |-> IF k = "servers" THEN Plain({CHOOSE s \in Servers : TRUE}) ELSE Absent]}
    /\ mem = disk
    /\ chain = [t \in Tags |-> 0] /\ away = FALSE
    /\ app = Down /\ late = <<>> /\ file = [saved |-> FALSE, has |-> FALSE, list |-> {}]
    /\ owed = IF disk["servers"] = Absent THEN {} ELSE disk["servers"].v
    /\ accepted = <<>>
    /\ made = 0 /\ starts = 0 /\ edits = 0 /\ faults = 0

-----------------------------------------------------------------------------
(* Reading what is stored. *)

hasEncryptedPayloads == \E k \in Keys : isEncryptedSetting(k) /\ mem[k].form = "enc"

\* decryptText of a stored value with the material this process holds.
decryptText(stored) ==
    IF stored.by = app.mat THEN Cached(stored.v) ELSE Invalid

\* The value a key that needs no material reads as.
Seen(k) ==
    IF app.cache[k] # NoCache THEN app.cache[k]
    ELSE IF mem[k] = Absent THEN NoCache ELSE Cached(mem[k].v)

Or(seen, d) == IF seen.state = "valid" THEN seen.v ELSE d

lastAcceptedPolicyGeneration == Or(Seen("floor"), 0)
lastAcceptedPolicyPayload == Or(Seen("digest"), "")

Head1 == Head(app.call.tasks)
Rest == [Idle EXCEPT !.tasks = Tail(app.call.tasks)]
Busy == app.up /\ app.call.tasks # <<>>
At(step) == Busy /\ app.call.step = step

\* Whether a task must have the key and the IV before it can go on.
NeedsMaterial(t) ==
    CASE t.do = "get" -> app.cache[t.key] = NoCache /\ mem[t.key].form = "enc"
      [] t.do = "set" -> isEncryptedSetting(t.key)
      [] t.do = "migrate" -> \E k \in Keys : isEncryptedSetting(k) /\ mem[k] # Absent
      [] OTHER -> FALSE

StartTask ==
    /\ At("task")
    /\ app' = [app EXCEPT !.call =
           IF NeedsMaterial(Head1)
           THEN [@ EXCEPT !.step = "read", !.tag = "key",
                          !.create = Head1.do # "get"
                                     /\ keychainMaterialCreationAllowed(hasEncryptedPayloads)]
           ELSE [@ EXCEPT !.step = "run"]]
    /\ UNCHANGED <<disk, mem, owed, accepted, faults, world>>

-----------------------------------------------------------------------------
(* getEncKey and getEncIv over the broker.  A call that is not answered    *)
(* before its deadline closes the broker for the life of the process.      *)

Tag == app.call.tag
Refused(a) == [a EXCEPT !.call.step = "refused"]
Obtained(a) == [a EXCEPT !.call.step = IF Tag = "key" THEN "read" ELSE "run",
                         !.call.tag = IF Tag = "key" THEN "iv" ELSE NoTag]
Shown == IF away THEN 0 ELSE chain[Tag]
Fault == faults < MaxFaults /\ faults' = faults + 1

\* What is already known: the material, or that it was asked for in vain.
Remembered ==
    /\ At("read") /\ (app.mat[Tag] # 0 \/ app.tried[Tag])
    /\ app' = IF app.mat[Tag] # 0 THEN Obtained(app) ELSE Refused(app)
    /\ UNCHANGED <<disk, mem, owed, accepted, faults, world>>

ReadAnswered ==
    /\ At("read") /\ app.mat[Tag] = 0 /\ ~app.tried[Tag]
    /\ LET a == [app EXCEPT !.tried[Tag] = TRUE] IN
       app' = IF app.broken THEN Refused(a)
              ELSE IF Shown # 0 THEN Obtained([a EXCEPT !.mat[Tag] = Shown])
              ELSE IF app.call.create THEN [a EXCEPT !.call.step = "write"]
              ELSE Refused(a)
    /\ UNCHANGED <<disk, mem, owed, accepted, faults, world>>

\* The backend reports an error, or does not answer in time.
ReadFails ==
    /\ At("read") /\ app.mat[Tag] = 0 /\ ~app.tried[Tag] /\ ~app.broken /\ Fault
    /\ \E broken \in BOOLEAN :
          app' = Refused([app EXCEPT !.tried[Tag] = TRUE, !.broken = broken])
    /\ UNCHANGED <<disk, mem, owed, accepted, world>>

WriteAnswered ==
    /\ At("write") /\ made < MaxMaterial
    /\ made' = made + 1
    /\ chain' = [chain EXCEPT ![Tag] = made']
    /\ app' = [app EXCEPT !.call.step = "verify", !.call.fresh = made']
    /\ UNCHANGED <<disk, mem, away, late, file, owed, accepted, starts, edits, faults>>

\* An error, or a deadline: then the native job still runs.
WriteFails ==
    /\ At("write") /\ made < MaxMaterial /\ Fault
    /\ made' = made + 1
    /\ \E broken \in BOOLEAN :
          /\ app' = Refused([app EXCEPT !.broken = broken])
          /\ late' = IF broken THEN <<[tag |-> Tag, v |-> made']>> ELSE late
    /\ UNCHANGED <<disk, mem, chain, away, file, owed, accepted, starts, edits>>

VerifyAnswered ==
    /\ At("verify")
    /\ LET a == [app EXCEPT !.mat[Tag] = Shown] IN
       app' = IF Shown = app.call.fresh THEN Obtained(a) ELSE Refused(a)
    /\ UNCHANGED <<disk, mem, owed, accepted, faults, world>>

VerifyFails ==
    /\ At("verify") /\ Fault
    /\ \E broken \in BOOLEAN : app' = Refused([app EXCEPT !.broken = broken])
    /\ UNCHANGED <<disk, mem, owed, accepted, world>>

\* The job of a write nobody waits for any more.
LateWrite ==
    /\ late # <<>>
    /\ chain' = [chain EXCEPT ![late[1].tag] = late[1].v] /\ late' = <<>>
    /\ UNCHANGED <<disk, mem, away, app, file, owed, accepted, made, starts, edits, faults>>

-----------------------------------------------------------------------------
(* The tasks. *)

\* QSettings::sync and status, which keeps the first error it met.
Sync(m, ok) ==
    /\ disk' = IF ok THEN m ELSE disk
    /\ mem' = m
    /\ IF ok THEN UNCHANGED faults ELSE Fault

\* loadFromStorage: an unreadable list is an empty one.  (Entries of a format
\* that only a later version writes would be skipped; Servers has none.)
loadFromStorage(a, seen) ==
    LET list == Or(seen, {})
        stored == Or(Seen("default"), {})
    IN  [a EXCEPT !.list = list,
                  !.default = IF stored \subseteq list /\ stored # {} THEN stored
                              ELSE IF list = {} THEN {} ELSE {CHOOSE s \in list : TRUE}]

\* value(): a read the material is missing for is not cached.  Nothing is owed
\* of a list that is read as empty because a write of it failed before.
Value ==
    /\ app.call.step \in {"run", "refused"} /\ Busy /\ Head1.do = "get"
    /\ LET k == Head1.key
           seen == IF app.cache[k] = NoCache /\ mem[k].form = "enc"
                   THEN IF app.call.step = "refused" THEN NoCache ELSE decryptText(mem[k])
                   ELSE Seen(k)
           a == [app EXCEPT !.cache[k] = seen, !.call = Rest]
       IN  /\ app' = IF k = "servers" THEN loadFromStorage(a, seen)
                     ELSE [a EXCEPT !.observed = Or(seen, 0)]
           /\ owed' = IF k = "servers" /\ app.bad /\ seen = Invalid THEN {} ELSE owed
    /\ UNCHANGED <<disk, mem, accepted, faults, world>>

Stored(k, v) == IF isEncryptedSetting(k) THEN Encrypted(v, app.mat) ELSE Plain(v)

SetValue ==
    /\ At("run") /\ Head1.do = "set"
    /\ LET k == Head1.key
           v == Head1.v
           m == [mem EXCEPT ![k] = Stored(k, v)]
       IN  IF requiresDurableWrite(k)
           THEN \E ok \in BOOLEAN :
                   LET a == [app EXCEPT !.bad = @ \/ ~ok]
                       c == IF a.bad THEN Invalid ELSE Cached(v)
                   IN  /\ Sync(m, ok)
                       /\ app' = [a EXCEPT !.cache[k] = c, !.call = Rest]
                       /\ owed' = IF k = "servers" /\ c # Invalid THEN Head1.owe ELSE owed
           ELSE /\ mem' = m /\ UNCHANGED <<disk, owed, faults>>
                /\ app' = [app EXCEPT !.cache[k] = Cached(v), !.call = Rest]
    /\ UNCHANGED <<accepted, world>>

\* No material: nothing is written, and the cache says so.
SetValueRefused ==
    /\ At("refused") /\ Head1.do = "set"
    /\ app' = [app EXCEPT !.cache[Head1.key] = Invalid, !.call = Rest]
    /\ UNCHANGED <<disk, mem, owed, accepted, faults, world>>

ClearStored ==
    /\ At("run") /\ Head1.do = "clear"
    /\ \E ok \in BOOLEAN :
          /\ Sync([k \in Keys |-> IF isRetainedAcrossSettingsClear(k) THEN mem[k] ELSE Absent], ok)
          /\ app' = [app EXCEPT !.bad = @ \/ ~ok, !.unreset = @ \/ ~ok,
                                !.cache = [k \in Keys |-> NoCache], !.call = Rest]
    /\ UNCHANGED <<owed, accepted, world>>

\* migrateEncryptedSettings: the payloads first, then the marker.
MigratePayloads ==
    /\ At("run") /\ Head1.do = "migrate"
    /\ \E ok \in BOOLEAN :
          /\ Sync([k \in Keys |-> IF isEncryptedSetting(k) /\ mem[k].form = "plain"
                                  THEN Encrypted(mem[k].v, app.mat) ELSE mem[k]], ok)
          /\ app' = [app EXCEPT !.bad = @ \/ ~ok,
                                !.call = IF ok THEN Rest ELSE [Rest EXCEPT !.tasks = Tail(@)]]
    /\ UNCHANGED <<owed, accepted, world>>

MigrateMarker ==
    /\ At("run") /\ Head1.do = "mark"
    /\ \E ok \in BOOLEAN :
          /\ Sync([mem EXCEPT !["marker"] = Plain(TRUE)], ok)
          /\ app' = [app EXCEPT !.bad = @ \/ ~ok, !.call = Rest]
    /\ UNCHANGED <<owed, accepted, world>>

MigrateRefused ==
    /\ At("refused") /\ Head1.do = "migrate"
    /\ app' = [app EXCEPT !.call = [Rest EXCEPT !.tasks = Tail(@)]]
    /\ UNCHANGED <<disk, mem, owed, accepted, faults, world>>

persistDefaultServerFields ==
    /\ At("run") /\ Head1.do = "persist"
    /\ LET d == IF app.list = {} THEN {}
                ELSE IF app.default \subseteq app.list /\ app.default # {} THEN app.default
                ELSE {CHOOSE s \in app.list : TRUE}
       IN  /\ mem' = [mem EXCEPT !["default"] = Plain(d)]
           /\ app' = [app EXCEPT !.default = d, !.cache["default"] = Cached(d), !.call = Rest]
    /\ UNCHANGED <<disk, owed, accepted, faults, world>>

\* The updater takes a release only when it reads its own floor back.
PersistedGeneration(g, p) == lastAcceptedPolicyGeneration = g
Persisted(g, p) == lastAcceptedPolicyGeneration = g /\ lastAcceptedPolicyPayload = p

\* What a process accepts after a reset it could not write is not counted:
\* the reset forgets that the floor was never written.
Accepted(g, p) == IF app.unreset THEN accepted ELSE Append(accepted, <<g, p>>)

Bound ==
    /\ At("run") /\ Head1.do = "bind"
    /\ app' = [app EXCEPT !.observed = IF Persisted(Head1.g, Head1.p) THEN Head1.g ELSE @, !.call = Rest]
    /\ accepted' = IF Persisted(Head1.g, Head1.p) THEN Accepted(Head1.g, Head1.p) ELSE accepted
    /\ UNCHANGED <<disk, mem, owed, faults, world>>

-----------------------------------------------------------------------------
(* The public operations. *)

Ready == app.up /\ app.call.tasks = <<>> /\ edits < MaxEdits
Ask(a, tasks) == app' = [a EXCEPT !.call = Running(tasks)] /\ edits' = edits + 1
Elsewhere == UNCHANGED <<disk, mem, chain, away, late, made, starts, faults>>

syncToStorage(list, owe) == <<save(list, owe), Just("persist")>>

AddServer ==
    /\ Ready /\ Elsewhere /\ UNCHANGED <<file, owed, accepted>>
    /\ \E s \in Servers \ app.list :
          Ask([app EXCEPT !.list = @ \cup {s}, !.default = IF @ = {} THEN {s} ELSE @],
              syncToStorage(app.list \cup {s}, owed \cup {s}))

\* editServer, compareAndSwapServer and the managed sites' writers save the
\* whole list again.
EditServer ==
    /\ Ready /\ Elsewhere /\ UNCHANGED <<file, owed, accepted>>
    /\ app.list # {} /\ Ask(app, syncToStorage(app.list, owed))

RemoveServer ==
    /\ Ready /\ Elsewhere /\ UNCHANGED <<file, accepted>>
    /\ \E s \in app.list :
          /\ owed' = owed \ {s}
          /\ Ask([app EXCEPT !.list = @ \ {s},
                             !.default = IF @ = {s} /\ app.list # {s}
                                         THEN {CHOOSE t \in app.list \ {s} : TRUE} ELSE @ \ {s}],
                 syncToStorage(app.list \ {s}, owed \ {s}))

SetDefaultServer ==
    /\ Ready /\ Elsewhere /\ UNCHANGED <<file, owed, accepted>>
    /\ \E s \in app.list : {s} # app.default /\ Ask([app EXCEPT !.default = {s}], <<Just("persist")>>)

WriteMigrationJournal ==
    /\ Ready /\ Elsewhere /\ UNCHANGED <<file, owed, accepted>>
    /\ Ask(app, <<set("journal", "written")>>)

\* clearSettings of the repository reads what must survive, clears, writes it
\* again, and the servers follow.
ClearSettings ==
    /\ Ready /\ Elsewhere /\ UNCHANGED <<file, accepted>>
    /\ owed' = {}
    /\ LET g == lastAcceptedPolicyGeneration
           p == lastAcceptedPolicyPayload
           again == IF g = 0 THEN <<>>
                    ELSE IF p = "" THEN <<set("floor", g)>>
                    ELSE <<set("floor", g), set("digest", p)>>
       IN  Ask([app EXCEPT !.list = {}, !.default = {}],
               <<Just("clear")>> \o again \o syncToStorage({}, {}))

\* A list that cannot be read is left out of the file, which is written anyway.
BackupAppConfig ==
    /\ Ready /\ Elsewhere /\ UNCHANGED <<owed, accepted>>
    /\ Ask(app, <<>>)
    /\ LET seen == app.cache["servers"] IN
       file' = [saved |-> TRUE, has |-> seen.state = "valid", list |-> Or(seen, {})]

\* The file's list replaces the stored one; keys of this installation alone
\* are skipped; then the repository loads again.
RestoreAppConfig ==
    /\ Ready /\ Elsewhere /\ UNCHANGED <<file, accepted>>
    /\ file.saved
    /\ owed' = IF file.has THEN {} ELSE owed
    /\ Ask(app, (IF file.has THEN <<save(file.list, file.list)>> ELSE <<>>) \o <<get("servers")>>)

\* acceptPolicyGeneration of the updater: a signed release arrives.
AcceptPolicy ==
    /\ Ready /\ Elsewhere /\ UNCHANGED <<file, owed>>
    /\ \E g \in 1 .. MaxGeneration, p \in Payloads :
          LET kept == lastAcceptedPolicyGeneration
              floor == IF app.observed > kept THEN app.observed ELSE kept
          IN  \/ /\ g > floor
                 /\ Ask(app, <<set("floor", g), set("digest", p), bind(g, p)>>)
                 /\ UNCHANGED accepted
              \/ /\ g = floor /\ Persisted(g, p)
                 /\ Ask([app EXCEPT !.observed = floor], <<>>)
                 /\ accepted' = Accepted(g, p)

-----------------------------------------------------------------------------
(* The process and its surroundings. *)

StartClient ==
    /\ ~app.up /\ starts < MaxStarts
    /\ starts' = starts + 1
    /\ mem' = disk
    /\ app' = [Down EXCEPT !.up = TRUE,
           !.call = Running((IF disk["marker"] = Absent THEN <<Just("migrate"), Just("mark")>> ELSE <<>>)
                            \o <<get("servers"), Just("persist"), get("floor")>>)]
    /\ UNCHANGED <<disk, chain, away, late, file, owed, accepted, made, edits, faults>>

\* The native call dies with its process, done or not.
StopClient ==
    /\ app.up
    /\ app' = Down /\ late' = <<>>
    /\ chain' \in {chain} \cup {[chain EXCEPT ![late[i].tag] = late[i].v] : i \in DOMAIN late}
    /\ UNCHANGED <<disk, mem, away, file, owed, accepted, made, starts, edits, faults>>

\* QSettings writes what is pending when the event loop runs.
Flush ==
    /\ app.up /\ app.call.tasks = <<>> /\ disk # mem
    /\ disk' = mem
    /\ UNCHANGED <<mem, chain, away, app, late, file, owed, accepted, made, starts, edits, faults>>

KeychainLeaves ==
    /\ ~away /\ \E t \in Tags : chain[t] # 0
    /\ Fault /\ away' = TRUE
    /\ UNCHANGED <<disk, mem, chain, app, late, file, owed, accepted, made, starts, edits>>
KeychainReturns ==
    /\ away /\ away' = FALSE
    /\ UNCHANGED <<disk, mem, chain, app, late, file, owed, accepted, made, starts, edits, faults>>

SettingsStep ==
    \/ StartTask \/ Remembered \/ ReadAnswered \/ ReadFails
    \/ WriteAnswered \/ WriteFails \/ VerifyAnswered \/ VerifyFails \/ LateWrite
    \/ Value \/ SetValue \/ SetValueRefused \/ ClearStored
    \/ MigratePayloads \/ MigrateMarker \/ MigrateRefused
    \/ persistDefaultServerFields \/ Bound
    \/ AddServer \/ EditServer \/ RemoveServer \/ SetDefaultServer
    \/ WriteMigrationJournal \/ ClearSettings \/ BackupAppConfig \/ RestoreAppConfig \/ AcceptPolicy
    \/ StartClient \/ StopClient \/ Flush \/ KeychainLeaves \/ KeychainReturns

SettingsSpec == SettingsInit /\ [][SettingsStep]_settingsVars

-----------------------------------------------------------------------------

\* What a start with a working keychain would read from the disk.
Recoverable ==
    CASE disk["servers"].form = "absent" -> {}
      [] disk["servers"].form = "plain" -> disk["servers"].v
      [] OTHER -> IF disk["servers"].by = chain THEN disk["servers"].v ELSE {}

\* A server that was saved and not removed can be read again from the disk and
\* the keychain, whatever happened since: the first encryption of old settings,
\* key material created and lost half way, a keychain that was out of reach for
\* a session in which servers were added, writes that failed, restarts.  (A
\* list whose write failed is excepted once a restored backup has it read
\* again: it reads as empty, and the next server added replaces it.)
ServersSurvive == owed \subseteq Recoverable

\* The releases the updater accepted never go back and never name a second
\* payload for a generation, over restarts, failed writes, resets of the
\* settings and restored backups (setSelfHostedUpdateLastAcceptedPolicy).
\* (What the same process accepts after a reset that failed is excepted: the
\* reset drops the cached failure, and a floor that was never written counts.)
ReleasesMoveForward ==
    \A i \in 1 .. Len(accepted), j \in 1 .. Len(accepted) :
        i < j => \/ accepted[i][1] < accepted[j][1]
                 \/ accepted[i] = accepted[j]
=============================================================================
