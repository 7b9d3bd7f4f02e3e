------------------------- MODULE SecureSettingsProofs -------------------------
(***************************************************************************)
(* The servers of the user survive (ServersAlwaysSurvive) and the releases *)
(* of the updater move forward (ReleasesAlwaysMoveForward), for any number *)
(* of servers, payloads, restarts, operations and faults.                  *)
(*                                                                         *)
(* The inductive invariant SettingsInv has four parts beside the types:    *)
(*   - MaterialOK: a process that has a part of the key material has what  *)
(*     the keychain holds, material is created only while nothing is       *)
(*     encrypted, and a process that asked in vain stays locked;           *)
(*   - StoresOK: what is owed is in the file and in QSettings' memory,     *)
(*     readable with the keychain's material;                              *)
(*   - ListOK: so it is in the list the repository shows, and in every     *)
(*     list it is about to save, unless the process is locked;             *)
(*   - FloorsOK: the stored floor stands for every release accepted, and   *)
(*     every floor about to be written is above them or is there already.  *)
(***************************************************************************)
EXTENDS SecureSettings, FiniteSetTheorems, SequenceTheorems, TLAPS

-----------------------------------------------------------------------------
(* The invariant. *)

Materials == [Tags -> Nat]
Values == (SUBSET Servers) \cup Nat \cup Payloads \cup {TRUE, "written"}
StoredValues ==
    {Absent} \cup [form : {"plain"}, v : Values] \cup [form : {"enc"}, v : Values, by : Materials]
CachedValues == {NoCache, Invalid} \cup [state : {"valid"}, v : Values]

TaskSet ==
    [do : {"get"}, key : {"servers", "floor"}]
        \cup [do : {"set"}, key : {"servers"}, v : SUBSET Servers, owe : SUBSET Servers]
        \cup [do : {"set"}, key : {"floor"}, v : Nat, owe : {{}}]
        \cup [do : {"set"}, key : {"digest"}, v : Payloads, owe : {{}}]
        \cup [do : {"set"}, key : {"journal"}, v : {"written"}, owe : {{}}]
        \cup [do : {"bind"}, g : Nat \ {0}, p : Payloads]
        \cup [do : {"clear", "migrate", "mark", "persist"}]
Calls ==
    [tasks : Seq(TaskSet), step : {"task", "read", "write", "verify", "run", "refused"},
     tag : Tags \cup {NoTag}, create : BOOLEAN, fresh : Nat]
Processes ==
    [up : BOOLEAN, mat : Materials, tried : [Tags -> BOOLEAN], broken : BOOLEAN, bad : BOOLEAN,
     unreset : BOOLEAN, cache : [Keys -> CachedValues], list : SUBSET Servers,
     default : SUBSET Servers, observed : Nat, call : Calls]
Backups == [saved : BOOLEAN, has : BOOLEAN, list : SUBSET Servers]

StoreTyped(store) ==
    /\ store \in [Keys -> StoredValues]
    /\ store["servers"] # Absent => store["servers"].v \in SUBSET Servers
    /\ store["floor"] # Absent => store["floor"].form = "plain" /\ store["floor"].v \in Nat
    /\ store["digest"] # Absent => store["digest"].form = "plain" /\ store["digest"].v \in Payloads
CacheTyped(cache) ==
    /\ cache["servers"].state = "valid" => cache["servers"].v \in SUBSET Servers
    /\ cache["floor"].state = "valid" => cache["floor"].v \in Nat
    /\ cache["digest"].state = "valid" => cache["digest"].v \in Payloads

SettingsTypeOK ==
    /\ StoreTyped(disk) /\ StoreTyped(mem)
    /\ chain \in Materials /\ away \in BOOLEAN /\ made \in Nat
    /\ app \in Processes /\ CacheTyped(app.cache)
    /\ late \in Seq([tag : Tags, v : Nat])
    /\ file \in Backups
    /\ owed \in SUBSET Servers
    /\ accepted \in Seq(Nat \X Payloads)
    /\ ~app.up => app = Down

\* The list a store holds, for the material in the keychain.
ListIn(stored) ==
    CASE stored.form = "absent" -> {}
      [] stored.form = "plain" -> stored.v
      [] OTHER -> IF stored.by = chain THEN stored.v ELSE {}

FloorOf(store) == IF store["floor"] = Absent THEN 0 ELSE store["floor"].v
DigestOf(store) == IF store["digest"] = Absent THEN "" ELSE store["digest"].v

Tasks == app.call.tasks
Positions == DOMAIN Tasks
Saves(i) == Tasks[i].do = "set" /\ Tasks[i].key = "servers"
Reads(k) == \E i \in Positions : Tasks[i] = get(k)
ReadsAfter(i, k) == \E j \in Positions : j > i /\ Tasks[j] = get(k)

\* The process asked for a part of the key material in vain: it does not ask
\* again, and writes nothing encrypted for the rest of its life.
Creating(t) == app.call.step \in {"write", "verify"} /\ Tag = t
Locked == \E t \in Tags : app.tried[t] /\ app.mat[t] = 0 /\ ~Creating(t)

MaterialOK ==
    /\ \A t \in Tags : app.mat[t] # 0 => app.tried[t] /\ app.mat[t] = chain[t]
    /\ app.call.step \notin {"task", "run"} => NeedsMaterial(Head1)
    /\ app.call.step \in {"read", "write", "verify"} => Tag \in Tags /\ (Tag = "iv" => app.mat["key"] # 0)
    /\ app.call.step \in {"write", "verify"} =>
           /\ app.call.create /\ app.mat[Tag] = 0 /\ app.tried[Tag] /\ ~app.broken
           /\ ~hasEncryptedPayloads
    /\ app.call.step = "verify" => app.call.fresh # 0 /\ app.call.fresh = chain[Tag]
    /\ app.call.step = "read" /\ app.call.create => ~hasEncryptedPayloads
    /\ app.call.step = "run" /\ NeedsMaterial(Head1) => \A t \in Tags : app.mat[t] # 0
    /\ app.call.step = "refused" => Locked
    /\ \A i \in DOMAIN late :
          /\ late[i].tag \in Tags /\ late[i].v # 0
          /\ app.up /\ app.broken /\ app.tried[late[i].tag] /\ app.mat[late[i].tag] = 0
          /\ mem["servers"].form # "enc"

\* Both stores hold what is owed; an encrypted list that is only on the disk
\* was cleared by the user.
StoresOK ==
    /\ owed \subseteq ListIn(disk["servers"])
    /\ owed \subseteq ListIn(mem["servers"])
    /\ disk["servers"].form = "enc" /\ mem["servers"].form # "enc" => owed = {}

\* The list in memory, and every list about to be written, has what is owed,
\* unless the process cannot write it.
ListCached ==
    /\ app.cache["servers"].state = "valid" => owed \subseteq app.cache["servers"].v
    /\ app.cache["servers"] = Invalid => app.bad \/ Locked \/ owed = {}
ListShown == app.up => Reads("servers") \/ owed \subseteq app.list \/ Locked
ListPlan ==
    \A i \in Positions :
        /\ Saves(i) =>
              /\ Locked \/ (owed \subseteq Tasks[i].v /\ Tasks[i].owe \subseteq Tasks[i].v)
              /\ Locked \/ ReadsAfter(i, "servers") \/ Tasks[i].owe \subseteq app.list
        /\ Saves(i) \/ Tasks[i] = get("servers") =>
              \A j \in Positions : j > i => Tasks[j].do \in {"persist", "get"}
        /\ Tasks[i].do = "clear" => owed = {}
        /\ Tasks[i].do = "migrate" => i = 1 /\ Len(Tasks) > 1 /\ Tasks[2].do = "mark"
ListOK == ListCached /\ ListShown /\ ListPlan

Above(g) == \A i \in DOMAIN accepted : accepted[i][1] < g
Covers(store) ==
    \A i \in DOMAIN accepted :
        \/ accepted[i][1] < FloorOf(store)
        \/ accepted[i][1] = FloorOf(store) /\ accepted[i][2] = DigestOf(store)
Sets(i, k) == Tasks[i].do = "set" /\ Tasks[i].key = k

\* The floor on the disk stands for every release accepted; a cached floor
\* is on the disk, unless a reset failed; and what is about to be written is
\* above every release accepted, or is there already.
Observed == app.up /\ ~Reads("floor") => \A i \in DOMAIN accepted : accepted[i][1] <= app.observed
BootReads ==
    Reads("floor") =>
        /\ app.cache["floor"] = NoCache
        /\ \A j \in Positions : /\ Tasks[j].do \in {"migrate", "mark", "get", "persist"}
                                /\ Tasks[j] = get("floor") => j = Len(Tasks)
ReadBack ==
    app.up =>
        \A k \in {"floor", "digest"} :
            app.cache[k] # Invalid =>
                /\ disk[k] = mem[k] \/ app.unreset
                /\ app.cache[k] # NoCache => mem[k] # Absent /\ mem[k].v = app.cache[k].v
FloorPlan ==
    \A i \in Positions :
        /\ Sets(i, "floor") => Above(Tasks[i].v) \/ Tasks[i].v = FloorOf(mem)
        /\ Sets(i, "digest") =>
              /\ i > 1 => Sets(i - 1, "floor")
              /\ LET g == IF i = 1 THEN FloorOf(mem) ELSE Tasks[i - 1].v
                 IN  Above(g) \/ (g = FloorOf(mem) /\ Tasks[i].v = DigestOf(mem))
        /\ Sets(i, "floor") \/ Sets(i, "digest") => \A j \in Positions : j > i => ~Sets(j, "floor")
        /\ Tasks[i].do = "bind" => Above(Tasks[i].g) /\ i = Len(Tasks)
FloorsOK == Covers(disk) /\ Covers(mem) /\ ReleasesMoveForward /\ Observed /\ BootReads /\ ReadBack /\ FloorPlan

SettingsInv == SettingsTypeOK /\ MaterialOK /\ StoresOK /\ ListOK /\ FloorsOK

\* What the invariant says of the process, field by field.
LEMMA ProcessFields ==
    ASSUME SettingsInv
    PROVE  /\ app \in Processes /\ app.call \in Calls
           /\ app.mat \in Materials /\ app.tried \in [Tags -> BOOLEAN]
           /\ app.cache \in [Keys -> CachedValues] /\ CacheTyped(app.cache)
           /\ app.list \in SUBSET Servers /\ app.observed \in Nat
           /\ Tasks \in Seq(TaskSet) /\ app.call.tag \in Tags \cup {NoTag} /\ app.call.fresh \in Nat
           /\ app.call.step \in {"task", "read", "write", "verify", "run", "refused"}
           /\ chain \in Materials /\ made \in Nat /\ owed \in SUBSET Servers
           /\ late \in Seq([tag : Tags, v : Nat]) /\ file \in Backups
           /\ accepted \in Seq(Nat \X Payloads)
           /\ StoreTyped(disk) /\ StoreTyped(mem)
           /\ "key" \in Tags /\ "iv" \in Tags
BY DEF SettingsInv, SettingsTypeOK, Processes, Calls, Tasks, Tags

\* A new installation, or one of before encryption, is a good start.
LEMMA SettingsInitHolds == SettingsInit => SettingsInv
<1> SUFFICES ASSUME SettingsInit PROVE SettingsInv OBVIOUS
<1> DEFINE none == [k \in Keys |-> Absent]
<1>1. PICK s \in Servers : disk = none \/ disk = [k \in Keys |-> IF k = "servers" THEN Plain({s}) ELSE Absent]
  BY SettingsAssumption DEF SettingsInit
<1>2. /\ StoreTyped(disk) /\ FloorOf(disk) = 0 /\ DigestOf(disk) = "" /\ disk["servers"].form # "enc"
      /\ owed = ListIn(disk["servers"]) /\ owed \in SUBSET Servers
  <2>1. CASE disk = none BY <2>1 DEF SettingsInit, StoreTyped, StoredValues, Keys, Absent, FloorOf, DigestOf, ListIn
  <2>2. CASE disk = [k \in Keys |-> IF k = "servers" THEN Plain({s}) ELSE Absent]
    <3>1. Plain({s}) \in StoredValues /\ Absent \in StoredValues /\ Plain({s}) # Absent
      BY DEF Plain, StoredValues, Values, Absent
    <3>2. disk \in [Keys -> StoredValues] BY <2>2, <3>1
    <3>3. disk["servers"] = Plain({s}) /\ disk["floor"] = Absent /\ disk["digest"] = Absent BY <2>2 DEF Keys
    <3> QED BY <3>1, <3>2, <3>3 DEF SettingsInit, StoreTyped, FloorOf, DigestOf, ListIn, Plain
  <2> QED BY <1>1, <2>1, <2>2
<1>3. /\ Down \in Processes /\ CacheTyped(Down.cache) /\ Down.call.tasks = <<>> /\ Down.call.step = "task"
      /\ \A t \in Tags : Down.mat[t] = 0
      /\ Down.cache["servers"] = NoCache /\ ~Down.up
  BY DEF Materials, CachedValues, Idle, Calls, NoTag, Down, Processes, CacheTyped, Keys, NoCache
<1>4. SettingsTypeOK
  <2>1. chain \in Materials /\ away \in BOOLEAN /\ made \in Nat BY DEF SettingsInit, Materials
  <2>2. file \in Backups BY DEF SettingsInit, Backups
  <2>3. late \in Seq([tag : Tags, v : Nat]) /\ accepted \in Seq(Nat \X Payloads) BY DEF SettingsInit
  <2> QED BY <1>2, <1>3, <2>1, <2>2, <2>3 DEF SettingsInit, SettingsTypeOK
<1>6. StoresOK BY <1>2 DEF SettingsInit, StoresOK
<1> QED
  BY <1>3, <1>4, <1>6 DEF SettingsInv, SettingsInit, MaterialOK, ListOK, ListCached, ListShown, ListPlan, Tasks,
    Positions, NoCache, Invalid, FloorsOK, Observed, BootReads, Reads, ReadBack, FloorPlan, Covers,
    ReleasesMoveForward

-----------------------------------------------------------------------------
(* A task gets its key material. *)

\* What a step of the material leaves alone.
SameWork ==
    /\ app'.up = app.up /\ app'.cache = app.cache /\ app'.list = app.list /\ app'.observed = app.observed
    /\ app'.bad = app.bad /\ app'.unreset = app.unreset /\ app'.call.tasks = app.call.tasks

\* Nothing is lost while the material is fetched.
LEMMA WorkKept ==
    ASSUME SettingsInv, UNCHANGED <<disk, mem, owed, accepted>>, SameWork, Locked => Locked'
    PROVE  ListOK' /\ FloorsOK'
<1>2. FloorsOK'
  <2>1. FloorOf(mem)' = FloorOf(mem) /\ DigestOf(mem)' = DigestOf(mem) BY DEF FloorOf, DigestOf
  <2>2. Covers(disk)' /\ Covers(mem)' /\ ReleasesMoveForward'
    BY DEF SettingsInv, FloorsOK, Covers, FloorOf, DigestOf, ReleasesMoveForward
  <2>3. Tasks' = Tasks /\ Reads("floor")' = Reads("floor") BY DEF SameWork, Tasks, Reads, Positions
  <2> QED
    BY <2>1, <2>2, <2>3 DEF FloorsOK, SettingsInv, Observed, BootReads, Positions, ReadBack, SameWork, FloorPlan,
      Sets, Above
<1> QED
  BY <1>2 DEF SameWork, Tasks, Reads, Positions, SettingsInv, ListOK, ListCached, ListShown, ListPlan, Saves,
    ReadsAfter

\* The task at the head needs what it needed.
LEMMA NeedsKept ==
    ASSUME SameWork, UNCHANGED mem
    PROVE  NeedsMaterial(Head1)' = NeedsMaterial(Head1)
BY DEF NeedsMaterial, Head1, SameWork

\* The stores are as good as before when the keychain is, or when nothing that
\* is owed is encrypted.
LEMMA StoresKept ==
    ASSUME SettingsInv, UNCHANGED <<disk, mem, owed>>, chain' = chain \/ mem["servers"].form # "enc"
    PROVE  StoresOK'
<1>1. CASE chain' = chain BY <1>1 DEF SettingsInv, StoresOK, ListIn
<1>2. CASE mem["servers"].form # "enc"
  BY <1>2 DEF SettingsInv, SettingsTypeOK, StoreTyped, StoredValues, Absent, Keys, StoresOK, ListIn
<1> QED BY <1>1, <1>2

\* The type of the state when only the process and the keychain change.
LEMMA ProcessTyped ==
    ASSUME SettingsInv, UNCHANGED <<disk, mem, file, owed, accepted>>, app' \in Processes, app.up, app'.up,
           app'.cache = app.cache, chain' \in Materials, away' \in BOOLEAN, made' \in Nat,
           late' \in Seq([tag : Tags, v : Nat])
    PROVE  SettingsTypeOK'
BY DEF SettingsInv, SettingsTypeOK

\* A task asks for its material, or goes on without.
LEMMA StartTaskHolds ==
    ASSUME SettingsInv, StartTask
    PROVE  SettingsInv'
<1> DEFINE c == IF NeedsMaterial(Head1)
                THEN [app.call EXCEPT !.step = "read", !.tag = "key",
                        !.create = Head1.do # "get" /\ keychainMaterialCreationAllowed(hasEncryptedPayloads)]
                ELSE [app.call EXCEPT !.step = "run"]
<1>1. /\ app' = [app EXCEPT !.call = c] /\ UNCHANGED <<disk, mem, owed, accepted, faults, world>>
      /\ app.up /\ app.call.step = "task" BY DEF StartTask, At, Busy
<1>2. /\ c \in Calls /\ c.tasks = app.call.tasks /\ c.step \in {"read", "run"}
      /\ c.step = "read" => NeedsMaterial(Head1) /\ c.tag = "key" /\ (c.create => ~hasEncryptedPayloads)
      /\ c.step = "run" => ~NeedsMaterial(Head1)
  <2>1. app.call \in Calls BY ProcessFields
  <2> QED BY <2>1 DEF Calls, Tags, keychainMaterialCreationAllowed
<1> HIDE DEF c
<1>3. app' \in Processes /\ SameWork /\ app'.call = c /\ app'.mat = app.mat /\ app'.tried = app.tried /\ app'.broken = app.broken
  BY <1>1, <1>2, ProcessFields DEF Processes, SameWork
<1> QED
  BY <1>1, <1>2, <1>3, ProcessTyped, NeedsKept, WorkKept, StoresKept DEF SettingsInv, world, Locked, Creating,
    hasEncryptedPayloads, MaterialOK, SameWork, Tags, Tag, SettingsTypeOK

\* The material is refused: the process is locked from now on.
LEMMA RefusedHolds ==
    ASSUME SettingsInv, app.up, app.call.step \in {"read", "write", "verify"}, app.mat[Tag] = 0,
           app' \in Processes, SameWork, app'.call.step = "refused", app'.call.tag = app.call.tag,
           app'.mat = app.mat, app'.tried = [app.tried EXCEPT ![Tag] = TRUE],
           app.broken => app'.broken,
           UNCHANGED <<disk, mem, chain, away, file, owed, accepted>>, made' \in Nat,
           \/ late' = late
           \/ /\ app.call.step = "write" /\ app'.broken
              /\ late' = <<[tag |-> Tag, v |-> made']>> /\ made' # 0
    PROVE  SettingsInv'
<1>1. Tag \in Tags BY DEF SettingsInv, MaterialOK
<1>2. /\ Tag' = Tag /\ app'.mat[Tag] = 0 /\ app'.tried[Tag] = TRUE
      /\ \A t \in Tags : app.tried[t] => app'.tried[t] BY <1>1, ProcessFields DEF Tag
<1>3. Locked' BY <1>1, <1>2 DEF Locked, Creating
<1>4. late' \in Seq([tag : Tags, v : Nat])
  <2>1. [tag |-> Tag, v |-> made'] \in [tag : Tags, v : Nat] BY <1>1
  <2> DEFINE r == [tag |-> Tag, v |-> made']
  <2>2. \A S : r \in S => <<r>> \in Seq(S) OBVIOUS
  <2> QED BY <2>1, <2>2, ProcessFields, ZenonT(40)
<1> QED
  BY <1>1, <1>2, <1>3, <1>4, ProcessTyped, NeedsKept, WorkKept, StoresKept DEF SettingsInv, MaterialOK, SameWork,
    hasEncryptedPayloads, isEncryptedSetting, Keys, SettingsTypeOK

\* A part of the material is there: the next part is read, or the task runs.
LEMMA ObtainedHolds ==
    ASSUME SettingsInv, app.up, app.call.step \in {"read", "verify"},
           app.call.step = "read" => app.mat[Tag] # 0 \/ ~app.tried[Tag],
           app' \in Processes, SameWork,
           app'.call.step = IF Tag = "key" THEN "read" ELSE "run",
           app'.call.tag = IF Tag = "key" THEN "iv" ELSE NoTag, app'.call.create = app.call.create,
           chain[Tag] # 0, app'.mat = [app.mat EXCEPT ![Tag] = chain[Tag]],
           app'.tried = [app.tried EXCEPT ![Tag] = TRUE], app'.broken = app.broken,
           UNCHANGED <<disk, mem, chain, away, late, file, made, owed, accepted>>
    PROVE  SettingsInv'
<1>1. Tag \in Tags /\ Tag' = (IF Tag = "key" THEN "iv" ELSE NoTag) BY DEF SettingsInv, MaterialOK, Tag
<1>2. /\ app'.mat[Tag] = chain[Tag] /\ app'.tried[Tag] = TRUE
      /\ \A t \in Tags : t # Tag => app'.tried[t] = app.tried[t] /\ app'.mat[t] = app.mat[t]
  BY <1>1, ProcessFields DEF Materials
<1> QED
  BY <1>1, <1>2, ProcessTyped, NeedsKept, WorkKept, StoresKept DEF SettingsInv, Locked, Creating, MaterialOK,
    hasEncryptedPayloads, Tags, SameWork, SettingsTypeOK

\* Two processes that differ in their material and their call alone.
Alike(a, b) ==
    /\ a.up = b.up /\ a.cache = b.cache /\ a.list = b.list /\ a.observed = b.observed
    /\ a.bad = b.bad /\ a.unreset = b.unreset

\* What Refused and Obtained make of a process a.
LEMMA RefusedFields ==
    ASSUME NEW a \in Processes
    PROVE  /\ Refused(a) \in Processes /\ Refused(a).call.step = "refused" /\ Refused(a).call.tag = a.call.tag
           /\ Refused(a).call.tasks = a.call.tasks
           /\ Alike(Refused(a), a) /\ Refused(a).mat = a.mat /\ Refused(a).tried = a.tried
           /\ Refused(a).broken = a.broken
<1> DEFINE c == [a.call EXCEPT !.step = "refused"]
<1>2. c \in Calls /\ c.step = "refused" /\ c.tag = a.call.tag /\ c.tasks = a.call.tasks BY DEF Calls, Processes
<1>3. Refused(a) = [a EXCEPT !.call = c] BY DEF Refused, Processes
<1> HIDE DEF c
<1> QED BY <1>2, <1>3 DEF Processes, Alike

\* The process once a part of the material is there.
LEMMA ObtainedFields ==
    ASSUME NEW a \in Processes, a.call = app.call
    PROVE  /\ Obtained(a) \in Processes /\ Obtained(a).call.step = (IF Tag = "key" THEN "read" ELSE "run")
           /\ Obtained(a).call.tag = (IF Tag = "key" THEN "iv" ELSE NoTag)
           /\ Obtained(a).call.tasks = a.call.tasks /\ Obtained(a).call.create = a.call.create
           /\ Alike(Obtained(a), a) /\ Obtained(a).mat = a.mat /\ Obtained(a).tried = a.tried
           /\ Obtained(a).broken = a.broken
<1> DEFINE c == [a.call EXCEPT !.step = IF Tag = "key" THEN "read" ELSE "run",
                               !.tag = IF Tag = "key" THEN "iv" ELSE NoTag]
<1>1. a.call \in Calls BY DEF Processes
<1>2. /\ c \in Calls /\ c.step = (IF Tag = "key" THEN "read" ELSE "run")
      /\ c.tag = (IF Tag = "key" THEN "iv" ELSE NoTag) /\ c.tasks = a.call.tasks /\ c.create = a.call.create
  BY <1>1 DEF Calls, Tags
<1>3. Obtained(a) = [a EXCEPT !.call = c] BY DEF Obtained, Processes
<1> HIDE DEF c
<1> QED BY <1>2, <1>3 DEF Processes, Alike

\* What is known already.
LEMMA RememberedHolds ==
    ASSUME SettingsInv, Remembered
    PROVE  SettingsInv'
<1>1. /\ app.up /\ app.call.step = "read" /\ Tag \in Tags
      /\ UNCHANGED <<disk, mem, chain, away, late, file, made, owed, accepted>>
  BY DEF Remembered, At, Busy, SettingsInv, MaterialOK, world
<1>2. CASE app.mat[Tag] # 0
  <2>1. app' = Obtained(app) /\ app.mat[Tag] = chain[Tag] /\ app.tried[Tag] = TRUE
    BY <1>1, <1>2, ProcessFields DEF Remembered, SettingsInv, MaterialOK
  <2>2. app.mat = [app.mat EXCEPT ![Tag] = chain[Tag]] /\ app.tried = [app.tried EXCEPT ![Tag] = TRUE]
    BY <1>1, <2>1, ProcessFields DEF Materials
  <2> QED BY <1>1, <1>2, <2>1, <2>2, ProcessFields, ObtainedFields, ObtainedHolds DEF SameWork, Alike
<1>3. CASE app.mat[Tag] = 0
  <2>1. app' = Refused(app) /\ app.tried[Tag] = TRUE BY <1>1, <1>3, ProcessFields DEF Remembered
  <2>2. app.tried = [app.tried EXCEPT ![Tag] = TRUE] BY <1>1, <2>1, ProcessFields
  <2> QED BY <1>1, <1>3, <2>1, <2>2, ProcessFields, RefusedFields, RefusedHolds DEF SameWork, Tag, Alike
<1> QED BY <1>2, <1>3

\* A process that has asked for the part, and what it then holds.
Asked(m, b) == [app EXCEPT !.tried[Tag] = TRUE, !.mat[Tag] = m, !.broken = b]

\* The process once it asked.
LEMMA AskedFields ==
    ASSUME SettingsInv, Tag \in Tags, NEW m \in Nat, NEW b \in BOOLEAN
    PROVE  /\ Asked(m, b) \in Processes /\ Asked(m, b).call = app.call /\ Asked(m, b).broken = b
           /\ Asked(m, b).mat = [app.mat EXCEPT ![Tag] = m]
           /\ Asked(m, b).tried = [app.tried EXCEPT ![Tag] = TRUE]
           /\ Alike(Asked(m, b), app)
<1>1. [app.mat EXCEPT ![Tag] = m] \in Materials /\ [app.tried EXCEPT ![Tag] = TRUE] \in [Tags -> BOOLEAN]
  BY ProcessFields DEF Materials
<1> QED BY <1>1, ProcessFields DEF Processes, Asked, Alike

\* A refusal after the part was asked for.
LEMMA AskedRefused ==
    ASSUME SettingsInv, app.up, app.call.step \in {"read", "write", "verify"}, app.mat[Tag] = 0,
           NEW b \in BOOLEAN, app.broken => b, app' = Refused(Asked(0, b)),
           UNCHANGED <<disk, mem, chain, away, file, owed, accepted>>, made' \in Nat,
           \/ late' = late
           \/ app.call.step = "write" /\ b /\ late' = <<[tag |-> Tag, v |-> made']>> /\ made' # 0
    PROVE  SettingsInv'
<1>1. Tag \in Tags BY DEF SettingsInv, MaterialOK
<1>2. PICK a, m : a = Asked(m, b) /\ m = 0 OBVIOUS
<1>3. /\ a \in Processes /\ a.call = app.call /\ a.broken = b
      /\ a.mat = [app.mat EXCEPT ![Tag] = m] /\ a.tried = [app.tried EXCEPT ![Tag] = TRUE]
      /\ Alike(a, app)
  <2>1. m \in Nat /\ a = Asked(m, b) BY <1>2
  <2> QED BY <1>1, <2>1, AskedFields
<1>4. a.mat = app.mat /\ app' = Refused(a) BY <1>1, <1>2, <1>3, ProcessFields DEF Materials
<1>a. /\ Refused(a) \in Processes /\ Refused(a).call.step = "refused" /\ Refused(a).call.tag = a.call.tag
      /\ Refused(a).call.tasks = a.call.tasks
      /\ Alike(Refused(a), a) /\ Refused(a).mat = a.mat /\ Refused(a).tried = a.tried
      /\ Refused(a).broken = a.broken BY <1>3, RefusedFields
<1>5. /\ app' \in Processes /\ app'.call.step = "refused" /\ app'.call.tag = app.call.tag
      /\ app'.call.tasks = app.call.tasks
      /\ app'.mat = app.mat /\ app'.tried = [app.tried EXCEPT ![Tag] = TRUE] /\ app'.broken = b
      /\ app'.up = app.up /\ app'.cache = app.cache /\ app'.list = app.list /\ app'.observed = app.observed
      /\ app'.bad = app.bad /\ app'.unreset = app.unreset BY <1>3, <1>4, <1>a DEF Alike
<1> QED BY <1>5, RefusedHolds DEF SameWork

\* The part is found, or was written and is read back.
LEMMA AskedObtained ==
    ASSUME SettingsInv, app.up, app.call.step \in {"read", "verify"}, app.mat[Tag] = 0,
           app.call.step = "read" => ~app.tried[Tag],
           chain[Tag] # 0, app' = Obtained(Asked(chain[Tag], app.broken)),
           UNCHANGED <<disk, mem, chain, away, late, file, made, owed, accepted>>
    PROVE  SettingsInv'
<1>1. Tag \in Tags /\ chain[Tag] \in Nat /\ app.broken \in BOOLEAN
  BY ProcessFields DEF SettingsInv, MaterialOK, Materials, Processes
<1>2. PICK a, m, b : a = Asked(m, b) /\ m = chain[Tag] /\ b = app.broken OBVIOUS
<1>3. /\ a \in Processes /\ a.call = app.call /\ a.broken = b
      /\ a.mat = [app.mat EXCEPT ![Tag] = m] /\ a.tried = [app.tried EXCEPT ![Tag] = TRUE]
      /\ Alike(a, app) BY <1>1, <1>2, AskedFields
<1>4. app' = Obtained(a) BY <1>2
<1>a. /\ Obtained(a) \in Processes /\ Obtained(a).call.step = (IF Tag = "key" THEN "read" ELSE "run")
      /\ Obtained(a).call.tag = (IF Tag = "key" THEN "iv" ELSE NoTag)
      /\ Obtained(a).call.tasks = a.call.tasks /\ Obtained(a).call.create = a.call.create
      /\ Alike(Obtained(a), a) /\ Obtained(a).mat = a.mat /\ Obtained(a).tried = a.tried
      /\ Obtained(a).broken = a.broken BY <1>3, ObtainedFields
<1> QED BY <1>2, <1>3, <1>4, <1>a, ObtainedHolds DEF SameWork, Alike

\* An error of the keychain, or no answer in time.
LEMMA ReadFailsHolds ==
    ASSUME SettingsInv, ReadFails
    PROVE  SettingsInv'
<1>1. /\ app.up /\ app.call.step = "read" /\ Tag \in Tags /\ app.mat[Tag] = 0 /\ ~app.broken
      /\ UNCHANGED <<disk, mem, chain, away, late, file, made, owed, accepted>>
  BY DEF ReadFails, At, Busy, SettingsInv, MaterialOK, world
<1>2. PICK b \in BOOLEAN : app' = Refused([app EXCEPT !.tried[Tag] = TRUE, !.broken = b]) BY DEF ReadFails
<1>3. [app EXCEPT !.tried[Tag] = TRUE, !.broken = b] = Asked(0, b)
  BY <1>1, ProcessFields DEF Processes, Materials, Asked
<1> QED BY <1>1, <1>2, <1>3, ProcessFields, AskedRefused

\* The keychain answers.
LEMMA ReadAnsweredHolds ==
    ASSUME SettingsInv, ReadAnswered
    PROVE  SettingsInv'
<1> DEFINE b == app.broken
           a == [app EXCEPT !.tried[Tag] = TRUE]
<1>1. /\ app.up /\ app.call.step = "read" /\ Tag \in Tags /\ app.mat[Tag] = 0 /\ ~app.tried[Tag]
      /\ UNCHANGED <<disk, mem, chain, away, late, file, made, owed, accepted>>
      /\ chain[Tag] \in Nat /\ b \in BOOLEAN
  BY ProcessFields DEF ReadAnswered, At, Busy, SettingsInv, MaterialOK, world, Materials, Processes
<1>2. /\ a = Asked(0, b)
      /\ [a EXCEPT !.mat[Tag] = chain[Tag]] = Asked(chain[Tag], b)
  BY <1>1, ProcessFields DEF Processes, Materials, Asked
<1>3. \/ app' = Refused(Asked(0, b))
      \/ chain[Tag] # 0 /\ app' = Obtained(Asked(chain[Tag], b))
      \/ app.call.create /\ ~b /\ app' = [Asked(0, b) EXCEPT !.call.step = "write"] BY <1>2 DEF ReadAnswered, Shown
<1>4. CASE app' = Refused(Asked(0, b)) BY <1>1, <1>4, ProcessFields, AskedRefused
<1>5. CASE chain[Tag] # 0 /\ app' = Obtained(Asked(chain[Tag], b)) BY <1>1, <1>5, AskedObtained
<1>6. CASE app.call.create /\ ~b /\ app' = [Asked(0, b) EXCEPT !.call.step = "write"]
  <2>1. PICK d, m, e : d = Asked(m, e) /\ e = b /\ m = 0 OBVIOUS
  <2>2. /\ d \in Processes /\ d.call = app.call /\ d.broken = e
        /\ d.mat = [app.mat EXCEPT ![Tag] = m] /\ d.tried = [app.tried EXCEPT ![Tag] = TRUE]
        /\ Alike(d, app)
    <3>1. m \in Nat /\ e \in BOOLEAN /\ d = Asked(m, e) BY <1>1, <2>1
    <3> QED BY <1>1, <3>1, AskedFields
  <2>3. d.mat = app.mat BY <1>1, <2>1, <2>2, ProcessFields DEF Materials
  <2>4. /\ app' \in Processes /\ app'.call = [app.call EXCEPT !.step = "write"] /\ app'.broken = e
        /\ app'.mat = app.mat /\ app'.tried = [app.tried EXCEPT ![Tag] = TRUE]
        /\ app'.up = app.up /\ app'.cache = app.cache /\ app'.list = app.list /\ app'.observed = app.observed
        /\ app'.bad = app.bad /\ app'.unreset = app.unreset
    <3>1. [app.call EXCEPT !.step = "write"] \in Calls BY ProcessFields DEF Calls
    <3> QED BY <1>6, <2>1, <2>2, <2>3, <3>1 DEF Processes, Alike
  <2>5. /\ app'.call.step = "write" /\ app'.call.tag = app.call.tag /\ app'.call.create = app.call.create
        /\ app'.call.tasks = app.call.tasks BY <2>4, ProcessFields DEF Calls
  <2>6. SameWork BY <2>4, <2>5 DEF SameWork
  <2>7. /\ Tag' = Tag /\ app'.tried[Tag] = TRUE
        /\ \A t \in Tags : t # Tag => app'.tried[t] = app.tried[t] BY <1>1, <2>4, <2>5, ProcessFields DEF Tag
  <2>8. Locked => Locked' BY <1>1, <2>4, <2>5, <2>7 DEF Locked, Creating
  <2>9. MaterialOK'
    BY <1>1, <2>4, <2>7, <1>6, <2>1, <2>5, <2>6, NeedsKept DEF hasEncryptedPayloads, SettingsInv, MaterialOK
  <2> QED
    BY <1>1, <2>4, <2>6, <2>8, <2>9, ProcessFields, ProcessTyped, WorkKept, StoresKept DEF SettingsInv, SettingsTypeOK
<1> QED BY <1>3, <1>4, <1>5, <1>6

\* A new part is written to the keychain.
LEMMA WriteAnsweredHolds ==
    ASSUME SettingsInv, WriteAnswered
    PROVE  SettingsInv'
<1>1. /\ app.up /\ app.call.step = "write" /\ Tag \in Tags /\ app.mat[Tag] = 0 /\ app.tried[Tag] /\ app.call.create
      /\ ~app.broken /\ ~hasEncryptedPayloads
      /\ made' = made + 1 /\ chain' = [chain EXCEPT ![Tag] = made']
      /\ app' = [app EXCEPT !.call.step = "verify", !.call.fresh = made']
      /\ UNCHANGED <<disk, mem, away, late, file, owed, accepted>>
      /\ Tag = "iv" => app.mat["key"] # 0 BY DEF WriteAnswered, At, Busy, SettingsInv, MaterialOK
<1>2. made' \in Nat /\ made' # 0 /\ chain' \in Materials /\ chain'[Tag] = made'
      /\ \A t \in Tags : t # Tag => chain'[t] = chain[t] BY <1>1, ProcessFields DEF Materials
<1> DEFINE c == [app.call EXCEPT !.step = "verify", !.fresh = made']
<1>3. /\ c \in Calls /\ c.step = "verify" /\ c.fresh = made' /\ c.tag = app.call.tag
      /\ c.tasks = app.call.tasks /\ c.create = app.call.create BY <1>2, ProcessFields DEF Calls
<1>4. app' = [app EXCEPT !.call = c] BY <1>1, ProcessFields DEF Processes
<1> HIDE DEF c
<1>5. /\ app' \in Processes /\ SameWork /\ app'.call = c /\ app'.mat = app.mat /\ app'.tried = app.tried
      /\ app'.broken = app.broken BY <1>3, <1>4, ProcessFields DEF Processes, SameWork
<1>6. Tag' = Tag /\ (Locked => Locked') BY <1>1, <1>3, <1>5 DEF Locked, Creating, Tag
<1>8. MaterialOK'
  <2>1. hasEncryptedPayloads' = hasEncryptedPayloads BY <1>1 DEF hasEncryptedPayloads
  <2>2. \A t \in Tags : app'.mat[t] # 0 => app'.tried[t] /\ app'.mat[t] = chain'[t]
    BY <1>1, <1>2, <1>5 DEF SettingsInv, MaterialOK
  <2>3. \A i \in DOMAIN late' : FALSE BY <1>1 DEF SettingsInv, MaterialOK
  <2> QED BY <1>1, <1>2, <1>3, <1>5, <1>6, <2>1, <2>2, <2>3, NeedsKept DEF SettingsInv, MaterialOK
<1> QED
  BY <1>1, <1>2, <1>5, <1>6, <1>8, ProcessFields, ProcessTyped, WorkKept, StoresKept DEF SettingsInv, SettingsTypeOK,
    hasEncryptedPayloads, isEncryptedSetting, Keys

\* The write fails, or its caller stops waiting.
LEMMA WriteFailsHolds ==
    ASSUME SettingsInv, WriteFails
    PROVE  SettingsInv'
<1>1. /\ app.up /\ app.call.step = "write" /\ Tag \in Tags /\ app.mat[Tag] = 0 /\ app.tried[Tag] = TRUE
      /\ ~app.broken /\ made' = made + 1 /\ made' \in Nat /\ made' # 0
      /\ UNCHANGED <<disk, mem, chain, away, file, owed, accepted>>
  BY ProcessFields DEF WriteFails, At, Busy, SettingsInv, MaterialOK
<1>2. PICK b \in BOOLEAN :
        /\ app' = Refused([app EXCEPT !.broken = b])
        /\ late' = IF b THEN <<[tag |-> Tag, v |-> made']>> ELSE late BY DEF WriteFails
<1>3. [app EXCEPT !.broken = b] = Asked(0, b) BY <1>1, ProcessFields DEF Processes, Materials, Asked
<1> QED BY <1>1, <1>2, <1>3, AskedRefused

\* The new part is read back, or not.
LEMMA VerifyHolds ==
    ASSUME SettingsInv, VerifyAnswered \/ VerifyFails
    PROVE  SettingsInv'
<1>1. /\ app.up /\ app.call.step = "verify" /\ Tag \in Tags /\ app.mat[Tag] = 0 /\ app.tried[Tag] = TRUE
      /\ ~app.broken /\ app.call.fresh = chain[Tag] /\ chain[Tag] # 0 /\ chain[Tag] \in Nat
      /\ UNCHANGED <<disk, mem, chain, away, late, made, file, owed, accepted>>
  BY ProcessFields DEF VerifyAnswered, VerifyFails, At, Busy, SettingsInv, MaterialOK, world, Materials
<1>2. /\ \A b \in BOOLEAN : [app EXCEPT !.broken = b] = Asked(0, b)
      /\ [app EXCEPT !.mat[Tag] = chain[Tag]] = Asked(chain[Tag], app.broken)
      /\ [app EXCEPT !.mat[Tag] = 0] = Asked(0, app.broken)
      /\ app.broken \in BOOLEAN
  <2>1. app.tried = [app.tried EXCEPT ![Tag] = TRUE] /\ app.mat = [app.mat EXCEPT ![Tag] = 0]
    BY <1>1, ProcessFields DEF Materials
  <2>2. \A b \in BOOLEAN : [app EXCEPT !.broken = b] = Asked(0, b) BY <2>1, ProcessFields DEF Processes, Asked
  <2>3. [app EXCEPT !.mat[Tag] = chain[Tag]] = Asked(chain[Tag], app.broken)
    BY <2>1, ProcessFields DEF Processes, Asked
  <2>4. [app EXCEPT !.mat[Tag] = 0] = Asked(0, app.broken) /\ app.broken \in BOOLEAN
    BY <2>1, ProcessFields DEF Processes, Asked
  <2> QED BY <2>2, <2>3, <2>4
<1>3. CASE VerifyFails
  <2>1. PICK b \in BOOLEAN : app' = Refused(Asked(0, b)) BY <1>2, <1>3 DEF VerifyFails
  <2> QED BY <1>1, <2>1, ProcessFields, AskedRefused
<1>4. CASE VerifyAnswered /\ Shown = chain[Tag] BY <1>1, <1>2, <1>4, AskedObtained DEF VerifyAnswered
<1>5. CASE VerifyAnswered /\ Shown = 0
  <2>1. app' = Refused(Asked(0, app.broken)) BY <1>1, <1>2, <1>5 DEF VerifyAnswered
  <2> QED BY <1>1, <1>2, <2>1, ProcessFields, AskedRefused
<1> QED BY <1>3, <1>4, <1>5 DEF Shown

\* A write nobody waits for lands: the process it belongs to is locked.
LEMMA LateWriteHolds ==
    ASSUME SettingsInv, LateWrite
    PROVE  SettingsInv'
<1>1. /\ chain' = [chain EXCEPT ![late[1].tag] = late[1].v] /\ late' = <<>>
      /\ UNCHANGED <<disk, mem, away, app, made, file, owed, accepted>> /\ 1 \in DOMAIN late
  BY ProcessFields DEF LateWrite
<1>2. /\ late[1].tag \in Tags /\ late[1].v \in Nat /\ app.up /\ app.mat[late[1].tag] = 0
      /\ mem["servers"].form # "enc" /\ app.broken
  <2>1. late[1] \in [tag : Tags, v : Nat]
    <3>1. \A S : late \in Seq(S) /\ 1 \in DOMAIN late => late[1] \in S OBVIOUS
    <3> QED BY <1>1, <3>1, ProcessFields
  <2> QED BY <1>1, <2>1 DEF SettingsInv, MaterialOK
<1>3. chain' \in Materials /\ \A t \in Tags : t # late[1].tag => chain'[t] = chain[t]
  BY <1>1, <1>2, ProcessFields DEF Materials
<1>4. SameWork /\ Locked' = Locked /\ NeedsMaterial(Head1)' = NeedsMaterial(Head1) /\ Tag' = Tag
      /\ hasEncryptedPayloads' = hasEncryptedPayloads
  BY <1>1 DEF SameWork, Locked, Creating, NeedsMaterial, Head1, Tag, hasEncryptedPayloads
<1> QED
  BY <1>1, <1>2, <1>3, <1>4, ProcessFields, ProcessTyped, WorkKept, StoresKept DEF SettingsInv, SettingsTypeOK,
    MaterialOK

-----------------------------------------------------------------------------
(* A task is done. *)

\* The first d tasks are done.
Dropped(d) ==
    /\ Tasks' \in Seq(TaskSet) /\ Len(Tasks) >= d /\ Len(Tasks') = Len(Tasks) - d
    /\ \A i \in 1 .. Len(Tasks) - d : Tasks'[i] = Tasks[i + d]

\* Where the tasks that are left were before.
LEMMA DroppedPositions ==
    ASSUME SettingsInv, NEW d \in {1, 2}, Dropped(d)
    PROVE  /\ Positions = 1 .. Len(Tasks) /\ Len(Tasks) \in Nat
           /\ Positions' = 1 .. Len(Tasks) - d
           /\ \A i \in Positions' : i \in Nat /\ i >= 1 /\ i + d \in Positions /\ Tasks'[i] = Tasks[i + d]
           /\ \A j \in Positions : j > d => j - d \in Positions' /\ Tasks'[j - d] = Tasks[j]
<1>1. Positions = 1 .. Len(Tasks) /\ Len(Tasks) \in Nat BY ProcessFields DEF Positions
<1>2. Positions' = 1 .. Len(Tasks) - d BY <1>1 DEF Positions, Dropped
<1> QED BY <1>1, <1>2 DEF Dropped

\* The head of the tasks, and the tasks without it.
LEMMA HeadAndTail ==
    ASSUME SettingsInv, Busy
    PROVE  /\ Head1 = Tasks[1] /\ Head1 \in TaskSet /\ 1 \in Positions /\ Len(Tasks) >= 1
           /\ Rest \in Calls /\ Rest.tasks = Tail(Tasks) /\ Rest.step = "task" /\ Rest.tag = NoTag
           /\ Tail(Tasks) \in Seq(TaskSet) /\ Len(Tail(Tasks)) = Len(Tasks) - 1
           /\ \A i \in 1 .. Len(Tasks) - 1 : Tail(Tasks)[i] = Tasks[i + 1]
<1>3. /\ Head1 = Tasks[1] /\ Head1 \in TaskSet /\ 1 \in Positions /\ Len(Tasks) >= 1
      /\ Tail(Tasks) \in Seq(TaskSet) /\ Len(Tail(Tasks)) = Len(Tasks) - 1
      /\ \A i \in 1 .. Len(Tasks) - 1 : Tail(Tasks)[i] = Tasks[i + 1]
  BY ProcessFields DEF Head1, Tasks, Positions, Busy
<1>4. Rest \in Calls /\ Rest.tasks = Tail(Tasks) /\ Rest.step = "task" /\ Rest.tag = NoTag
  BY <1>3 DEF Rest, Idle, Calls, Tasks
<1> QED BY <1>3, <1>4

\* The tasks about the list that are left, when no more is owed and the list
\* is the same.
LEMMA ListPlanDropped ==
    ASSUME SettingsInv, NEW d \in {1, 2}, Dropped(d), owed' \subseteq owed, app'.list = app.list, Locked => Locked'
    PROVE  ListPlan'
<1> SUFFICES ASSUME NEW i \in Positions'
             PROVE  (/\ Saves(i) =>
                           /\ Locked \/ (owed \subseteq Tasks[i].v /\ Tasks[i].owe \subseteq Tasks[i].v)
                           /\ Locked \/ ReadsAfter(i, "servers") \/ Tasks[i].owe \subseteq app.list
                     /\ Saves(i) \/ Tasks[i] = get("servers") =>
                           \A j \in Positions : j > i => Tasks[j].do \in {"persist", "get"}
                     /\ Tasks[i].do = "clear" => owed = {}
                     /\ Tasks[i].do = "migrate" => i = 1 /\ Len(Tasks) > 1 /\ Tasks[2].do = "mark")' BY DEF ListPlan
<1> DEFINE k == i + d
<1>1. k \in Positions /\ Tasks'[i] = Tasks[k] /\ k > 1 /\ i \in Nat BY DroppedPositions
<1>2. \A j \in Positions' : j > i => j + d \in Positions /\ j + d > k /\ Tasks'[j] = Tasks[j + d]
  BY <1>1, DroppedPositions, SMTT(30)
<1>3. \A j \in Positions : j > k => j - d \in Positions' /\ j - d > i /\ Tasks'[j - d] = Tasks[j]
  BY <1>1, DroppedPositions, SMTT(30)
<1> HIDE DEF k
<1>4. Saves(i)' = Saves(k) BY <1>1 DEF Saves
<1>6. Saves(k) => /\ Locked \/ (owed \subseteq Tasks[k].v /\ Tasks[k].owe \subseteq Tasks[k].v)
                  /\ Locked \/ ReadsAfter(k, "servers") \/ Tasks[k].owe \subseteq app.list
  BY <1>1 DEF SettingsInv, ListOK, ListPlan
<1>7. ReadsAfter(k, "servers") => ReadsAfter(i, "servers")' BY <1>3 DEF ReadsAfter, get
<1> QED BY <1>1, <1>2, <1>4, <1>6, <1>7 DEF get, SettingsInv, ListOK, ListPlan

\* After a list was saved or read only reads and the default server follow.
LEMMA ListPlanLast ==
    ASSUME SettingsInv, Dropped(1), Saves(1) \/ Tasks[1] = get("servers"), 1 \in Positions
    PROVE  ListPlan'
<1>1. \A i \in Positions' : Tasks'[i].do \in {"persist", "get"} BY DroppedPositions DEF SettingsInv, ListOK, ListPlan
<1> QED BY <1>1 DEF ListPlan, Saves

\* The tasks about the floor that are left after others.
LEMMA FloorPlanDropped ==
    ASSUME SettingsInv, NEW d \in {1, 2}, Dropped(d), UNCHANGED accepted,
           FloorOf(mem)' = FloorOf(mem), DigestOf(mem)' = DigestOf(mem),
           \A i \in 1 .. d : ~Sets(i, "floor")
    PROVE  FloorPlan'
<1> SUFFICES ASSUME NEW i \in Positions'
             PROVE  (/\ Sets(i, "floor") => Above(Tasks[i].v) \/ Tasks[i].v = FloorOf(mem)
                     /\ Sets(i, "digest") =>
                           /\ i > 1 => Sets(i - 1, "floor")
                           /\ LET g == IF i = 1 THEN FloorOf(mem) ELSE Tasks[i - 1].v
                              IN  Above(g) \/ (g = FloorOf(mem) /\ Tasks[i].v = DigestOf(mem))
                     /\ Sets(i, "floor") \/ Sets(i, "digest") => \A j \in Positions : j > i => ~Sets(j, "floor")
                     /\ Tasks[i].do = "bind" => Above(Tasks[i].g) /\ i = Len(Tasks))' BY DEF FloorPlan
<1> DEFINE k == i + d
<1>1. k \in Positions /\ Tasks'[i] = Tasks[k] /\ k > 1 /\ i \in Nat /\ i >= 1 /\ k \in Nat BY DroppedPositions
<1>2. \A j \in Positions' : j > i => j + d \in Positions /\ j + d > k /\ Tasks'[j] = Tasks[j + d]
  BY <1>1, DroppedPositions
<1>3. i > 1 => i - 1 \in Positions' /\ Tasks'[i - 1] = Tasks[k - 1] BY <1>1, DroppedPositions
<1>4. Len(Tasks') = Len(Tasks) - d /\ Len(Tasks) \in Nat /\ (i = 1 => k - 1 = d) BY <1>1, DroppedPositions DEF Dropped
<1> HIDE DEF k
<1>5. /\ Sets(k, "floor") => Above(Tasks[k].v) \/ Tasks[k].v = FloorOf(mem)
      /\ Sets(k, "digest") => /\ Sets(k - 1, "floor")
                              /\ \/ Above(Tasks[k - 1].v)
                                 \/ Tasks[k - 1].v = FloorOf(mem) /\ Tasks[k].v = DigestOf(mem)
      /\ Sets(k, "floor") \/ Sets(k, "digest") => \A j \in Positions : j > k => ~Sets(j, "floor")
      /\ Tasks[k].do = "bind" => Above(Tasks[k].g) /\ k = Len(Tasks) BY <1>1 DEF SettingsInv, FloorsOK, FloorPlan
<1>7. Sets(i, "floor")' = Sets(k, "floor") /\ Sets(i, "digest")' = Sets(k, "digest") BY <1>1 DEF Sets
<1>8. Sets(k, "digest") => i > 1 /\ Sets(i - 1, "floor")' BY <1>1, <1>3, <1>4, <1>5 DEF Sets
<1>12. Tasks'[i].do = "bind" => Above(Tasks[i].g)' /\ i = Len(Tasks') BY <1>1, <1>4, <1>5 DEF k, Above
<1> QED BY <1>1, <1>2, <1>3, <1>5, <1>7, <1>8, <1>12 DEF Above, Sets

\* The tasks that are left once the floor was written.
LEMMA FloorPlanSet ==
    ASSUME SettingsInv, 1 \in Positions, Dropped(1), UNCHANGED accepted,
           \/ Sets(1, "floor") /\ FloorOf(mem)' = Tasks[1].v /\ DigestOf(mem)' = DigestOf(mem)
           \/ Sets(1, "digest") /\ FloorOf(mem)' = FloorOf(mem)
    PROVE  FloorPlan'
<1>1. \A j \in Positions : j > 1 => ~Sets(j, "floor") BY DEF SettingsInv, FloorsOK, FloorPlan
<1>2. /\ \A i \in Positions' : i \in Nat /\ i >= 1 /\ i + 1 \in Positions /\ Tasks'[i] = Tasks[i + 1]
      /\ Len(Tasks') = Len(Tasks) - 1 /\ Len(Tasks) \in Nat /\ Positions' = 1 .. Len(Tasks) - 1
      /\ Positions = 1 .. Len(Tasks) BY DroppedPositions DEF Dropped
<1>5. \A i \in Positions' : Sets(i, "digest")' => Sets(i, "floor")
  <2> TAKE i \in Positions'
  <2>2. i + 1 \in Positions /\ i + 1 > 1 /\ (i + 1) - 1 = i BY <1>2
  <2> QED BY <1>2, <2>2 DEF Sets, SettingsInv, FloorsOK, FloorPlan
<1>6. \A i \in Positions' : Sets(i, "digest")' => i = 1 /\ Sets(1, "floor")
  <2> TAKE i \in Positions'
  <2> QED BY <1>1, <1>2, <1>5
<1>7. \A i \in Positions' : Sets(i, "digest")' =>
          Above(FloorOf(mem))' \/ Tasks'[i].v = DigestOf(mem)'
  BY <1>6, <1>2 DEF Sets, SettingsInv, FloorsOK, FloorPlan, Above
<1>8. \A i \in Positions' : Tasks'[i].do = "bind" => Above(Tasks[i].g)' /\ i = Len(Tasks')
  <2> TAKE i \in Positions'
  <2>1. i + 1 \in Positions /\ Tasks'[i] = Tasks[i + 1] /\ (i + 1 = Len(Tasks) => i = Len(Tasks')) BY <1>2
  <2> QED BY <2>1 DEF Above, SettingsInv, FloorsOK, FloorPlan
<1> QED BY <1>1, <1>2, <1>6, <1>7, <1>8 DEF FloorPlan, Sets

\* What was to be read is still to be read, unless it was the task.
LEMMA ReadsDropped ==
    ASSUME SettingsInv, NEW d \in {1, 2}, Dropped(d), NEW k, Reads(k), \A i \in 1 .. d : Tasks[i] # get(k)
    PROVE  Reads(k)'
<1>1. PICK j \in Positions : Tasks[j] = get(k) BY DEF Reads
<1> QED BY <1>1, DroppedPositions DEF Reads

\* A step that ends a task leaves the material alone.
LEMMA DoneMaterial ==
    ASSUME SettingsInv, app.up, app'.up, app'.call.step = "task", app'.mat = app.mat, app'.tried = app.tried,
           app'.broken = app.broken, UNCHANGED <<chain, late>>,
           mem'["servers"].form = "enc" =>
               mem["servers"].form = "enc" \/ \A t \in Tags : app.mat[t] # 0
    PROVE  MaterialOK' /\ (Locked => Locked')
<1> QED BY DEF MaterialOK, Locked, Creating, SettingsInv

\* A read was to be done before, when it still is.
LEMMA ReadsWas ==
    ASSUME SettingsInv, NEW d \in {1, 2}, Dropped(d), NEW k, Reads(k)'
    PROVE  Reads(k)
<1>1. PICK j \in Positions' : Tasks'[j] = get(k) BY DEF Reads
<1> QED BY <1>1, DroppedPositions DEF Reads

\* The reads of the start, when another of its tasks is done.
LEMMA BootReadsDropped ==
    ASSUME SettingsInv, NEW d \in {1, 2}, Dropped(d),
           Reads("floor") => app'.cache["floor"] = app.cache["floor"]
    PROVE  BootReads'
<1> SUFFICES ASSUME Reads("floor")'
             PROVE  /\ app'.cache["floor"] = NoCache
                    /\ \A j \in Positions' : /\ Tasks'[j].do \in {"migrate", "mark", "get", "persist"}
                                             /\ Tasks'[j] = get("floor") => j = Len(Tasks') BY DEF BootReads, get
<1>1. Reads("floor") BY ReadsWas
<1>2. /\ app.cache["floor"] = NoCache
      /\ \A j \in Positions : /\ Tasks[j].do \in {"migrate", "mark", "get", "persist"}
                              /\ Tasks[j] = get("floor") => j = Len(Tasks)
  BY <1>1 DEF SettingsInv, FloorsOK, BootReads
<1>3. Len(Tasks') = Len(Tasks) - d /\ Len(Tasks) \in Nat BY DroppedPositions DEF Dropped
<1>4. ASSUME NEW j \in Positions'
      PROVE  /\ Tasks'[j].do \in {"migrate", "mark", "get", "persist"}
             /\ Tasks'[j] = get("floor") => j = Len(Tasks')
  <2>1. j \in Nat /\ j + d \in Positions /\ Tasks'[j] = Tasks[j + d] BY DroppedPositions
  <2>2. j + d = Len(Tasks) => j = Len(Tasks') BY <1>3, <2>1
  <2> QED BY <1>2, <2>1, <2>2
<1> QED BY <1>1, <1>2, <1>4

\* Both stores stand for every release accepted after a write that keeps the
\* release in memory.
LEMMA CoversKept ==
    ASSUME SettingsInv, UNCHANGED accepted, FloorOf(mem)' = FloorOf(mem), DigestOf(mem)' = DigestOf(mem),
           disk' = disk \/ disk' = mem'
    PROVE  Covers(disk)' /\ Covers(mem)' /\ ReleasesMoveForward'
<1>1. Covers(mem)' /\ ReleasesMoveForward' BY DEF SettingsInv, FloorsOK, Covers, ReleasesMoveForward
<1>2. CASE disk' = disk BY <1>1, <1>2 DEF SettingsInv, FloorsOK, Covers, FloorOf, DigestOf
<1>3. CASE disk' = mem' BY <1>1, <1>3 DEF Covers, FloorOf, DigestOf
<1> QED BY <1>1, <1>2, <1>3

\* A task that is neither about the floor nor a read of it.
LEMMA FloorsDropped ==
    ASSUME SettingsInv, NEW d \in {1, 2}, Dropped(d), app.up, app'.up, UNCHANGED accepted,
           app'.observed = app.observed, app.unreset => app'.unreset,
           FloorOf(mem)' = FloorOf(mem), DigestOf(mem)' = DigestOf(mem), disk' = disk \/ disk' = mem',
           \A k \in {"floor", "digest"} : mem'[k] = mem[k],
           \/ app'.cache["floor"] = app.cache["floor"] /\ app'.cache["digest"] = app.cache["digest"]
           \/ /\ app'.cache["floor"] = NoCache /\ app'.cache["digest"] = NoCache /\ ~Reads("floor")
              /\ disk' = mem' \/ app'.unreset,
           \A i \in 1 .. d : ~Sets(i, "floor") /\ Tasks[i] # get("floor")
    PROVE  FloorsOK'
<1> QED
  BY BootReadsDropped, ReadsWas, ReadsDropped, CoversKept, FloorPlanDropped DEF FloorsOK, Observed, SettingsInv,
    BootReads, ReadBack

\* The types after a task.
LEMMA DoneTyped ==
    ASSUME SettingsInv, app' \in Processes, app'.up, CacheTyped(app.cache)', StoreTyped(disk)', StoreTyped(mem)',
           UNCHANGED <<chain, away, late, file, made>>, owed' \in SUBSET Servers,
           accepted' \in Seq(Nat \X Payloads)
    PROVE  SettingsTypeOK'
BY DEF SettingsInv, SettingsTypeOK

\* With both parts the process holds the material of the keychain.
LEMMA MaterialKnown ==
    ASSUME SettingsInv, \A t \in Tags : app.mat[t] # 0
    PROVE  app.mat = chain
<1> QED BY ProcessFields DEF Materials, SettingsInv, MaterialOK

\* One task is done.
LEMMA RestDropped ==
    ASSUME SettingsInv, Busy, app'.call = Rest
    PROVE  Dropped(1) /\ app'.call.step = "task"
<1>1. Tasks' = Tail(Tasks) BY HeadAndTail DEF Tasks
<1> QED BY <1>1, HeadAndTail DEF Dropped

\* The floor is read at the start.
LEMMA FloorReadHolds ==
    ASSUME SettingsInv, Value, Head1.key = "floor"
    PROVE  SettingsInv'
<1> DEFINE seen == IF mem["floor"] = Absent THEN NoCache ELSE Cached(mem["floor"].v)
           c == [app.cache EXCEPT !["floor"] = seen]
<1>1. /\ Busy /\ app.up /\ Head1 = Tasks[1] /\ Head1 \in TaskSet /\ Head1.do = "get"
      /\ UNCHANGED <<disk, mem, accepted, chain, away, late, file, made>>
      /\ 1 \in Positions /\ Len(Tasks) >= 1 /\ Rest \in Calls BY HeadAndTail DEF Value, world, Busy
<1>2. Tasks[1] = get("floor") /\ Reads("floor") BY <1>1 DEF TaskSet, get, Reads
<1>3. app.cache["floor"] = NoCache /\ Len(Tasks) = 1 BY <1>1, <1>2 DEF SettingsInv, FloorsOK, BootReads
<1>4. mem["floor"].form # "enc" /\ StoreTyped(mem) BY ProcessFields DEF StoreTyped, Absent
<1>5. /\ seen \in CachedValues /\ (seen.state = "valid" => seen.v \in Nat) /\ Or(seen, 0) = FloorOf(mem)
      /\ FloorOf(mem) \in Nat
      /\ seen # NoCache => mem["floor"] # Absent /\ seen.v = mem["floor"].v
      /\ seen # Invalid
  <2>1. CASE mem["floor"] = Absent BY <2>1 DEF Or, FloorOf, CachedValues, NoCache, Invalid
  <2>2. CASE mem["floor"] # Absent
    BY <1>4, <2>2 DEF Or, FloorOf, CachedValues, NoCache, Invalid, Cached, StoreTyped, Values
  <2> QED BY <2>1, <2>2
<1>6. /\ app' = [[app EXCEPT !.cache["floor"] = seen, !.call = Rest] EXCEPT !.observed = Or(seen, 0)]
      /\ owed' = owed BY <1>3, <1>4 DEF Value, Seen
<1>7. c \in [Keys -> CachedValues] /\ c["floor"] = seen /\ c["servers"] = app.cache["servers"]
      /\ c["digest"] = app.cache["digest"] BY <1>5, ProcessFields DEF Keys
<1>8. app' = [app EXCEPT !.cache = c, !.call = Rest, !.observed = FloorOf(mem)]
  BY <1>5, <1>6, ProcessFields DEF Processes
<1> HIDE DEF seen, c
<1>9. /\ app' \in Processes /\ app'.cache = c /\ app'.call = Rest /\ app'.observed = FloorOf(mem) /\ app'.up
      /\ app'.list = app.list /\ app'.bad = app.bad /\ app'.unreset = app.unreset /\ app'.mat = app.mat
      /\ app'.tried = app.tried /\ app'.broken = app.broken BY <1>1, <1>5, <1>7, <1>8, ProcessFields DEF Processes
<1>10. Dropped(1) /\ app'.call.step = "task" BY <1>1, <1>9, RestDropped
<1>11. MaterialOK' /\ (Locked => Locked') BY <1>1, <1>9, <1>10, DoneMaterial
<1>15. ListOK'
  <2>2. Reads("servers") => Reads("servers")'
    <3>1. \A i \in 1 .. 1 : Tasks[i] # get("servers") BY <1>2 DEF get
    <3> QED BY <1>10, <3>1, ReadsDropped
  <2>3. ListCached' /\ ListShown'
    BY <1>1, <1>6, <1>7, <1>9, <1>11, <2>2 DEF SettingsInv, ListOK, ListCached, ListShown
  <2> QED BY <1>6, <1>9, <1>10, <1>11, <2>3, ListPlanDropped DEF ListOK
<1>16. FloorsOK'
  <2>2. FloorPlan' /\ BootReads' BY <1>3, <1>10, DroppedPositions DEF FloorPlan, BootReads, Reads
  <2>4. Observed' BY <1>1, <1>5, <1>9, ProcessFields DEF SettingsInv, FloorsOK, Covers, Observed
  <2> QED
    BY <1>1, <1>3, <1>5, <1>7, <1>9, <2>2, <2>4, CoversKept DEF FloorsOK, FloorOf, DigestOf, ReadBack, SettingsInv,
      NoCache, Invalid
<1> QED
  BY <1>1, <1>5, <1>6, <1>7, <1>9, <1>11, <1>15, <1>16, ProcessFields, DoneTyped, StoresKept DEF SettingsInv,
    CacheTyped

\* The list is read: at the start, or after a backup was restored.
LEMMA ListReadHolds ==
    ASSUME SettingsInv, Value, Head1.key = "servers"
    PROVE  SettingsInv'
<1> DEFINE stored == mem["servers"]
           seen == IF app.cache["servers"] = NoCache /\ stored.form = "enc"
                   THEN IF app.call.step = "refused" THEN NoCache ELSE decryptText(stored)
                   ELSE Seen("servers")
           list == Or(seen, {})
           c == [app.cache EXCEPT !["servers"] = seen]
<1>1. /\ Busy /\ app.up /\ Head1 = Tasks[1] /\ Head1 \in TaskSet /\ Head1.do = "get"
      /\ UNCHANGED <<disk, mem, accepted, chain, away, late, file, made>>
      /\ 1 \in Positions /\ Len(Tasks) >= 1 /\ Rest \in Calls
      /\ app.call.step \in {"run", "refused"} BY HeadAndTail DEF Value, world, Busy
<1>2. Head1 = get("servers") /\ Tasks[1] = get("servers") BY <1>1 DEF TaskSet, get
<1>3. stored \in StoredValues /\ (stored # Absent => stored.v \in SUBSET Servers)
  BY ProcessFields DEF StoreTyped, Keys
<1>4. app.cache["servers"] \in CachedValues /\ (app.cache["servers"].state = "valid" => app.cache["servers"].v \in SUBSET Servers)
  BY ProcessFields DEF CacheTyped, Keys
<1>5. owed' = IF app.bad /\ seen = Invalid THEN {} ELSE owed BY <1>2 DEF Value
<1>6. /\ seen \in CachedValues /\ (seen.state = "valid" => seen.v \in SUBSET Servers)
      /\ seen.state = "valid" => owed \subseteq seen.v
      /\ seen = Invalid => app.bad \/ Locked \/ owed = {}
      /\ seen = NoCache => Locked \/ owed = {}
  BY <1>4, <1>3, <1>2, MaterialKnown, <1>1 DEF Seen, SettingsInv, ListOK, ListCached, NoCache, Invalid, CachedValues,
    StoresOK, ListIn, Absent, StoredValues, Cached, MaterialOK, NeedsMaterial, get, decryptText
<1>7. PICK e : e \in SUBSET Servers /\
        app' = [[app EXCEPT !.cache["servers"] = seen, !.call = Rest] EXCEPT !.list = list, !.default = e]
  <2> DEFINE a == [app EXCEPT !.cache["servers"] = seen, !.call = Rest]
             kept == Or(Seen("default"), {})
             e == IF kept \subseteq list /\ kept # {} THEN kept ELSE IF list = {} THEN {} ELSE {CHOOSE s \in list : TRUE}
  <2>2. app' = [a EXCEPT !.list = list, !.default = e] BY <1>2 DEF loadFromStorage, Value
  <2>4. e \in SUBSET Servers BY <1>6 DEF Or
  <2> QED BY <2>2, <2>4
<1>8. list \in SUBSET Servers /\ (owed' \subseteq list \/ Locked) BY <1>5, <1>6 DEF Or, CachedValues
<1>9. c \in [Keys -> CachedValues] /\ c["servers"] = seen /\ c["floor"] = app.cache["floor"]
      /\ c["digest"] = app.cache["digest"] BY <1>6, ProcessFields DEF Keys
<1>10. app' = [app EXCEPT !.cache = c, !.call = Rest, !.list = list, !.default = e]
  BY <1>7, ProcessFields DEF Processes
<1> HIDE DEF seen, c, list, stored
<1>11. /\ app' \in Processes /\ app'.cache = c /\ app'.call = Rest /\ app'.observed = app.observed /\ app'.up
       /\ app'.list = list /\ app'.bad = app.bad /\ app'.unreset = app.unreset /\ app'.mat = app.mat
       /\ app'.tried = app.tried /\ app'.broken = app.broken
  BY <1>1, <1>7, <1>8, <1>9, <1>10, ProcessFields, ZenonT(40) DEF Processes
<1>12. Dropped(1) /\ app'.call.step = "task" BY <1>1, <1>11, RestDropped
<1>13. MaterialOK' /\ (Locked => Locked') BY <1>1, <1>11, <1>12, DoneMaterial
<1>15. owed' \subseteq owed BY <1>5
<1>19. FloorsOK' BY <1>2, <1>1, <1>9, <1>11, <1>12, FloorsDropped DEF Sets, get, FloorOf, DigestOf
<1> QED
  BY <1>1, <1>2, <1>5, <1>6, <1>8, <1>9, <1>11, <1>12, <1>13, <1>15, <1>19, ListPlanLast, ProcessFields, DoneTyped DEF
    SettingsInv, StoresOK, ListIn, CacheTyped, ListCached, ListShown, ListOK

\* What a write of v under k makes of the stores and the process, when the
\* stored form is s and the cached one c.
Written(k, v, ok, s, c) ==
    /\ s = Stored(k, v) /\ s \in StoredValues /\ c = (IF app.bad \/ ~ok THEN Invalid ELSE Cached(v)) /\ c \in CachedValues
    /\ mem' = [mem EXCEPT ![k] = s] /\ disk' = (IF ok THEN mem' ELSE disk)
    /\ app' \in Processes /\ app'.cache = [app.cache EXCEPT ![k] = c] /\ app'.call = Rest
    /\ app'.bad = (app.bad \/ ~ok) /\ app'.up /\ app'.unreset = app.unreset /\ app'.list = app.list
    /\ app'.observed = app.observed /\ app'.mat = app.mat /\ app'.tried = app.tried /\ app'.broken = app.broken
    /\ owed' = (IF k = "servers" /\ c # Invalid THEN Head1.owe ELSE owed)

\* What a write does, whatever it writes.
LEMMA SetValueFields ==
    ASSUME SettingsInv, SetValue
    PROVE  /\ Busy /\ app.up /\ Head1 = Tasks[1] /\ 1 \in Positions /\ Len(Tasks) >= 1 /\ Head1 \in TaskSet
           /\ Head1.do = "set" /\ Sets(1, Head1.key) /\ app.call.step = "run"
           /\ UNCHANGED <<accepted, chain, away, late, file, made>>
           /\ Head1.key \in Keys /\ Head1.v \in Values /\ Head1.key \in {"servers", "floor", "digest", "journal"}
           /\ \E ok \in BOOLEAN : \E s, c : Written(Head1.key, Head1.v, ok, s, c)
<1>1. /\ Busy /\ app.up /\ Head1 = Tasks[1] /\ 1 \in Positions /\ Len(Tasks) >= 1 /\ Head1 \in TaskSet
      /\ Head1.do = "set" /\ app.call.step = "run" /\ Rest \in Calls
      /\ UNCHANGED <<accepted, chain, away, late, file, made>> BY HeadAndTail DEF SetValue, At, Busy, world
<1>2. Head1.key \in {"servers", "floor", "digest", "journal"} /\ Head1.v \in Values /\ Head1.key \in Keys
  BY <1>1 DEF TaskSet, Values, Keys
<1>4. PICK k, v : k = Head1.key /\ v = Head1.v OBVIOUS
<1>5. requiresDurableWrite(k) BY <1>2, <1>4 DEF requiresDurableWrite, isLocalOnlySetting
<1>6. PICK ok \in BOOLEAN :
        LET a == [app EXCEPT !.bad = @ \/ ~ok]
            d == IF a.bad THEN Invalid ELSE Cached(v)
        IN  /\ Sync([mem EXCEPT ![k] = Stored(k, v)], ok)
            /\ app' = [a EXCEPT !.cache[k] = d, !.call = Rest]
            /\ owed' = IF k = "servers" /\ d # Invalid THEN Head1.owe ELSE owed BY <1>4, <1>5 DEF SetValue
<1>7. PICK s, c, b : s = Stored(k, v) /\ b = (app.bad \/ ~ok) /\ c = (IF b THEN Invalid ELSE Cached(v)) OBVIOUS
<1>8. b \in BOOLEAN /\ c \in CachedValues BY <1>2, <1>4, <1>7 DEF CachedValues, Cached
<1>9. s \in StoredValues BY <1>2, <1>4, <1>7, ProcessFields DEF Stored, Encrypted, Plain, StoredValues
<1>10. [app.cache EXCEPT ![k] = c] \in [Keys -> CachedValues] BY <1>8, ProcessFields
<1>12. /\ app' = [[app EXCEPT !.bad = b] EXCEPT !.cache[k] = c, !.call = Rest]
       /\ owed' = IF k = "servers" /\ c # Invalid THEN Head1.owe ELSE owed BY <1>6, <1>7, ProcessFields DEF Processes
<1>13. app' = [app EXCEPT !.bad = b, !.cache = [app.cache EXCEPT ![k] = c], !.call = Rest]
  BY <1>12, ProcessFields DEF Processes
<1>14. /\ app' \in Processes /\ app'.cache = [app.cache EXCEPT ![k] = c] /\ app'.call = Rest
       /\ app'.bad = b /\ app'.up = app.up /\ app'.unreset = app.unreset /\ app'.list = app.list
       /\ app'.observed = app.observed /\ app'.mat = app.mat /\ app'.tried = app.tried
       /\ app'.broken = app.broken BY <1>1, <1>8, <1>10, <1>13, ProcessFields DEF Processes
<1>15. mem' = [mem EXCEPT ![k] = s] /\ disk' = IF ok THEN mem' ELSE disk BY <1>6, <1>7 DEF Sync
<1>16. Written(k, v, ok, s, c) BY <1>1, <1>7, <1>8, <1>9, <1>12, <1>14, <1>15 DEF Written
<1> QED BY <1>1, <1>2, <1>4, <1>16 DEF Sets

\* The value v has the type of its key.
Fits(k, v) ==
    /\ k \in {"servers", "floor", "digest", "journal"}
    /\ (k = "servers" => v \in SUBSET Servers) /\ (k = "floor" => v \in Nat) /\ (k = "digest" => v \in Payloads)

\* The stores and the cache after a write.
Stands(k, v, ok, s, c) ==
    /\ mem'[k] = s /\ app'.cache[k] = c
    /\ \A j \in Keys : j # k => mem'[j] = mem[j] /\ app'.cache[j] = app.cache[j]
    /\ StoreTyped(mem)' /\ StoreTyped(disk)' /\ CacheTyped(app.cache)'
    /\ s # Absent /\ s.v = v /\ (k \in {"servers", "journal"} => s.form = "enc" /\ s.by = app.mat)
    /\ k \in {"floor", "digest"} => s.form = "plain"
    /\ c # Invalid => c = Cached(v) /\ c.v = v /\ c.state = "valid" /\ ok /\ ~app.bad
    /\ c = Invalid => app'.bad /\ c.state # "valid"

\* The stores and the cache after a write of a value of the right type.
LEMMA WrittenTyped ==
    ASSUME SettingsInv, NEW k, NEW v, NEW ok \in BOOLEAN, NEW s, NEW c, Written(k, v, ok, s, c), Fits(k, v)
    PROVE  Stands(k, v, ok, s, c)
<1>1. k \in Keys BY DEF Keys, Fits
<1>2. /\ mem'[k] = s /\ app'.cache[k] = c
      /\ \A j \in Keys : j # k => mem'[j] = mem[j] /\ app'.cache[j] = app.cache[j]
      /\ mem' \in [Keys -> StoredValues] BY <1>1, ProcessFields DEF Written, StoreTyped
<1>3. /\ s # Absent /\ s.v = v /\ (k \in {"servers", "journal"} => s.form = "enc" /\ s.by = app.mat)
      /\ k \in {"floor", "digest"} => s.form = "plain"
  BY DEF Written, Stored, Encrypted, Plain, Absent, isEncryptedSetting
<1>4. /\ c # Invalid => c = Cached(v) /\ c.v = v /\ c.state = "valid" /\ ok /\ ~app.bad
      /\ c = Invalid => app'.bad /\ c.state # "valid" BY DEF Written, Cached, Invalid
<1>5. StoreTyped(mem)' BY <1>1, <1>2, <1>3, ProcessFields DEF StoreTyped, Keys, Fits
<1> QED BY <1>1, <1>2, <1>3, <1>4, <1>5, ProcessFields DEF Stands, Written, StoreTyped, CacheTyped, Keys, Fits

\* A write that is not about the floor leaves the floor alone.
LEMMA WrittenElsewhere ==
    ASSUME SettingsInv, SetValue, NEW k \in {"servers", "journal"}, NEW v, NEW ok \in BOOLEAN, NEW s, NEW c,
           k = Head1.key, Written(k, v, ok, s, c), Dropped(1),
           \A j \in Keys : j # k => mem'[j] = mem[j] /\ app'.cache[j] = app.cache[j]
    PROVE  FloorsOK'
<1>1. /\ mem'["floor"] = mem["floor"] /\ mem'["digest"] = mem["digest"]
      /\ app'.cache["floor"] = app.cache["floor"] /\ app'.cache["digest"] = app.cache["digest"] BY DEF Keys
<1>4. /\ app.up /\ app'.up /\ UNCHANGED accepted /\ app'.observed = app.observed /\ app'.unreset = app.unreset
      /\ disk' = disk \/ disk' = mem' BY SetValueFields DEF Written
<1> QED BY <1>1, <1>4, SetValueFields, FloorsDropped DEF FloorOf, DigestOf, Sets, get

\* The servers are saved.
LEMMA SaveHolds ==
    ASSUME SettingsInv, SetValue, Head1.key = "servers"
    PROVE  SettingsInv'
<1>1. PICK k, v : k = "servers" /\ v = Head1.v OBVIOUS
<1>2. PICK ok \in BOOLEAN : \E s, c : Written(k, v, ok, s, c) BY <1>1, SetValueFields
<1>3. PICK s, c : Written(k, v, ok, s, c) BY <1>2
<1>4. v \in SUBSET Servers /\ Head1.owe \in SUBSET Servers /\ Saves(1) /\ Tasks[1] = Head1
  BY <1>1, SetValueFields DEF TaskSet, Saves
<1>5. /\ mem'[k] = s /\ app'.cache[k] = c
      /\ \A j \in Keys : j # k => mem'[j] = mem[j] /\ app'.cache[j] = app.cache[j]
      /\ StoreTyped(mem)' /\ StoreTyped(disk)' /\ CacheTyped(app.cache)'
      /\ s # Absent /\ s.v = v /\ s.form = "enc" /\ s.by = app.mat
      /\ c # Invalid => c.v = v /\ c.state = "valid" /\ ok /\ ~app.bad
      /\ c = Invalid => app'.bad /\ c.state # "valid"
  <2>2. Stands(k, v, ok, s, c) BY <1>1, <1>3, <1>4, WrittenTyped DEF Fits
  <2> QED BY <1>1, <2>2 DEF Stands
<1>6. \A t \in Tags : app.mat[t] # 0
  BY <1>4, SetValueFields DEF SettingsInv, MaterialOK, NeedsMaterial, isEncryptedSetting
<1>7. app.mat = chain /\ ~Locked BY <1>6, MaterialKnown DEF Locked
<1>8. /\ owed \subseteq v /\ Head1.owe \subseteq v
      /\ ReadsAfter(1, "servers") \/ Head1.owe \subseteq app.list
  BY <1>1, <1>4, <1>7, SetValueFields DEF SettingsInv, ListOK, ListPlan
<1>9. Dropped(1) /\ app'.call.step = "task" BY <1>3, SetValueFields, RestDropped DEF Written
<1>10. /\ app.up /\ app'.up /\ UNCHANGED <<accepted, chain, away, late, file, made>> /\ app' \in Processes
       /\ app'.mat = app.mat /\ app'.tried = app.tried /\ app'.broken = app.broken /\ app'.list = app.list
       /\ owed' = (IF c # Invalid THEN Head1.owe ELSE owed)
       /\ disk' = (IF ok THEN mem' ELSE disk) BY <1>1, <1>3, SetValueFields DEF Written
<1>14. ListOK'
  <2>3. Reads("servers") => Reads("servers")'
    <3>1. \A i \in 1 .. 1 : Tasks[i] # get("servers") BY <1>4 DEF Saves, get
    <3> QED BY <1>9, <3>1, ReadsDropped
  <2> QED
    BY <1>1, <1>4, <1>5, <1>7, <1>8, <1>9, <1>10, <2>3, SetValueFields, ListPlanLast DEF ListOK, ListCached,
      SettingsInv, ListShown, ReadsAfter, Reads
<1> QED
  BY <1>1, <1>3, <1>4, <1>5, <1>6, <1>7, <1>8, <1>9, <1>10, <1>14, WrittenElsewhere, ProcessFields, DoneTyped,
    DoneMaterial DEF SettingsInv, ListIn, StoresOK

\* The journal of a migration is written.
LEMMA JournalHolds ==
    ASSUME SettingsInv, SetValue, Head1.key = "journal"
    PROVE  SettingsInv'
<1>1. PICK k, v : k = "journal" /\ v = Head1.v OBVIOUS
<1>2. PICK ok \in BOOLEAN : \E s, c : Written(k, v, ok, s, c) BY <1>1, SetValueFields
<1>3. PICK s, c : Written(k, v, ok, s, c) BY <1>2
<1>5. /\ \A j \in Keys : j # k => mem'[j] = mem[j] /\ app'.cache[j] = app.cache[j]
      /\ StoreTyped(mem)' /\ StoreTyped(disk)' /\ CacheTyped(app.cache)'
  <2>2. Stands(k, v, ok, s, c) BY <1>1, <1>3, WrittenTyped DEF Fits
  <2> QED BY <2>2 DEF Stands
<1>6. mem'["servers"] = mem["servers"] /\ app'.cache["servers"] = app.cache["servers"] BY <1>1, <1>5 DEF Keys
<1>9. Dropped(1) /\ app'.call.step = "task" BY <1>3, SetValueFields, RestDropped DEF Written
<1>10. /\ app.up /\ app'.up /\ UNCHANGED <<accepted, chain, away, late, file, made, owed>> /\ app' \in Processes
       /\ app'.mat = app.mat /\ app'.tried = app.tried /\ app'.broken = app.broken /\ app'.list = app.list
       /\ app.bad => app'.bad
       /\ disk' = (IF ok THEN mem' ELSE disk) BY <1>1, <1>3, SetValueFields DEF Written
<1>11. MaterialOK' /\ (Locked => Locked') BY <1>6, <1>9, <1>10, DoneMaterial
<1>14. ListOK'
  <2>2. ListCached' BY <1>6, <1>10, <1>11 DEF SettingsInv, ListOK, ListCached
  <2>3. Reads("servers") => Reads("servers")'
    <3>1. \A i \in 1 .. 1 : Tasks[i] # get("servers") BY SetValueFields DEF get
    <3> QED BY <1>9, <3>1, ReadsDropped
  <2>4. ListShown' BY <1>10, <1>11, <2>3 DEF SettingsInv, ListOK, ListShown
  <2> QED BY <1>9, <1>10, <1>11, <2>2, <2>4, ListPlanDropped DEF ListOK
<1> QED
  BY <1>1, <1>3, <1>5, <1>6, <1>9, <1>10, <1>11, <1>14, WrittenElsewhere, ProcessFields, DoneTyped DEF SettingsInv,
    ListIn, StoresOK

\* The floor or its digest is written.
LEMMA FloorSetHolds ==
    ASSUME SettingsInv, SetValue, Head1.key \in {"floor", "digest"}
    PROVE  SettingsInv'
<1>1. PICK k, v : k = Head1.key /\ v = Head1.v /\ k \in {"floor", "digest"} OBVIOUS
<1>2. PICK ok \in BOOLEAN : \E s, c : Written(k, v, ok, s, c) BY <1>1, SetValueFields
<1>3. PICK s, c : Written(k, v, ok, s, c) BY <1>2
<1>4. Fits(k, v) /\ Sets(1, k) /\ Tasks[1].v = v BY <1>1, SetValueFields DEF TaskSet, Fits
<1>5. Stands(k, v, ok, s, c) BY <1>3, <1>4, WrittenTyped
<1>6. mem'["servers"] = mem["servers"] /\ app'.cache["servers"] = app.cache["servers"] BY <1>1, <1>5 DEF Keys, Stands
<1>9. Dropped(1) /\ app'.call.step = "task" BY <1>3, SetValueFields, RestDropped DEF Written
<1>10. /\ app.up /\ app'.up /\ UNCHANGED <<accepted, chain, away, late, file, made, owed>> /\ app' \in Processes
       /\ app'.mat = app.mat /\ app'.tried = app.tried /\ app'.broken = app.broken /\ app'.list = app.list
       /\ app.bad => app'.bad
       /\ disk' = (IF ok THEN mem' ELSE disk) /\ app'.observed = app.observed /\ app'.unreset = app.unreset
  BY <1>1, <1>3, SetValueFields DEF Written
<1>11. MaterialOK' /\ (Locked => Locked') BY <1>6, <1>9, <1>10, DoneMaterial
<1>14. ListOK'
  <2>2. ListCached' BY <1>6, <1>10, <1>11 DEF SettingsInv, ListOK, ListCached
  <2>3. Reads("servers") => Reads("servers")'
    <3>1. \A i \in 1 .. 1 : Tasks[i] # get("servers") BY SetValueFields DEF get
    <3> QED BY <1>9, <3>1, ReadsDropped
  <2>4. ListShown' BY <1>10, <1>11, <2>3 DEF SettingsInv, ListOK, ListShown
  <2> QED BY <1>9, <1>10, <1>11, <2>2, <2>4, ListPlanDropped DEF ListOK
<1>15. FloorsOK'
  <2>2. \/ k = "floor" /\ FloorOf(mem)' = Tasks[1].v /\ DigestOf(mem)' = DigestOf(mem)
        \/ k = "digest" /\ FloorOf(mem)' = FloorOf(mem) /\ DigestOf(mem)' = Tasks[1].v
    BY <1>1, <1>4, <1>5 DEF Stands, FloorOf, DigestOf, Keys
  <2>4. Covers(mem)' BY <1>4, SetValueFields, <1>10, <2>2, <1>1 DEF SettingsInv, FloorsOK, FloorPlan, Covers, Above
  <2>5. Covers(disk)'
    <3>1. CASE ok BY <1>10, <2>4, <3>1 DEF Covers, FloorOf, DigestOf
    <3>2. CASE ~ok BY <1>10, <3>2 DEF SettingsInv, FloorsOK, Covers, FloorOf, DigestOf
    <3> QED BY <3>1, <3>2
  <2> QED
    BY <1>4, <1>5, <1>9, <1>10, <2>2, <2>4, <2>5, ReadsWas, SetValueFields, FloorPlanSet DEF FloorsOK, SettingsInv,
      Observed, BootReads, ReleasesMoveForward, Sets, ReadBack, Stands, Keys
<1> QED BY <1>5, <1>6, <1>10, <1>11, <1>14, <1>15, ProcessFields, DoneTyped DEF SettingsInv, Stands, ListIn, StoresOK

\* setValue, whatever the key.
LEMMA SetValueHolds ==
    ASSUME SettingsInv, SetValue
    PROVE  SettingsInv'
BY SetValueFields, SaveHolds, JournalHolds, FloorSetHolds

\* value, whatever the key.
LEMMA ValueHolds ==
    ASSUME SettingsInv, Value
    PROVE  SettingsInv'
<1> QED BY HeadAndTail, ListReadHolds, FloorReadHolds DEF TaskSet, Value

\* A write is refused for want of the material: the cache says so.
LEMMA SetValueRefusedHolds ==
    ASSUME SettingsInv, SetValueRefused
    PROVE  SettingsInv'
<1> DEFINE k == Head1.key
           c == [app.cache EXCEPT ![k] = Invalid]
<1>1. /\ Busy /\ app.up /\ Head1 = Tasks[1] /\ Head1.do = "set" /\ app.call.step = "refused" /\ Rest \in Calls
      /\ UNCHANGED <<disk, mem, owed, accepted, chain, away, late, file, made>>
      /\ 1 \in Positions /\ Len(Tasks) >= 1 BY HeadAndTail DEF SetValueRefused, At, Busy, world
<1>2. k \in {"servers", "journal"} /\ Locked BY <1>1 DEF SettingsInv, MaterialOK, NeedsMaterial, isEncryptedSetting
<1>3. /\ c \in [Keys -> CachedValues] /\ c["floor"] = app.cache["floor"] /\ c["digest"] = app.cache["digest"]
      /\ c["servers"] = Invalid \/ c["servers"] = app.cache["servers"] BY <1>2, ProcessFields DEF Keys, CachedValues
<1>4. app' = [app EXCEPT !.cache = c, !.call = Rest] BY ProcessFields DEF SetValueRefused, Processes
<1> HIDE DEF k, c
<1>5. /\ app' \in Processes /\ app'.cache = c /\ app'.call = Rest /\ app'.observed = app.observed /\ app'.up
      /\ app'.list = app.list /\ app'.bad = app.bad /\ app'.unreset = app.unreset /\ app'.mat = app.mat
      /\ app'.tried = app.tried /\ app'.broken = app.broken BY <1>1, <1>3, <1>4, ProcessFields DEF Processes
<1>6. Dropped(1) /\ app'.call.step = "task" BY <1>1, <1>5, RestDropped
<1>7. MaterialOK' /\ (Locked => Locked') BY <1>1, <1>5, <1>6, DoneMaterial
<1>12. FloorsOK' BY <1>1, <1>2, <1>3, <1>5, <1>6, FloorsDropped DEF Sets, get, k, FloorOf, DigestOf
<1> QED
  BY <1>1, <1>2, <1>3, <1>5, <1>6, <1>7, <1>12, ListPlanDropped, ProcessFields, DoneTyped, StoresKept DEF SettingsInv,
    StoreTyped, CacheTyped, Invalid, ListOK, ListCached, ListShown

\* The settings are cleared: what survives a reset stays as it is.
LEMMA ClearStoredHolds ==
    ASSUME SettingsInv, ClearStored
    PROVE  SettingsInv'
<1> DEFINE m == [k \in Keys |-> IF isRetainedAcrossSettingsClear(k) THEN mem[k] ELSE Absent]
           c == [k \in Keys |-> NoCache]
<1>1. /\ Busy /\ app.up /\ Head1 = Tasks[1] /\ Head1.do = "clear" /\ Rest \in Calls
      /\ UNCHANGED <<owed, accepted, chain, away, late, file, made>>
      /\ 1 \in Positions /\ Len(Tasks) >= 1 BY HeadAndTail DEF ClearStored, At, Busy, world
<1>2. PICK ok \in BOOLEAN :
        /\ Sync(m, ok)
        /\ app' = [app EXCEPT !.bad = @ \/ ~ok, !.unreset = @ \/ ~ok, !.cache = c, !.call = Rest] BY DEF ClearStored
<1>3. mem' = m /\ disk' = IF ok THEN m ELSE disk BY <1>2 DEF Sync
<1>4. /\ m \in [Keys -> StoredValues] /\ m["servers"] = Absent
      /\ m["floor"] = mem["floor"] /\ m["digest"] = mem["digest"]
  BY ProcessFields DEF StoreTyped, StoredValues, Keys, isRetainedAcrossSettingsClear
<1>7. c \in [Keys -> CachedValues] /\ c["servers"] = NoCache /\ c["floor"] = NoCache /\ c["digest"] = NoCache
  BY DEF CachedValues, Keys
<1> HIDE DEF m, c
<1>8. /\ app' \in Processes /\ app'.cache = c /\ app'.call = Rest /\ app'.observed = app.observed /\ app'.up
      /\ app'.list = app.list /\ app'.unreset = (app.unreset \/ ~ok) /\ app'.mat = app.mat
      /\ app'.tried = app.tried /\ app'.broken = app.broken BY <1>1, <1>2, <1>7, ProcessFields DEF Processes
<1>9. Dropped(1) /\ app'.call.step = "task" BY <1>1, <1>8, RestDropped
<1>11. MaterialOK' /\ (Locked => Locked') BY <1>1, <1>3, <1>4, <1>8, <1>9, DoneMaterial DEF Absent
<1>14. owed = {} BY <1>1 DEF SettingsInv, ListOK, ListPlan
<1>16. ListOK'
  BY <1>1, <1>8, <1>9, <1>11, ListPlanDropped, <1>7, <1>14 DEF ListCached, ListShown, NoCache, Invalid, ListOK
<1>17. FloorsOK'
  <2>1. \A i \in 1 .. 1 : ~Sets(i, "floor") /\ Tasks[i] # get("floor") BY <1>1 DEF Sets, get
  <2>2. FloorOf(mem)' = FloorOf(mem) /\ DigestOf(mem)' = DigestOf(mem) BY <1>3, <1>4 DEF FloorOf, DigestOf
  <2>3. ~Reads("floor") BY <1>1 DEF SettingsInv, FloorsOK, BootReads
  <2>4. \A k \in {"floor", "digest"} : mem'[k] = mem[k] BY <1>3, <1>4
  <2>5. (disk' = disk \/ disk' = mem') /\ (disk' = mem' \/ app'.unreset) BY <1>3, <1>8
  <2> QED BY <1>1, <1>7, <1>8, <1>9, <2>1, <2>2, <2>3, <2>4, <2>5, FloorsDropped
<1> QED
  BY <1>1, <1>3, <1>4, <1>7, <1>8, <1>11, <1>14, <1>16, <1>17, ProcessFields, DoneTyped DEF SettingsInv, StoresOK,
    CacheTyped, NoCache, StoreTyped

\* A task whose writes leave the list and the floor as they are, and that is
\* no read: the marker, the default server, a migration refused.
LEMMA OtherTaskHolds ==
    ASSUME SettingsInv, NEW d \in {1, 2}, Dropped(d), app.up, app'.up, app' \in Processes,
           app'.call.step = "task", app'.mat = app.mat, app'.tried = app.tried, app'.broken = app.broken,
           app'.list = app.list, app'.observed = app.observed, app.bad => app'.bad, app'.unreset = app.unreset,
           \A k \in {"servers", "floor", "digest"} : app'.cache[k] = app.cache[k],
           UNCHANGED <<owed, accepted, chain, away, late, file, made>>,
           StoreTyped(mem)', StoreTyped(disk)', disk' = disk \/ disk' = mem',
           \A k \in {"floor", "digest"} : mem'[k] = mem[k],
           ListIn(mem'["servers"]) = ListIn(mem["servers"]),
           mem["servers"].form = "enc" => mem'["servers"].form = "enc",
           mem'["servers"].form = "enc" => mem["servers"].form = "enc" \/ \A t \in Tags : app.mat[t] # 0,
           \A i \in 1 .. d : Tasks[i].do \notin {"set", "get"}
    PROVE  SettingsInv'
<1>1. MaterialOK' /\ (Locked => Locked') BY DoneMaterial
<1>5. ListOK'
  <2>2. Reads("servers") => Reads("servers")'
    <3>1. \A i \in 1 .. d : Tasks[i] # get("servers") BY DEF get
    <3> QED BY <3>1, ReadsDropped
  <2>3. ListCached' /\ ListShown' BY <1>1, <2>2 DEF SettingsInv, ListOK, ListCached, ListShown
  <2> QED BY <1>1, <2>3, ListPlanDropped DEF ListOK
<1>6. FloorsOK'
  <2>2. FloorOf(mem)' = FloorOf(mem) /\ DigestOf(mem)' = DigestOf(mem) BY DEF FloorOf, DigestOf
  <2> QED BY <2>2, FloorsDropped DEF Sets, get
<1> QED BY <1>1, <1>5, <1>6, ProcessFields, DoneTyped DEF SettingsInv, ListIn, StoresOK, CacheTyped

\* The marker of the migration is written.
LEMMA MigrateMarkerHolds ==
    ASSUME SettingsInv, MigrateMarker
    PROVE  SettingsInv'
<1>1. /\ Busy /\ app.up /\ Head1 = Tasks[1] /\ Head1.do = "mark" /\ Rest \in Calls
      /\ UNCHANGED <<owed, accepted, chain, away, late, file, made>>
      /\ 1 \in Positions /\ Len(Tasks) >= 1 BY HeadAndTail DEF MigrateMarker, At, Busy, world
<1>2. PICK m, s : m = [mem EXCEPT !["marker"] = s] /\ s = Plain(TRUE) OBVIOUS
<1>3. PICK ok \in BOOLEAN : Sync(m, ok) /\ app' = [app EXCEPT !.bad = @ \/ ~ok, !.call = Rest]
  BY <1>2 DEF MigrateMarker
<1>4. s \in StoredValues BY <1>2 DEF Plain, StoredValues, Values
<1>5. /\ StoreTyped(m) /\ m["servers"] = mem["servers"] /\ m["floor"] = mem["floor"] /\ m["digest"] = mem["digest"]
  BY <1>2, <1>4, ProcessFields DEF StoreTyped, Keys
<1>6. mem' = m /\ disk' = IF ok THEN m ELSE disk BY <1>3 DEF Sync
<1>7. /\ app' \in Processes /\ app'.cache = app.cache /\ app'.call = Rest /\ app'.observed = app.observed /\ app'.up
      /\ app'.list = app.list /\ app'.unreset = app.unreset /\ app'.mat = app.mat
      /\ app'.tried = app.tried /\ app'.broken = app.broken /\ app'.bad = (app.bad \/ ~ok)
  BY <1>1, <1>3, ProcessFields DEF Processes
<1>8. Dropped(1) /\ app'.call.step = "task" BY <1>1, <1>7, RestDropped
<1>9. StoreTyped(mem)' /\ StoreTyped(disk)' BY <1>5, <1>6, ProcessFields DEF StoreTyped
<1>10. \A i \in 1 .. 1 : Tasks[i].do \notin {"set", "get"} BY <1>1
<1>11. /\ disk' = disk \/ disk' = mem'
       /\ \A k \in {"floor", "digest"} : mem'[k] = mem[k]
       /\ mem'["servers"] = mem["servers"] BY <1>5, <1>6
<1> QED BY <1>1, <1>7, <1>8, <1>9, <1>10, <1>11, OtherTaskHolds

\* The default server is stored, without a sync.
LEMMA PersistHolds ==
    ASSUME SettingsInv, persistDefaultServerFields
    PROVE  SettingsInv'
<1> DEFINE e == IF app.list = {} THEN {}
                ELSE IF app.default \subseteq app.list /\ app.default # {} THEN app.default
                ELSE {CHOOSE s \in app.list : TRUE}
<1>1. /\ Busy /\ app.up /\ Head1 = Tasks[1] /\ Head1.do = "persist" /\ Rest \in Calls
      /\ UNCHANGED <<disk, owed, accepted, chain, away, late, file, made>>
      /\ 1 \in Positions /\ Len(Tasks) >= 1 BY HeadAndTail DEF persistDefaultServerFields, At, Busy, world
<1>2. /\ e \in SUBSET Servers
      /\ mem' = [mem EXCEPT !["default"] = Plain(e)]
      /\ app' = [app EXCEPT !.default = e, !.cache["default"] = Cached(e), !.call = Rest]
  BY ProcessFields DEF persistDefaultServerFields, Processes
<1> HIDE DEF e
<1>3. PICK s, v : s = Plain(e) /\ v = Cached(e) OBVIOUS
<1>4. s \in StoredValues /\ v \in CachedValues BY <1>2, <1>3 DEF Plain, StoredValues, Values, Cached, CachedValues
<1>5. /\ StoreTyped(mem)' /\ mem'["servers"] = mem["servers"] /\ mem'["floor"] = mem["floor"]
      /\ mem'["digest"] = mem["digest"] BY <1>2, <1>3, <1>4, ProcessFields DEF StoreTyped, Keys
<1>6. PICK c : c = [app.cache EXCEPT !["default"] = v] OBVIOUS
<1>7. /\ c \in [Keys -> CachedValues] /\ c["servers"] = app.cache["servers"] /\ c["floor"] = app.cache["floor"]
      /\ c["digest"] = app.cache["digest"] BY <1>4, <1>6, ProcessFields DEF Keys
<1>8. app' = [app EXCEPT !.default = e, !.cache = c, !.call = Rest] BY <1>2, <1>3, <1>6, ProcessFields DEF Processes
<1>9. /\ app' \in Processes /\ app'.cache = c /\ app'.call = Rest /\ app'.observed = app.observed /\ app'.up
      /\ app'.list = app.list /\ app'.unreset = app.unreset /\ app'.mat = app.mat
      /\ app'.tried = app.tried /\ app'.broken = app.broken /\ app'.bad = app.bad
  BY <1>1, <1>2, <1>7, <1>8, ProcessFields DEF Processes
<1> QED BY <1>1, <1>5, <1>7, <1>9, ProcessFields, RestDropped, OtherTaskHolds DEF StoreTyped

\* The migration and its marker are done together.
LEMMA MigrationDropped ==
    ASSUME SettingsInv, Busy, Head1.do = "migrate", app'.call = [Rest EXCEPT !.tasks = Tail(@)]
    PROVE  /\ Dropped(2) /\ app'.call.step = "task" /\ [Rest EXCEPT !.tasks = Tail(@)] \in Calls
           /\ \A i \in 1 .. 2 : Tasks[i].do \notin {"set", "get"}
<1>1. /\ Len(Tasks) > 1 /\ Tasks[2].do = "mark" /\ Tasks[1].do = "migrate"
  BY HeadAndTail DEF SettingsInv, ListOK, ListPlan
<1>2. Tasks \in Seq(TaskSet) BY ProcessFields
<1>3. \A S : \A s \in Seq(S) : s # <<>> =>
         /\ Tail(s) \in Seq(S) /\ Len(Tail(s)) = Len(s) - 1
         /\ \A i \in 1 .. Len(s) - 1 : Tail(s)[i] = s[i + 1] OBVIOUS
<1>4. /\ Tail(Tail(Tasks)) \in Seq(TaskSet) /\ Len(Tail(Tail(Tasks))) = Len(Tasks) - 2
      /\ \A i \in 1 .. Len(Tasks) - 2 : Tail(Tail(Tasks))[i] = Tasks[i + 2]
  <2>1. PICK t : t = Tail(Tasks) OBVIOUS
  <2>2. t \in Seq(TaskSet) /\ Len(t) = Len(Tasks) - 1 /\ Len(t) > 0 /\ Len(Tasks) \in Nat
        /\ \A i \in 1 .. Len(Tasks) - 1 : t[i] = Tasks[i + 1] BY <1>1, <1>2, <1>3, <2>1
  <2>3. Tail(t) \in Seq(TaskSet) /\ Len(Tail(t)) = Len(t) - 1 /\ \A i \in 1 .. Len(t) - 1 : Tail(t)[i] = t[i + 1]
    BY <1>3, <2>2
  <2>4. \A i \in 1 .. Len(Tasks) - 2 : Tail(t)[i] = Tasks[i + 2]
    <3> TAKE i \in 1 .. Len(Tasks) - 2
    <3>1. i \in 1 .. Len(t) - 1 /\ i + 1 \in 1 .. Len(Tasks) - 1 /\ (i + 1) + 1 = i + 2 BY <2>2
    <3> QED BY <2>2, <2>3, <3>1
  <2> QED BY <2>1, <2>2, <2>3, <2>4
<1>5. PICK c, t : c = [Rest EXCEPT !.tasks = t] /\ t = Tail(Rest.tasks) OBVIOUS
<1>6. t = Tail(Tail(Tasks)) /\ Rest \in Calls /\ Rest.step = "task" BY <1>5, HeadAndTail
<1>7. c \in Calls /\ c.tasks = t /\ c.step = "task" BY <1>4, <1>5, <1>6 DEF Calls
<1>8. app'.call = c /\ [Rest EXCEPT !.tasks = Tail(@)] = c BY <1>5
<1>9. Tasks' = Tail(Tail(Tasks)) BY <1>6, <1>7, <1>8 DEF Tasks
<1>10. Dropped(2) BY <1>1, <1>2, <1>4, <1>9 DEF Dropped
<1>11. \A i \in 1 .. 2 : Tasks[i].do \notin {"set", "get"} BY <1>1
<1> QED BY <1>7, <1>8, <1>10, <1>11

\* Nothing is migrated without the material.
LEMMA MigrateRefusedHolds ==
    ASSUME SettingsInv, MigrateRefused
    PROVE  SettingsInv'
<1>1. /\ Busy /\ app.up /\ Head1.do = "migrate"
      /\ UNCHANGED <<disk, mem, owed, accepted, chain, away, late, file, made>> BY DEF MigrateRefused, At, Busy, world
<1>2. PICK c : c = [Rest EXCEPT !.tasks = Tail(@)] OBVIOUS
<1>3. app' = [app EXCEPT !.call = c] /\ app'.call = c BY <1>2, ProcessFields DEF MigrateRefused, Processes
<1>4. Dropped(2) /\ app'.call.step = "task" /\ c \in Calls /\ \A i \in 1 .. 2 : Tasks[i].do \notin {"set", "get"}
  BY <1>1, <1>2, <1>3, MigrationDropped
<1>5. /\ app' \in Processes /\ app'.cache = app.cache /\ app'.observed = app.observed /\ app'.up
      /\ app'.list = app.list /\ app'.unreset = app.unreset /\ app'.mat = app.mat
      /\ app'.tried = app.tried /\ app'.broken = app.broken /\ app'.bad = app.bad
  BY <1>1, <1>3, <1>4, ProcessFields DEF Processes
<1> QED BY <1>1, <1>4, <1>5, ProcessFields, OtherTaskHolds DEF StoreTyped

\* The payloads of before encryption are encrypted with the material.
LEMMA MigratePayloadsHolds ==
    ASSUME SettingsInv, MigratePayloads
    PROVE  SettingsInv'
<1> DEFINE m == [k \in Keys |-> IF isEncryptedSetting(k) /\ mem[k].form = "plain"
                                THEN Encrypted(mem[k].v, app.mat) ELSE mem[k]]
<1>1. /\ Busy /\ app.up /\ Head1 = Tasks[1] /\ Head1.do = "migrate" /\ Rest \in Calls /\ app.call.step = "run"
      /\ UNCHANGED <<owed, accepted, chain, away, late, file, made>>
      /\ 1 \in Positions /\ Len(Tasks) >= 1 BY HeadAndTail DEF MigratePayloads, At, Busy, world
<1>2. PICK ok \in BOOLEAN :
        /\ Sync(m, ok)
        /\ app' = [app EXCEPT !.bad = @ \/ ~ok, !.call = IF ok THEN Rest ELSE [Rest EXCEPT !.tasks = Tail(@)]]
  BY DEF MigratePayloads
<1>3. mem' = m /\ disk' = IF ok THEN m ELSE disk BY <1>2 DEF Sync
<1>4. mem \in [Keys -> StoredValues] /\ app.mat \in Materials BY ProcessFields DEF StoreTyped
<1>7. m \in [Keys -> StoredValues] BY <1>4 DEF StoredValues, Absent, Encrypted
<1>8. m["floor"] = mem["floor"] /\ m["digest"] = mem["digest"] BY DEF Keys, isEncryptedSetting
<1>10. mem["servers"].form = "plain" => \A t \in Tags : app.mat[t] # 0
  BY <1>1 DEF NeedsMaterial, Keys, isEncryptedSetting, Absent, SettingsInv, MaterialOK
<1>11. /\ StoreTyped(m) /\ ListIn(m["servers"]) = ListIn(mem["servers"])
       /\ mem["servers"].form = "enc" => m["servers"].form = "enc"
       /\ m["servers"].form = "enc" => mem["servers"].form = "enc" \/ \A t \in Tags : app.mat[t] # 0
  <2>1. CASE m["servers"] = mem["servers"] BY <1>7, <1>8, <2>1, ProcessFields DEF StoreTyped
  <2>2. CASE mem["servers"].form = "plain" /\ m["servers"] = Encrypted(mem["servers"].v, app.mat)
    <3>2. /\ m["servers"].form = "enc" /\ m["servers"].v = mem["servers"].v /\ m["servers"].by = chain
          /\ mem["servers"] # Absent BY <1>10, <2>2, MaterialKnown DEF Encrypted, Absent
    <3>3. StoreTyped(m) BY <1>7, <1>8, <3>2, ProcessFields DEF StoreTyped
    <3> QED BY <1>10, <2>2, <3>2, <3>3 DEF ListIn
  <2> QED BY <2>1, <2>2 DEF Keys, isEncryptedSetting
<1> HIDE DEF m
<1>12. PICK c : c = IF ok THEN Rest ELSE [Rest EXCEPT !.tasks = Tail(@)] OBVIOUS
<1>13. app' = [app EXCEPT !.bad = @ \/ ~ok, !.call = c] /\ app'.call = c BY <1>2, <1>12, ProcessFields DEF Processes
<1>14. PICK d \in {1, 2} : Dropped(d) /\ app'.call.step = "task" /\ c \in Calls
                           /\ \A i \in 1 .. d : Tasks[i].do \notin {"set", "get"}
  BY <1>1, <1>12, <1>13, RestDropped, MigrationDropped
<1>15. /\ app' \in Processes /\ app'.cache = app.cache /\ app'.observed = app.observed /\ app'.up
       /\ app'.list = app.list /\ app'.unreset = app.unreset /\ app'.mat = app.mat
       /\ app'.tried = app.tried /\ app'.broken = app.broken /\ app'.bad = (app.bad \/ ~ok)
  BY <1>1, <1>13, <1>14, ProcessFields DEF Processes
<1>16. StoreTyped(mem)' /\ StoreTyped(disk)' BY <1>3, <1>11, ProcessFields DEF StoreTyped
<1>17. /\ disk' = disk \/ disk' = mem'
       /\ \A k \in {"floor", "digest"} : mem'[k] = mem[k] BY <1>3, <1>8
<1> QED BY <1>1, <1>3, <1>11, <1>14, <1>15, <1>16, <1>17, OtherTaskHolds

-----------------------------------------------------------------------------
(* A release is accepted. *)

\* What a longer list of releases holds.
LEMMA OneMore ==
    ASSUME SettingsInv, NEW g \in Nat, NEW p \in Payloads, accepted' = Append(accepted, <<g, p>>)
    PROVE  /\ accepted' \in Seq(Nat \X Payloads) /\ Len(accepted') = Len(accepted) + 1 /\ Len(accepted) \in Nat
           /\ DOMAIN accepted = 1 .. Len(accepted) /\ DOMAIN accepted' = 1 .. Len(accepted) + 1
           /\ \A i \in 1 .. Len(accepted) : accepted'[i] = accepted[i] /\ accepted[i][1] \in Nat
           /\ accepted'[Len(accepted) + 1] = <<g, p>>
<1>1. PICK e, S : e = <<g, p>> /\ S = Nat \X Payloads OBVIOUS
<1> QED BY <1>1, ProcessFields

\* The release both stores hold may be accepted, and again.
LEMMA AcceptedStored ==
    ASSUME SettingsInv, NEW g \in Nat, NEW p \in Payloads, accepted' = Append(accepted, <<g, p>>),
           UNCHANGED <<disk, mem>>,
           FloorOf(disk) = g, DigestOf(disk) = p, FloorOf(mem) = g, DigestOf(mem) = p
    PROVE  Covers(disk)' /\ Covers(mem)' /\ ReleasesMoveForward' /\ \A i \in DOMAIN accepted' : accepted'[i][1] <= g
<1> DEFINE n == Len(accepted)
<1>1. /\ n \in Nat /\ Len(accepted') = n + 1 /\ DOMAIN accepted = 1 .. n /\ DOMAIN accepted' = 1 .. n + 1
      /\ \A i \in 1 .. n : accepted'[i] = accepted[i] /\ accepted[i][1] \in Nat
      /\ accepted'[n + 1] = <<g, p>> BY OneMore
<1> HIDE DEF n
<1>2. accepted'[n + 1][1] = g /\ accepted'[n + 1][2] = p BY <1>1
<1>3. \A i \in 1 .. n : /\ accepted'[i][1] \in Nat
                          /\ \/ accepted'[i][1] < g
                             \/ accepted'[i][1] = g /\ accepted'[i][2] = p BY <1>1 DEF SettingsInv, FloorsOK, Covers
<1>4. \A i \in 1 .. n + 1 : i \in 1 .. n \/ i = n + 1 BY <1>1
<1>6. Covers(disk)' /\ Covers(mem)'
  <2>1. FloorOf(disk)' = g /\ DigestOf(disk)' = p /\ FloorOf(mem)' = g /\ DigestOf(mem)' = p BY DEF FloorOf, DigestOf
  <2> QED BY <1>1, <1>2, <1>3, <1>4, <2>1 DEF Covers
<1>7. ReleasesMoveForward'
  <2> SUFFICES ASSUME NEW i \in 1 .. n + 1, NEW j \in 1 .. n + 1, i < j
               PROVE  accepted'[i][1] < accepted'[j][1] \/ accepted'[i] = accepted'[j] BY <1>1 DEF ReleasesMoveForward
  <2>1. i \in 1 .. n BY <1>1
  <2>2. CASE j = n + 1
    <3>1. CASE accepted'[i][1] < g BY <1>2, <2>2, <3>1
    <3>2. CASE accepted'[i][1] = g /\ accepted'[i][2] = p
      <4>2. accepted'[i] = <<g, p>> BY <1>1, <2>1, <3>2, OneMore
      <4> QED BY <1>1, <2>2, <4>2
    <3> QED BY <1>3, <2>1, <3>1, <3>2
  <2>3. CASE j \in 1 .. n BY <1>1, <2>1, <2>3 DEF SettingsInv, FloorsOK, ReleasesMoveForward, n
  <2> QED BY <1>4, <2>2, <2>3
<1> QED BY <1>1, <1>2, <1>3, <1>4, <1>6, <1>7

\* What the updater reads of its floor is stored.
LEMMA SeenStored ==
    ASSUME SettingsInv, app.up, NEW k \in {"floor", "digest"}, NEW v, NEW w, Or(Seen(k), w) = v, v # w
    PROVE  mem[k] # Absent /\ mem[k].v = v /\ (disk[k] = mem[k] \/ app.unreset)
<1>1. app.cache[k] # Invalid =>
          /\ disk[k] = mem[k] \/ app.unreset
          /\ app.cache[k] # NoCache => mem[k] # Absent /\ mem[k].v = app.cache[k].v
  BY DEF SettingsInv, FloorsOK, ReadBack
<1>2. Seen(k).state = "valid" /\ Seen(k).v = v BY DEF Or
<1>3. CASE app.cache[k] # NoCache BY <1>2, <1>3, <1>1 DEF Seen, Invalid
<1>4. CASE app.cache[k] = NoCache BY <1>2, <1>4, <1>1 DEF Seen, NoCache, Invalid, Cached
<1> QED BY <1>3, <1>4

\* What is read back is on the disk.
LEMMA PersistedStored ==
    ASSUME SettingsInv, NEW g \in Nat \ {0}, NEW p \in Payloads, Persisted(g, p), app.up, ~app.unreset
    PROVE  FloorOf(disk) = g /\ DigestOf(disk) = p /\ FloorOf(mem) = g /\ DigestOf(mem) = p
<1>1. Or(Seen("floor"), 0) = g /\ Or(Seen("digest"), "") = p /\ g # 0 /\ p # ""
  BY SettingsAssumption DEF Persisted, lastAcceptedPolicyGeneration, lastAcceptedPolicyPayload
<1>2. disk["floor"] = mem["floor"] /\ mem["floor"] # Absent /\ mem["floor"].v = g BY <1>1, SeenStored
<1>3. disk["digest"] = mem["digest"] /\ mem["digest"] # Absent /\ mem["digest"].v = p BY <1>1, SeenStored
<1> QED BY <1>2, <1>3 DEF FloorOf, DigestOf

\* The release is taken when its floor reads back.
LEMMA BoundHolds ==
    ASSUME SettingsInv, Bound
    PROVE  SettingsInv'
<1>1. /\ Busy /\ app.up /\ Head1 = Tasks[1] /\ Head1 \in TaskSet /\ Head1.do = "bind" /\ Rest \in Calls
      /\ UNCHANGED <<disk, mem, owed, chain, away, late, file, made>>
      /\ 1 \in Positions /\ Len(Tasks) >= 1 BY HeadAndTail DEF Bound, At, Busy, world
<1>2. PICK g, p : g = Head1.g /\ p = Head1.p OBVIOUS
<1>3. g \in Nat \ {0} /\ p \in Payloads BY <1>1, <1>2 DEF TaskSet
<1>4. Above(g) /\ Len(Tasks) = 1 BY <1>1, <1>2 DEF SettingsInv, FloorsOK, FloorPlan
<1>5. PICK o : o = (IF Persisted(g, p) THEN g ELSE app.observed) /\ o \in Nat BY <1>3, ProcessFields
<1>6. app' = [app EXCEPT !.observed = o, !.call = Rest] BY <1>2, <1>5 DEF Bound
<1>7. /\ app' \in Processes /\ app'.cache = app.cache /\ app'.call = Rest /\ app'.observed = o /\ app'.up
      /\ app'.list = app.list /\ app'.unreset = app.unreset /\ app'.mat = app.mat
      /\ app'.tried = app.tried /\ app'.broken = app.broken /\ app'.bad = app.bad
  BY <1>1, <1>5, <1>6, ProcessFields DEF Processes
<1>8. Dropped(1) /\ app'.call.step = "task" BY <1>1, <1>7, RestDropped
<1>9. MaterialOK' /\ (Locked => Locked') BY <1>1, <1>7, <1>8, DoneMaterial
<1>10. \/ Persisted(g, p) /\ ~app.unreset /\ accepted' = Append(accepted, <<g, p>>)
       \/ accepted' = accepted BY <1>2 DEF Bound, Accepted
<1>11. SettingsTypeOK'
  <2>1. accepted' \in Seq(Nat \X Payloads) BY <1>3, <1>10, ProcessFields, OneMore
  <2> QED BY <1>1, <1>7, <2>1, ProcessFields, DoneTyped DEF StoreTyped, CacheTyped
<1>13. Positions' = {} BY <1>4, <1>8, DroppedPositions
<1>14. ListOK'
  <2>2. Reads("servers") => Reads("servers")'
    <3>1. \A i \in 1 .. 1 : Tasks[i] # get("servers") BY <1>1 DEF get
    <3> QED BY <1>8, <3>1, ReadsDropped
  <2> QED BY <1>1, <1>7, <1>9, <1>13, <2>2 DEF ListOK, ListPlan, SettingsInv, ListCached, ListShown
<1>15. FloorsOK'
  <2>3. ~Reads("floor") BY <1>1 DEF SettingsInv, FloorsOK, BootReads
  <2>4. Covers(disk)' /\ Covers(mem)' /\ ReleasesMoveForward' /\ Observed'
    <3>1. CASE Persisted(g, p) /\ ~app.unreset /\ accepted' = Append(accepted, <<g, p>>)
      BY <1>1, <1>3, <3>1, PersistedStored, AcceptedStored, <1>5, <1>7 DEF Observed
    <3>2. CASE accepted' = accepted
      BY <1>1, <3>2, CoversKept, ProcessFields, <1>3, <1>4, <1>5, <2>3, <1>7 DEF FloorOf, DigestOf, SettingsInv,
        FloorsOK, Observed, Above
    <3> QED BY <1>10, <3>1, <3>2
  <2> QED BY <1>1, <1>7, <1>13, <2>4 DEF FloorsOK, FloorPlan, BootReads, Reads, SettingsInv, ReadBack
<1> QED BY <1>1, <1>9, <1>11, <1>14, <1>15, StoresKept DEF SettingsInv

-----------------------------------------------------------------------------
(* The public operations start from an idle object. *)

\* What an operation leaves of the process.
Started(tasks) ==
    /\ app.up /\ Tasks = <<>> /\ app' \in Processes /\ app'.up
    /\ app'.call.step = "task" /\ Tasks' = tasks
    /\ app'.cache = app.cache /\ app'.bad = app.bad /\ app'.unreset = app.unreset
    /\ app'.mat = app.mat /\ app'.tried = app.tried /\ app'.broken = app.broken
    /\ UNCHANGED <<disk, mem, chain, away, late, made>>

\* An operation that keeps the floor holds when what it plans does.
LEMMA StartedHolds ==
    ASSUME SettingsInv, NEW tasks, Started(tasks), file' \in Backups, owed' \subseteq owed, UNCHANGED accepted,
           app'.observed = app.observed,
           Locked' \/ Reads("servers")' \/ owed' \subseteq app'.list,
           ListPlan', FloorPlan', ~Reads("floor")'
    PROVE  SettingsInv'
<1>1. MaterialOK' /\ (Locked => Locked') BY DoneMaterial DEF Started
<1> QED
  BY <1>1, CoversKept, ProcessFields DEF SettingsInv, StoreTyped, CacheTyped, Started, SettingsTypeOK, StoresOK,
    ListIn, ListOK, ListCached, ListShown, Reads, Positions, FloorOf, DigestOf, FloorsOK, Observed, BootReads,
    ReadBack

\* The process with another list, default server and observed floor.
Showing(list, default, o) == [app EXCEPT !.list = list, !.default = default, !.observed = o]

\* Ask begins an operation with these tasks on a process that differs in its
\* list, its default server and the observed floor alone.
LEMMA AskStarts ==
    ASSUME SettingsInv, Ready, Elsewhere, NEW tasks \in Seq(TaskSet), NEW list \in SUBSET Servers,
           NEW default \in SUBSET Servers, NEW o \in Nat, NEW a,
           a = Showing(list, default, o), Ask(a, tasks)
    PROVE  Started(tasks) /\ app'.list = list /\ app'.observed = o
<1>1. PICK c : c = Running(tasks) OBVIOUS
<1>2. c \in Calls /\ c.step = "task" /\ c.tasks = tasks BY <1>1 DEF Running, Idle, Calls, NoTag
<1>4. app' = [app EXCEPT !.list = list, !.default = default, !.observed = o, !.call = c]
  BY <1>1, ProcessFields DEF Processes, Showing, Ask
<1>5. /\ app' \in Processes /\ app'.up = app.up /\ app'.call = c /\ app'.list = list /\ app'.observed = o
      /\ app'.cache = app.cache /\ app'.bad = app.bad /\ app'.unreset = app.unreset
      /\ app'.mat = app.mat /\ app'.tried = app.tried /\ app'.broken = app.broken
  BY <1>2, <1>4, ProcessFields DEF Processes
<1> QED BY <1>2, <1>5 DEF Started, Ready, Elsewhere, Tasks

\* The process as it is.
LEMMA SameProcess ==
    ASSUME SettingsInv
    PROVE  /\ app = Showing(app.list, app.default, app.observed)
           /\ app.list \in SUBSET Servers /\ app.default \in SUBSET Servers /\ app.observed \in Nat
BY ProcessFields DEF Processes, Showing

\* The tasks of one, two and three.
LEMMA TaskTuples ==
    ASSUME NEW a \in TaskSet, NEW b \in TaskSet, NEW c \in TaskSet
    PROVE  /\ <<>> \in Seq(TaskSet) /\ <<a>> \in Seq(TaskSet) /\ <<a, b>> \in Seq(TaskSet)
           /\ <<a, b, c>> \in Seq(TaskSet)
<1>1. PICK S : S = TaskSet OBVIOUS
<1> QED BY <1>1

\* The list in an idle object holds what is owed, unless nothing is written.
LEMMA IdleList ==
    ASSUME SettingsInv, app.up, Tasks = <<>>
    PROVE  Locked \/ owed \subseteq app.list
BY DEF SettingsInv, ListOK, ListShown, Reads, Positions

\* A list is saved, and the default server after it.
LEMMA SavePlan ==
    ASSUME NEW v, NEW owe, Tasks' = <<save(v, owe), Just("persist")>>,
           Locked' \/ (owed' \subseteq v /\ owe \subseteq v /\ owe \subseteq app'.list)
    PROVE  ListPlan' /\ FloorPlan' /\ ~Reads("floor")'
<1>1. PICK a, b : a = save(v, owe) /\ b = Just("persist") OBVIOUS
<1>2. /\ a.do = "set" /\ a.key = "servers" /\ a.v = v /\ a.owe = owe /\ b.do = "persist"
      /\ a # get("servers") /\ b # get("servers") /\ a # get("floor") /\ b # get("floor") BY <1>1 DEF save, Just, get
<1>3. Positions' = 1 .. 2 /\ Tasks'[1] = a /\ Tasks'[2] = b /\ Len(Tasks') = 2 BY <1>1 DEF Positions
<1>4. \A i \in 1 .. 2 : i = 1 \/ i = 2 OBVIOUS
<1> QED BY <1>2, <1>3, <1>4 DEF FloorPlan, Sets, ListPlan, Saves, Reads, get

\* An operation that saves the list.
LEMMA SyncHolds ==
    ASSUME SettingsInv, Ready, Elsewhere, UNCHANGED <<file, accepted>>,
           NEW list \in SUBSET Servers, NEW default \in SUBSET Servers, NEW owe \in SUBSET Servers, NEW a,
           a = Showing(list, default, app.observed),
           Ask(a, syncToStorage(list, owe)),
           owed' \subseteq owed, owed' \subseteq owe, Locked \/ owe \subseteq list
    PROVE  SettingsInv'
<1>1. PICK tasks : tasks = syncToStorage(list, owe) OBVIOUS
<1>2. tasks \in Seq(TaskSet) BY <1>1, TaskTuples DEF save, Just, TaskSet, syncToStorage
<1>3. Started(tasks) /\ app'.list = list /\ app'.observed = app.observed BY <1>1, SameProcess, <1>2, AskStarts
<1>4. Locked => Locked' BY <1>3, DoneMaterial DEF Started
<1>6. ListPlan' /\ FloorPlan' /\ ~Reads("floor")' BY <1>1, <1>3, <1>4, SavePlan DEF Started, syncToStorage
<1> QED BY <1>3, <1>4, <1>6, ProcessFields, StartedHolds

\* A server is added.
LEMMA AddServerHolds ==
    ASSUME SettingsInv, AddServer
    PROVE  SettingsInv'
<1>1. Ready /\ Elsewhere /\ UNCHANGED <<file, owed, accepted>> /\ app.up /\ Tasks = <<>>
  BY DEF AddServer, Ready, Tasks
<1>2. PICK s \in Servers \ app.list :
        Ask([app EXCEPT !.list = @ \cup {s}, !.default = IF @ = {} THEN {s} ELSE @],
            syncToStorage(app.list \cup {s}, owed \cup {s})) BY DEF AddServer
<1>3. PICK list, default, owe : list = app.list \cup {s} /\ owe = owed \cup {s}
                               /\ default = IF app.default = {} THEN {s} ELSE app.default OBVIOUS
<1>4. list \in SUBSET Servers /\ default \in SUBSET Servers /\ owe \in SUBSET Servers
  BY <1>2, <1>3, ProcessFields, SameProcess
<1>5. PICK a : a = Showing(list, default, app.observed) OBVIOUS
<1>6. [app EXCEPT !.list = @ \cup {s}, !.default = IF @ = {} THEN {s} ELSE @] = a
  BY <1>3, <1>5, ProcessFields DEF Processes, Showing
<1> QED BY <1>1, <1>2, <1>3, <1>4, <1>5, <1>6, IdleList, SyncHolds

\* A server is edited: the list is saved again.
LEMMA EditServerHolds ==
    ASSUME SettingsInv, EditServer
    PROVE  SettingsInv'
<1>1. Ready /\ Elsewhere /\ UNCHANGED <<file, owed, accepted>> /\ app.up /\ Tasks = <<>>
  BY DEF EditServer, Ready, Tasks
<1>2. PICK list, default, owe : list = app.list /\ owe = owed /\ default = app.default OBVIOUS
<1>3. list \in SUBSET Servers /\ default \in SUBSET Servers /\ owe \in SUBSET Servers
  BY <1>2, ProcessFields, SameProcess
<1>4. PICK a : a = Showing(list, default, app.observed) OBVIOUS
<1> QED BY <1>1, <1>2, <1>3, <1>4, IdleList, SameProcess, SyncHolds DEF EditServer

\* A server is removed, and no longer owed.
LEMMA RemoveServerHolds ==
    ASSUME SettingsInv, RemoveServer
    PROVE  SettingsInv'
<1>1. Ready /\ Elsewhere /\ UNCHANGED <<file, accepted>> /\ app.up /\ Tasks = <<>> BY DEF RemoveServer, Ready, Tasks
<1>2. PICK s \in app.list :
        /\ owed' = owed \ {s}
        /\ Ask([app EXCEPT !.list = @ \ {s},
                           !.default = IF @ = {s} /\ app.list # {s}
                                       THEN {CHOOSE t \in app.list \ {s} : TRUE} ELSE @ \ {s}],
               syncToStorage(app.list \ {s}, owed \ {s})) BY DEF RemoveServer
<1>3. PICK list, default, owe : list = app.list \ {s} /\ owe = owed \ {s}
                /\ default = IF app.default = {s} /\ app.list # {s}
                             THEN {CHOOSE t \in app.list \ {s} : TRUE} ELSE app.default \ {s} OBVIOUS
<1>4. list \in SUBSET Servers /\ owe \in SUBSET Servers BY <1>2, <1>3, ProcessFields
<1>6. PICK a : a = Showing(list, default, app.observed) OBVIOUS
<1>7. [app EXCEPT !.list = @ \ {s},
                  !.default = IF @ = {s} /\ app.list # {s}
                              THEN {CHOOSE t \in app.list \ {s} : TRUE} ELSE @ \ {s}] = a
  BY <1>3, <1>6, ProcessFields DEF Processes, Showing
<1> QED BY <1>1, <1>2, <1>3, <1>4, <1>6, <1>7, IdleList, SameProcess, SyncHolds

\* Tasks that say nothing of the list or the floor.
LEMMA QuietPlan ==
    ASSUME \A i \in Positions' : Tasks'[i].do = "persist" \/ (Tasks'[i].do = "set" /\ Tasks'[i].key = "journal")
    PROVE  ListPlan' /\ FloorPlan' /\ ~Reads("floor")'
<1>1. \A i \in Positions' : ~Saves(i)' /\ ~Sets(i, "floor")' /\ ~Sets(i, "digest")' BY DEF Saves, Sets
<1>2. \A i \in Positions' : \A k : Tasks'[i] # [do |-> "get", key |-> k] OBVIOUS
<1> QED BY <1>1, <1>2 DEF ListPlan, get, FloorPlan, Reads

\* Another server is the default.
LEMMA SetDefaultServerHolds ==
    ASSUME SettingsInv, SetDefaultServer
    PROVE  SettingsInv'
<1>1. Ready /\ Elsewhere /\ UNCHANGED <<file, owed, accepted>> /\ app.up /\ Tasks = <<>>
  BY DEF SetDefaultServer, Ready, Tasks
<1>2. PICK s \in app.list : Ask([app EXCEPT !.default = {s}], <<Just("persist")>>) BY DEF SetDefaultServer
<1>3. PICK list, default, o, b : list = app.list /\ default = {s} /\ o = app.observed /\ b = Just("persist") OBVIOUS
<1>4. list \in SUBSET Servers /\ default \in SUBSET Servers /\ o \in Nat /\ b \in TaskSet /\ b.do = "persist"
  BY <1>2, <1>3, SameProcess DEF Just, TaskSet
<1>5. PICK a, tasks : a = Showing(list, default, o) /\ tasks = <<b>> OBVIOUS
<1>6. [app EXCEPT !.default = {s}] = a BY <1>3, <1>5, ProcessFields DEF Processes, Showing
<1>7. tasks \in Seq(TaskSet) /\ Ask(a, tasks) BY <1>2, <1>3, <1>4, <1>5, <1>6, TaskTuples
<1>8. Started(tasks) /\ app'.list = list /\ app'.observed = o BY <1>1, <1>4, <1>5, <1>7, AskStarts
<1> QED
  BY <1>1, <1>3, <1>4, <1>5, <1>8, ProcessFields, QuietPlan, DoneMaterial, IdleList, StartedHolds DEF Started,
    Positions

\* A migration writes its journal.
LEMMA WriteMigrationJournalHolds ==
    ASSUME SettingsInv, WriteMigrationJournal
    PROVE  SettingsInv'
<1>1. /\ Ready /\ Elsewhere /\ UNCHANGED <<file, owed, accepted>> /\ app.up /\ Tasks = <<>>
      /\ Ask(app, <<set("journal", "written")>>) BY DEF WriteMigrationJournal, Ready, Tasks
<1>2. PICK list, default, o, b : list = app.list /\ default = app.default /\ o = app.observed
                                 /\ b = set("journal", "written") OBVIOUS
<1>3. /\ list \in SUBSET Servers /\ default \in SUBSET Servers /\ o \in Nat
      /\ b \in TaskSet /\ b.do = "set" /\ b.key = "journal" BY <1>2, SameProcess DEF set, TaskSet
<1>4. PICK a, tasks : a = Showing(list, default, o) /\ tasks = <<b>> OBVIOUS
<1>6. tasks \in Seq(TaskSet) /\ Ask(a, tasks) BY <1>1, <1>2, <1>3, <1>4, SameProcess, TaskTuples
<1>7. Started(tasks) /\ app'.list = list /\ app'.observed = o BY <1>1, <1>3, <1>4, <1>6, AskStarts
<1> QED
  BY <1>1, <1>2, <1>3, <1>4, <1>7, ProcessFields, QuietPlan, DoneMaterial, IdleList, StartedHolds DEF Started,
    Positions

\* A backup takes the list when it can be read.
LEMMA BackupAppConfigHolds ==
    ASSUME SettingsInv, BackupAppConfig
    PROVE  SettingsInv'
<1> DEFINE seen == app.cache["servers"]
<1>1. /\ Ready /\ Elsewhere /\ UNCHANGED <<owed, accepted>> /\ app.up /\ Tasks = <<>> /\ Ask(app, <<>>)
      /\ file' = [saved |-> TRUE, has |-> seen.state = "valid", list |-> Or(seen, {})]
  BY DEF BackupAppConfig, Ready, Tasks
<1>2. PICK list, default, o, tasks : list = app.list /\ default = app.default /\ o = app.observed /\ tasks = <<>>
  OBVIOUS
<1>3. /\ list \in SUBSET Servers /\ default \in SUBSET Servers /\ o \in Nat /\ tasks \in Seq(TaskSet)
  BY <1>2, SameProcess
<1>4. PICK a : a = Showing(list, default, o) OBVIOUS
<1>5. app = a /\ Ask(a, tasks) BY <1>1, <1>2, <1>4, SameProcess
<1>6. Started(tasks) /\ app'.list = list /\ app'.observed = o BY <1>1, <1>3, <1>4, <1>5, AskStarts
<1>8. ListPlan' /\ FloorPlan' /\ ~Reads("floor")' BY <1>2, <1>6, QuietPlan DEF Started, Positions
<1>9. Locked' \/ owed' \subseteq app'.list BY <1>6, DoneMaterial, <1>1, <1>2, IdleList DEF Started
<1> QED BY <1>1, <1>2, <1>6, <1>8, <1>9, ProcessFields, StartedHolds DEF Or, CacheTyped, Backups

\* What is left to do of a reset: the settings are cleared, the floor is
\* written as it was, and an empty list is saved.
ResetTask(i, n) ==
    \/ Tasks[i].do \in {"clear", "persist"}
    \/ /\ i = n - 1 /\ Tasks[i].do = "set" /\ Tasks[i].key = "servers" /\ Tasks[i].v = {} /\ Tasks[i].owe = {}
       /\ Tasks[n].do = "persist"
    \/ i = 2 /\ Tasks[i].do = "set" /\ Tasks[i].key = "floor" /\ Tasks[i].v = FloorOf(mem)
    \/ /\ i = 3 /\ Tasks[i].do = "set" /\ Tasks[i].key = "digest" /\ Tasks[i].v = DigestOf(mem)
       /\ Tasks[2].do = "set" /\ Tasks[2].key = "floor" /\ Tasks[2].v = FloorOf(mem)

\* A reset plans what may be done.
LEMMA ResetPlan ==
    ASSUME owed' = {}, NEW n \in Nat, Positions' = 1 .. n, \A i \in 1 .. n : ResetTask(i, n)'
    PROVE  ListPlan' /\ FloorPlan' /\ ~Reads("floor")'
<1>1. \A i \in 1 .. n : i \in Nat /\ Tasks'[i].do \in {"clear", "persist", "set"} BY DEF ResetTask
<1>2. \A i \in 1 .. n : \A k : Tasks'[i] # [do |-> "get", key |-> k] BY <1>1
<1> QED BY <1>1, <1>2 DEF Reads, get, ListPlan, Saves, ResetTask, FloorPlan, Sets

\* What a reset writes of the floor is what the settings hold.
LEMMA FloorAgain ==
    ASSUME SettingsInv, app.up
    PROVE  /\ lastAcceptedPolicyGeneration # 0 =>
                 lastAcceptedPolicyGeneration = FloorOf(mem) /\ FloorOf(mem) \in Nat
           /\ lastAcceptedPolicyPayload # "" =>
                 lastAcceptedPolicyPayload = DigestOf(mem) /\ DigestOf(mem) \in Payloads
<1>1. PICK g, p : g = Or(Seen("floor"), 0) /\ p = Or(Seen("digest"), "") OBVIOUS
<1>2. g # 0 => mem["floor"] # Absent /\ mem["floor"].v = g BY <1>1, SeenStored
<1>3. p # "" => mem["digest"] # Absent /\ mem["digest"].v = p BY <1>1, SeenStored
<1> QED
  BY <1>1, <1>2, <1>3, ProcessFields DEF lastAcceptedPolicyGeneration, lastAcceptedPolicyPayload, FloorOf, DigestOf,
    StoreTyped

\* A task before some others and two after them.
LEMMA Around ==
    ASSUME NEW S, NEW c \in S, NEW mid \in Seq(S), NEW s \in S, NEW e \in S, NEW t, t = <<c>> \o mid \o <<s, e>>
    PROVE  /\ t \in Seq(S) /\ Len(t) = Len(mid) + 3 /\ Len(mid) \in Nat /\ t[1] = c
           /\ \A j \in 1 .. Len(mid) : t[j + 1] = mid[j]
           /\ t[Len(mid) + 2] = s /\ t[Len(mid) + 3] = e
<1>2. PICK x, z : x = <<c>> /\ z = <<s, e>> OBVIOUS
<1>3. x \in Seq(S) /\ Len(x) = 1 /\ x[1] = c /\ z \in Seq(S) /\ Len(z) = 2 /\ z[1] = s /\ z[2] = e BY <1>2
<1>4. PICK y : y = x \o mid OBVIOUS
<1>5. /\ y \in Seq(S) /\ Len(y) = Len(mid) + 1 /\ Len(mid) \in Nat /\ y[1] = c
      /\ \A j \in 1 .. Len(mid) : y[j + 1] = mid[j]
  <2>1. /\ y \in Seq(S) /\ Len(y) = 1 + Len(mid) /\ Len(mid) \in Nat
        /\ \A i \in 1 .. 1 : y[i] = x[i]
        /\ \A i \in 1 .. Len(mid) : y[1 + i] = mid[i]
    <3>1. Len(x) = 1 /\ x \in Seq(S) /\ mid \in Seq(S) BY <1>3
    <3>2. /\ y \in Seq(S) /\ Len(y) = Len(x) + Len(mid) /\ Len(mid) \in Nat
          /\ \A i \in 1 .. Len(x) : y[i] = x[i]
          /\ \A i \in 1 .. Len(mid) : y[Len(x) + i] = mid[i]
      <4>2. x \o mid \in Seq(S) /\ Len(x \o mid) = Len(x) + Len(mid)
            /\ \A i \in 1 .. Len(x) + Len(mid) : (x \o mid)[i] = IF i <= Len(x) THEN x[i] ELSE mid[i - Len(x)]
        BY <3>1, ConcatProperties, Zenon
      <4> QED BY <1>4, <3>1, <4>2
    <3> QED BY <3>1, <3>2
  <2> QED BY <1>3, <2>1
<1> QED BY <1>2, <1>3, <1>4, <1>5

\* The settings are reset.
LEMMA ClearSettingsHolds ==
    ASSUME SettingsInv, ClearSettings
    PROVE  SettingsInv'
<1> DEFINE g == lastAcceptedPolicyGeneration
           p == lastAcceptedPolicyPayload
           again == IF g = 0 THEN <<>>
                    ELSE IF p = "" THEN <<set("floor", g)>>
                    ELSE <<set("floor", g), set("digest", p)>>
<1>1. /\ Ready /\ Elsewhere /\ UNCHANGED <<file, accepted>> /\ app.up /\ Tasks = <<>> /\ owed' = {}
      /\ Ask([app EXCEPT !.list = {}, !.default = {}], <<Just("clear")>> \o again \o syncToStorage({}, {}))
  BY DEF ClearSettings, Ready, Tasks
<1>2. PICK list, default, o : list = {} /\ default = {} /\ o = app.observed OBVIOUS
<1>4. PICK a : a = Showing(list, default, o) OBVIOUS
<1>5. [app EXCEPT !.list = {}, !.default = {}] = a BY <1>2, <1>4, ProcessFields DEF Processes, Showing
<1>6. PICK c, f, d, s, e : c = Just("clear") /\ f = set("floor", g) /\ d = set("digest", p)
                           /\ s = save({}, {}) /\ e = Just("persist") OBVIOUS
<1>7. /\ c.do = "clear" /\ f.do = "set" /\ f.key = "floor" /\ f.v = g /\ d.do = "set" /\ d.key = "digest" /\ d.v = p
      /\ s.do = "set" /\ s.key = "servers" /\ s.v = {} /\ s.owe = {} /\ e.do = "persist"
      /\ c \in TaskSet /\ s \in TaskSet /\ e \in TaskSet BY <1>6 DEF Just, set, save, TaskSet
<1>8. /\ g # 0 => g = FloorOf(mem) /\ f \in TaskSet
      /\ p # "" => p = DigestOf(mem) /\ d \in TaskSet BY <1>6, <1>1, FloorAgain DEF set, TaskSet
<1>9. PICK tasks, mid : tasks = <<c>> \o mid \o <<s, e>> /\ mid = again OBVIOUS
<1>10. Ask(a, tasks) BY <1>1, <1>5, <1>6, <1>9 DEF syncToStorage
<1>11. /\ mid \in Seq(TaskSet)
       /\ \A j \in 1 .. Len(mid) :
             \/ j = 1 /\ mid[1] = f /\ g # 0
             \/ j = 2 /\ mid[1] = f /\ mid[2] = d /\ g # 0 /\ p # ""
  <2>1. CASE g = 0 BY <1>9, <2>1
  <2>2. CASE g # 0 /\ p = ""
    <3>1. mid = <<f>> /\ f \in TaskSet BY <1>6, <1>8, <1>9, <2>2
    <3>2. Len(mid) = 1 /\ mid[1] = f BY <3>1
    <3>3. mid \in Seq(TaskSet) BY <3>1, TaskTuples
    <3>4. \A j \in 1 .. 1 : j = 1 OBVIOUS
    <3> QED BY <2>2, <3>2, <3>3, <3>4
  <2>3. CASE g # 0 /\ p # ""
    <3>1. mid = <<f, d>> /\ f \in TaskSet /\ d \in TaskSet BY <1>6, <1>8, <1>9, <2>3
    <3>2. Len(mid) = 2 /\ mid[1] = f /\ mid[2] = d BY <3>1
    <3>3. \A j \in 1 .. 2 : j = 1 \/ j = 2 OBVIOUS
    <3> QED BY <2>3, <3>1, <3>2, <3>3, TaskTuples
  <2> QED BY <2>1, <2>2, <2>3
<1> HIDE DEF g, p, again
<1>12. PICK n : n = Len(mid) + 3 OBVIOUS
<1>13. /\ tasks \in Seq(TaskSet) /\ Len(tasks) = n /\ n \in Nat /\ Len(mid) \in Nat /\ tasks[1] = c
       /\ \A j \in 1 .. Len(mid) : tasks[j + 1] = mid[j]
       /\ tasks[n - 1] = s /\ tasks[n] = e
  <2>1. /\ tasks \in Seq(TaskSet) /\ Len(tasks) = Len(mid) + 3 /\ Len(mid) \in Nat /\ tasks[1] = c
        /\ \A j \in 1 .. Len(mid) : tasks[j + 1] = mid[j]
        /\ tasks[Len(mid) + 2] = s /\ tasks[Len(mid) + 3] = e
    <3>1. PICK S : S = TaskSet OBVIOUS
    <3>2. c \in S /\ s \in S /\ e \in S /\ mid \in Seq(S) BY <1>7, <1>11, <3>1
    <3> QED BY <1>9, <3>1, <3>2, Around
  <2> QED BY <1>12, <2>1
<1>14. Started(tasks) /\ app'.list = list /\ app'.observed = o
  BY <1>1, <1>2, <1>4, <1>10, <1>13, SameProcess, AskStarts
<1>15. Tasks' = tasks /\ mem' = mem /\ Positions' = 1 .. n BY <1>13, <1>14 DEF Started, Positions
<1>16. ListPlan' /\ FloorPlan' /\ ~Reads("floor")'
  <2>1. FloorOf(mem)' = FloorOf(mem) /\ DigestOf(mem)' = DigestOf(mem) BY <1>15 DEF FloorOf, DigestOf
  <2>2. ASSUME NEW i \in 1 .. n PROVE ResetTask(i, n)'
    <3>2. CASE i \in {1, n - 1, n} BY <1>7, <1>13, <1>15, <3>2 DEF ResetTask
    <3>3. CASE i - 1 \in 1 .. Len(mid) /\ i = (i - 1) + 1
      <4>1. tasks[i] = mid[i - 1] BY <1>13, <3>3
      <4>2. CASE i - 1 = 1 /\ mid[1] = f /\ g # 0
        <5>1. i = 2 /\ tasks[i] = f BY <3>3, <4>1, <4>2
        <5> QED BY <1>7, <1>8, <1>15, <2>1, <4>2, <5>1 DEF ResetTask
      <4>3. CASE i - 1 = 2 /\ mid[1] = f /\ mid[2] = d /\ g # 0 /\ p # ""
        <5>1. i = 3 /\ tasks[3] = d
          <6>1. \A j \in 1 .. n : j - 1 = 2 => j = 3 BY <1>13
          <6> QED BY <4>1, <4>3, <6>1, Zenon
        <5>2. 1 \in 1 .. Len(mid) /\ 2 = 1 + 1
          <6>2. 2 \in 1 .. Len(mid) /\ Len(mid) \in Nat BY <1>13, <3>3, <4>3
          <6> QED BY <6>2
        <5>3. tasks[2] = f BY <1>13, <4>3, <5>2
        <5> QED BY <1>7, <1>8, <1>15, <2>1, <4>3, <5>1, <5>3 DEF ResetTask
      <4> QED BY <1>11, <3>3, <4>2, <4>3
    <3> QED BY <1>12, <1>13, <3>2, <3>3
  <2> QED BY <1>1, <1>13, <1>15, <2>2, ResetPlan
<1> QED BY <1>1, <1>2, <1>14, <1>16, ProcessFields, StartedHolds

\* The backup's list, when it has one, replaces the stored one, and is read.
LEMMA RestoreAppConfigHolds ==
    ASSUME SettingsInv, RestoreAppConfig
    PROVE  SettingsInv'
<1>1. /\ Ready /\ Elsewhere /\ UNCHANGED <<file, accepted>> /\ app.up /\ Tasks = <<>>
      /\ owed' = IF file.has THEN {} ELSE owed
      /\ Ask(app, (IF file.has THEN <<save(file.list, file.list)>> ELSE <<>>) \o <<get("servers")>>)
  BY DEF RestoreAppConfig, Ready, Tasks
<1>2. PICK list, default, o, b, e : /\ list = app.list /\ default = app.default /\ o = app.observed
                                    /\ b = save(file.list, file.list) /\ e = get("servers") OBVIOUS
<1>3. /\ list \in SUBSET Servers /\ default \in SUBSET Servers /\ o \in Nat /\ file.list \in SUBSET Servers
  BY <1>2, SameProcess, ProcessFields DEF Backups
<1>4. /\ b \in TaskSet /\ b.do = "set" /\ b.key = "servers" /\ b.v = b.owe
      /\ e \in TaskSet /\ e.do = "get" /\ e # get("floor") /\ b # get("floor") /\ b # get("servers") /\ e.key = "servers"
  BY <1>2, <1>3 DEF save, get, TaskSet
<1>5. PICK a, tasks : a = Showing(list, default, o) /\ tasks = IF file.has THEN <<b, e>> ELSE <<e>> OBVIOUS
<1>6. (IF file.has THEN <<b>> ELSE <<>>) \o <<e>> = tasks
  <2>1. <<b>> \o <<e>> = <<b, e>>
    <3>1. PICK x, y, z : x = <<b>> \o <<e>> /\ y = <<b, e>> /\ z = {b, e} OBVIOUS
    <3>2. x \in Seq(z) /\ Len(x) = 2 /\ x[1] = b /\ x[2] = e BY <3>1
    <3>3. y \in Seq(z) /\ Len(y) = 2 /\ y[1] = b /\ y[2] = e BY <3>1
    <3>5. x = y BY <3>2, <3>3, SeqEqual
    <3> QED BY <3>1, <3>5
  <2>2. <<>> \o <<e>> = <<e>> OBVIOUS
  <2> QED BY <1>5, <2>1, <2>2
<1>7. tasks \in Seq(TaskSet) /\ Ask(a, tasks) BY <1>1, <1>2, <1>4, <1>5, <1>6, SameProcess, TaskTuples
<1>8. Started(tasks) /\ app'.list = list /\ app'.observed = o BY <1>1, <1>3, <1>5, <1>7, AskStarts
<1>9. Tasks' = tasks BY <1>8 DEF Started
<1>10. ListPlan' /\ FloorPlan' /\ ~Reads("floor")' /\ Reads("servers")'
  BY <1>5, <1>9, <1>4, <1>2, <1>1 DEF Positions, Saves, ReadsAfter, Reads, get, ListPlan, FloorPlan, Sets
<1> QED BY <1>1, <1>2, <1>8, <1>10, ProcessFields, StartedHolds

\* A newer release: its floor is written before it is taken.
LEMMA NewReleaseHolds ==
    ASSUME SettingsInv, Ready, Elsewhere, UNCHANGED <<file, owed, accepted>>, NEW g \in Nat, NEW p \in Payloads,
           g > app.observed, Ask(app, <<set("floor", g), set("digest", p), bind(g, p)>>)
    PROVE  SettingsInv'
<1>1. app.up /\ Tasks = <<>> /\ app.observed \in Nat BY SameProcess DEF Ready, Tasks
<1>2. PICK list, default, o, f, d, b : /\ list = app.list /\ default = app.default /\ o = app.observed
                                       /\ f = set("floor", g) /\ d = set("digest", p) /\ b = bind(g, p) OBVIOUS
<1>3. list \in SUBSET Servers /\ default \in SUBSET Servers /\ o \in Nat /\ g # 0 BY <1>1, <1>2, SameProcess
<1>4. /\ f \in TaskSet /\ f.do = "set" /\ f.key = "floor" /\ f.v = g
      /\ d \in TaskSet /\ d.do = "set" /\ d.key = "digest" /\ d.v = p
      /\ b \in TaskSet /\ b.do = "bind" /\ b.g = g BY <1>2, <1>3 DEF set, bind, TaskSet
<1>5. PICK a, tasks : a = Showing(list, default, o) /\ tasks = <<f, d, b>> OBVIOUS
<1>6. tasks \in Seq(TaskSet) /\ Ask(a, tasks) BY <1>2, <1>4, <1>5, SameProcess, TaskTuples
<1>7. Started(tasks) /\ app'.list = list /\ app'.observed = o BY <1>3, <1>5, <1>6, AskStarts
<1>9. Above(g)' BY <1>1, ProcessFields DEF Reads, Positions, SettingsInv, FloorsOK, Observed, Above
<1>10. /\ Positions' = 1 .. 3 /\ Tasks'[1] = f /\ Tasks'[2] = d /\ Tasks'[3] = b /\ Len(Tasks') = 3
       /\ \A i \in 1 .. 3 : i = 1 \/ i = 2 \/ i = 3 BY <1>5, <1>7 DEF Positions, Started
<1>11. \A i \in Positions' : Tasks'[i].do \in {"set", "bind"} /\ ~Saves(i)' BY <1>4, <1>10 DEF Saves
<1>12. \A i \in Positions' : \A k : Tasks'[i] # [do |-> "get", key |-> k] BY <1>11
<1> QED
  BY <1>1, <1>2, <1>4, <1>7, <1>9, <1>10, <1>11, <1>12, ProcessFields, DoneMaterial, IdleList, StartedHolds DEF
    ListPlan, get, Reads, Sets, FloorPlan, Started

\* A signed release arrives.
LEMMA AcceptPolicyHolds ==
    ASSUME SettingsInv, AcceptPolicy
    PROVE  SettingsInv'
<1>1. Ready /\ Elsewhere /\ UNCHANGED <<file, owed>> /\ app.up /\ Tasks = <<>> /\ app.observed \in Nat
  BY SameProcess DEF AcceptPolicy, Ready, Tasks
<1>2. PICK g \in 1 .. MaxGeneration, p \in Payloads :
        LET kept == lastAcceptedPolicyGeneration
            floor == IF app.observed > kept THEN app.observed ELSE kept
        IN  \/ /\ g > floor
               /\ Ask(app, <<set("floor", g), set("digest", p), bind(g, p)>>)
               /\ UNCHANGED accepted
            \/ /\ g = floor /\ g = kept /\ p = lastAcceptedPolicyPayload
               /\ Ask([app EXCEPT !.observed = floor], <<>>)
               /\ accepted' = Accepted(g, p) BY DEF AcceptPolicy, Persisted
<1>3. g \in Nat \ {0}
  <2>1. MaxGeneration \in Nat BY SettingsAssumption
  <2> QED BY <2>1
<1>4. PICK kept : kept = lastAcceptedPolicyGeneration OBVIOUS
<1>5. kept \in Nat
  <2>1. kept # 0 => kept = FloorOf(mem) /\ FloorOf(mem) \in Nat BY <1>1, <1>4, FloorAgain, Zenon
  <2> QED BY <2>1
<1>6. CASE g > app.observed /\ Ask(app, <<set("floor", g), set("digest", p), bind(g, p)>>) /\ UNCHANGED accepted
  BY <1>1, <1>3, <1>6, NewReleaseHolds
<1>7. CASE g = kept /\ g >= app.observed /\ p = lastAcceptedPolicyPayload /\ Ask([app EXCEPT !.observed = g], <<>>)
           /\ accepted' = Accepted(g, p)
  <2>1. PICK list, default, o, a, tasks :
          list = app.list /\ default = app.default /\ o = g /\ tasks = <<>> /\ a = Showing(list, default, o) OBVIOUS
  <2>2. list \in SUBSET Servers /\ default \in SUBSET Servers /\ o \in Nat /\ tasks \in Seq(TaskSet)
    BY <1>3, <2>1, SameProcess
  <2>3. [app EXCEPT !.observed = g] = a BY <2>1, ProcessFields DEF Processes, Showing
  <2>4. Ask(a, tasks) BY <1>7, <2>1, <2>3
  <2>5. Started(tasks) /\ app'.list = list /\ app'.observed = o BY <1>1, <2>1, <2>2, <2>4, AskStarts
  <2>6. Positions' = {} BY <2>1, <2>5 DEF Started, Positions
  <2>7. MaterialOK' /\ (Locked => Locked') BY <2>5, DoneMaterial DEF Started
  <2>8. \/ ~app.unreset /\ accepted' = Append(accepted, <<g, p>>)
        \/ accepted' = accepted BY <1>7 DEF Accepted
  <2>9. SettingsTypeOK'
    <3>2. StoreTyped(mem)' /\ StoreTyped(disk)' /\ CacheTyped(app.cache)'
      BY <2>5, ProcessFields DEF StoreTyped, CacheTyped, Started
    <3> QED BY <1>1, <1>3, <2>5, <2>8, <3>2, OneMore, ProcessFields DEF SettingsInv, SettingsTypeOK, Started
  <2>12. FloorsOK'
    <3>4. UNCHANGED <<disk, mem>> BY <2>5 DEF Started
    <3>5. Covers(disk)' /\ Covers(mem)' /\ ReleasesMoveForward' /\ Observed'
      <4>1. CASE ~app.unreset /\ accepted' = Append(accepted, <<g, p>>)
        BY <1>4, <1>7, <1>1, <1>3, <4>1, PersistedStored, <3>4, AcceptedStored, <2>1, <2>5 DEF Persisted, Observed
      <4>2. CASE accepted' = accepted
        BY <1>1, <1>3, <1>7, <2>1, <2>5, <3>4, <4>2, CoversKept, ProcessFields DEF FloorOf, DigestOf, SettingsInv,
          FloorsOK, Observed, Reads, Positions
      <4> QED BY <2>8, <4>1, <4>2
    <3> QED BY <2>5, <2>6, <3>5 DEF FloorsOK, FloorPlan, BootReads, Reads, SettingsInv, ReadBack, Started
  <2> QED
    BY <1>1, <2>1, <2>5, <2>6, <2>7, <2>9, <2>12, IdleList, StoresKept DEF SettingsInv, Started, ListPlan, ListOK,
      ListCached, ListShown
<1> QED BY <1>1, <1>2, <1>3, <1>4, <1>5, <1>6, <1>7

-----------------------------------------------------------------------------
(* The process and its surroundings. *)

\* Three tasks after some others.
ThreeMore(t, pre, s, e, f) ==
    /\ Len(t) = Len(pre) + 3 /\ Len(pre) \in Nat
    /\ \A j \in 1 .. Len(pre) : t[j] = pre[j]
    /\ t[Len(pre) + 1] = s /\ t[Len(pre) + 2] = e /\ t[Len(pre) + 3] = f

\* What three more tasks make of a list of tasks.
LEMMA ThreeAfter ==
    ASSUME NEW S, NEW pre \in Seq(S), NEW s \in S, NEW e \in S, NEW f \in S
    PROVE  pre \o <<s, e, f>> \in Seq(S) /\ ThreeMore(pre \o <<s, e, f>>, pre, s, e, f)
<1> DEFINE t == pre \o <<s, e, f>>
<1>1. PICK z : z = <<s, e, f>> OBVIOUS
<1>2. z \in Seq(S) /\ Len(z) = 3 /\ z[1] = s /\ z[2] = e /\ z[3] = f /\ t = pre \o z BY <1>1
<1>3. /\ pre \o z \in Seq(S) /\ Len(pre \o z) = Len(pre) + Len(z)
      /\ \A i \in 1 .. Len(pre) + Len(z) : (pre \o z)[i] = IF i <= Len(pre) THEN pre[i] ELSE z[i - Len(pre)]
  BY <1>2, ConcatProperties, Zenon
<1>4. Len(pre) \in Nat OBVIOUS
<1>5. /\ t \in Seq(S) /\ Len(t) = Len(pre) + 3
      /\ \A i \in 1 .. Len(pre) + 3 : t[i] = IF i <= Len(pre) THEN pre[i] ELSE z[i - Len(pre)] BY <1>2, <1>3
<1> QED BY <1>2, <1>4, <1>5 DEF ThreeMore

\* What the start of the client does, in order.
BootTasks(tasks) ==
    LET n == Len(tasks) IN
    /\ tasks \in Seq(TaskSet) /\ n \in {3, 5}
    /\ n = 5 => tasks[1].do = "migrate" /\ tasks[2].do = "mark"
    /\ tasks[n - 2] = get("servers") /\ tasks[n - 1].do = "persist" /\ tasks[n] = get("floor")

\* The start migrates the settings of before encryption, and reads.
LEMMA BootTasksPlanned ==
    ASSUME NEW tasks,
           tasks = (IF disk["marker"] = Absent THEN <<Just("migrate"), Just("mark")>> ELSE <<>>)
                       \o <<get("servers"), Just("persist"), get("floor")>>
    PROVE  BootTasks(tasks)
<1>1. PICK a, b, s, e, f : a = Just("migrate") /\ b = Just("mark") /\ s = get("servers") /\ e = Just("persist")
                           /\ f = get("floor") OBVIOUS
<1>2. /\ a \in TaskSet /\ b \in TaskSet /\ s \in TaskSet /\ e \in TaskSet /\ f \in TaskSet
      /\ a.do = "migrate" /\ b.do = "mark" /\ e.do = "persist" BY <1>1 DEF Just, get, TaskSet
<1>3. PICK pre, S : pre = (IF disk["marker"] = Absent THEN <<a, b>> ELSE <<>>) /\ S = TaskSet OBVIOUS
<1>4. pre \in Seq(S) /\ Len(pre) \in {0, 2} /\ (Len(pre) = 2 => pre[1] = a /\ pre[2] = b) BY <1>2, <1>3, TaskTuples
<1>6. /\ tasks \in Seq(S) /\ Len(tasks) = Len(pre) + 3 /\ Len(pre) \in Nat
      /\ \A j \in 1 .. Len(pre) : tasks[j] = pre[j]
      /\ tasks[Len(pre) + 1] = s /\ tasks[Len(pre) + 2] = e /\ tasks[Len(pre) + 3] = f
  BY <1>1, <1>2, <1>3, <1>4, ThreeAfter DEF ThreeMore
<1>7. CASE Len(pre) = 0 BY <1>6, <1>7, <1>1, <1>2, <1>3 DEF BootTasks
<1>8. CASE Len(pre) = 2 BY <1>6, <1>8, <1>4, <1>1, <1>2, <1>3 DEF BootTasks
<1> QED BY <1>4, <1>7, <1>8

\* The plans of a start.
LEMMA BootPlan ==
    ASSUME BootTasks(Tasks)', app'.cache["floor"] = NoCache
    PROVE  ListPlan' /\ FloorPlan' /\ BootReads' /\ Reads("servers")' /\ Reads("floor")'
<1>1. PICK n : n = Len(Tasks') OBVIOUS
<1>2. /\ n \in {3, 5} /\ Positions' = 1 .. n
      /\ n = 5 => Tasks'[1].do = "migrate" /\ Tasks'[2].do = "mark"
      /\ Tasks'[n - 2] = [do |-> "get", key |-> "servers"] /\ Tasks'[n - 1].do = "persist"
      /\ Tasks'[n] = [do |-> "get", key |-> "floor"] BY <1>1 DEF BootTasks, Positions, get
<1>3. \A i \in 1 .. n : \/ i = 1 /\ n = 5 /\ Tasks'[i].do = "migrate"
                        \/ i = 2 /\ n = 5 /\ Tasks'[i].do = "mark"
                        \/ i = n - 2 /\ Tasks'[i].do = "get" /\ Tasks'[i] # [do |-> "get", key |-> "floor"]
                        \/ i = n - 1 /\ Tasks'[i].do = "persist"
                        \/ i = n /\ Tasks'[i].do = "get" /\ Tasks'[i] # [do |-> "get", key |-> "servers"] BY <1>2
<1>4. \A i \in 1 .. n : Tasks'[i].do # "set" /\ Tasks'[i].do # "bind" /\ Tasks'[i].do # "clear" BY <1>3
<1>5. \A i \in 1 .. n : ~Saves(i)' /\ ~Sets(i, "floor")' /\ ~Sets(i, "digest")' BY <1>4 DEF Saves, Sets
<1>7. ListPlan' BY <1>1, <1>2, <1>3, <1>4, <1>5 DEF ListPlan, get
<1> QED BY <1>1, <1>2, <1>3, <1>4, <1>5, <1>7 DEF FloorPlan, BootReads, get, Reads

\* The fields of a process that does not run, and of one that starts.
LEMMA DownFields ==
    /\ Down \in Processes /\ Down.up = FALSE /\ Down.cache = [k \in Keys |-> NoCache] /\ Down.call = Idle
    /\ Down.mat = [t \in Tags |-> 0] /\ Down.tried = [t \in Tags |-> FALSE] /\ Idle \in Calls
<1> QED BY DEF Down, Processes, Materials, CachedValues, Idle, Calls, NoTag

\* A late write is of a process that runs.
LEMMA NothingLate ==
    ASSUME SettingsInv, ~app.up
    PROVE  DOMAIN late = {}
BY DEF SettingsInv, MaterialOK

\* The client starts from what the disk holds.
LEMMA StartClientHolds ==
    ASSUME SettingsInv, StartClient
    PROVE  SettingsInv'
<1>1. /\ ~app.up /\ mem' = disk
      /\ UNCHANGED <<disk, chain, away, late, file, owed, accepted, made>> BY DEF StartClient
<1>2. PICK tasks, c :
        /\ tasks = (IF disk["marker"] = Absent THEN <<Just("migrate"), Just("mark")>> ELSE <<>>)
                       \o <<get("servers"), Just("persist"), get("floor")>>
        /\ c = Running(tasks) /\ app' = [Down EXCEPT !.up = TRUE, !.call = c] BY DEF StartClient
<1>3. BootTasks(tasks) /\ tasks \in Seq(TaskSet) BY <1>2, BootTasksPlanned DEF BootTasks
<1>4. c \in Calls /\ c.step = "task" /\ c.tasks = tasks BY <1>2, <1>3 DEF Running, Idle, Calls, NoTag
<1>5. /\ app' \in Processes /\ app'.up /\ app'.call = c /\ app'.cache = [k \in Keys |-> NoCache]
      /\ app'.mat = [t \in Tags |-> 0] BY <1>2, <1>4, DownFields DEF Processes
<1>6. app'.cache["floor"] = NoCache /\ app'.cache["servers"] = NoCache /\ app'.cache["digest"] = NoCache
  BY <1>5 DEF Keys
<1>8. ListPlan' /\ FloorPlan' /\ BootReads' /\ Reads("servers")' /\ Reads("floor")'
  BY <1>3, <1>4, <1>5, <1>6, BootPlan DEF Tasks
<1>11. StoresOK' BY <1>1 DEF SettingsInv, StoresOK, ListIn
<1>12. ListOK' BY <1>6, <1>8 DEF ListOK, ListCached, ListShown, NoCache, Invalid
<1>13. FloorsOK'
  <2>1. Covers(disk)' /\ Covers(mem)' /\ ReleasesMoveForward'
    BY <1>1 DEF SettingsInv, FloorsOK, Covers, FloorOf, DigestOf, ReleasesMoveForward
  <2> QED BY <1>1, <1>6, <1>8, <2>1 DEF FloorsOK, Observed, ReadBack
<1> QED
  BY <1>1, <1>4, <1>5, <1>6, <1>11, <1>12, <1>13, NothingLate, ProcessFields DEF SettingsInv, StoreTyped, CacheTyped,
    NoCache, SettingsTypeOK, MaterialOK

\* The client stops, or dies, between any two calls.
LEMMA StopClientHolds ==
    ASSUME SettingsInv, StopClient
    PROVE  SettingsInv'
<1>1. /\ app' = Down /\ late' = <<>>
      /\ UNCHANGED <<disk, mem, away, file, owed, accepted, made>> BY DEF StopClient
<1>2. /\ chain' \in Materials
      /\ chain' = chain \/ mem["servers"].form # "enc"
  <2>1. CASE chain' = chain BY <2>1, ProcessFields
  <2>2. ASSUME NEW i \in DOMAIN late, chain' = [chain EXCEPT ![late[i].tag] = late[i].v]
        PROVE  chain' \in Materials /\ mem["servers"].form # "enc"
    <3>1. PICK S : S = [tag : Tags, v : Nat] OBVIOUS
    <3>2. late \in Seq(S) BY <3>1, ProcessFields
    <3>3. late[i] \in S BY <3>2
    <3> QED BY <2>2, <3>1, <3>3, ProcessFields DEF Materials, SettingsInv, MaterialOK
  <2> QED BY <2>1, <2>2 DEF StopClient
<1>3. /\ app' \in Processes /\ ~app'.up /\ app'.call.tasks = <<>> /\ app'.call.step = "task"
      /\ \A t \in Tags : app'.mat[t] = 0
      /\ \A k \in Keys : app'.cache[k] = NoCache BY <1>1, DownFields DEF Idle
<1>4. Positions' = {} BY <1>3 DEF Positions, Tasks
<1>5. app'.cache["servers"] = NoCache /\ app'.cache["floor"] = NoCache /\ app'.cache["digest"] = NoCache
  BY <1>3 DEF Keys
<1>9. ListOK' BY <1>3, <1>4, <1>5 DEF ListOK, ListCached, ListShown, ListPlan, NoCache, Invalid
<1>10. FloorsOK'
  BY <1>1, CoversKept, <1>3, <1>4 DEF FloorOf, DigestOf, Observed, BootReads, Reads, ReadBack, FloorPlan, FloorsOK
<1> QED
  BY <1>1, <1>2, <1>3, <1>5, <1>9, <1>10, StoresKept, ProcessFields DEF SettingsInv, StoreTyped, CacheTyped, NoCache,
    SettingsTypeOK, MaterialOK

\* QSettings writes what is pending.
LEMMA FlushHolds ==
    ASSUME SettingsInv, Flush
    PROVE  SettingsInv'
<1>1. disk' = mem /\ UNCHANGED <<mem, chain, away, app, late, file, owed, accepted, made>> BY DEF Flush
<1>3. SameWork /\ (Locked => Locked') BY <1>1 DEF SameWork, Locked, Creating, Tag
<1>5. StoresOK' BY <1>1 DEF SettingsInv, StoresOK, ListIn
<1>6. ListOK'
  BY <1>1, <1>3 DEF Tasks, SettingsInv, ListOK, ListCached, ListShown, ListPlan, Positions, Saves, Reads, ReadsAfter
<1>7. FloorsOK'
  <2>1. Tasks' = Tasks /\ FloorOf(mem)' = FloorOf(mem) /\ DigestOf(mem)' = DigestOf(mem)
    BY <1>1 DEF Tasks, FloorOf, DigestOf
  <2> QED
    BY <1>1, <2>1, CoversKept DEF FloorsOK, SettingsInv, Observed, BootReads, Reads, Positions, ReadBack, FloorPlan,
      Sets, Above
<1> QED
  BY <1>1, <1>3, <1>5, <1>6, <1>7, NeedsKept, ProcessFields DEF SettingsInv, StoreTyped, SettingsTypeOK, CacheTyped,
    hasEncryptedPayloads, Tag, Locked, Creating, MaterialOK

\* The keychain is out of reach, or back: what it holds is the same.
LEMMA KeychainHolds ==
    ASSUME SettingsInv, UNCHANGED <<disk, mem, chain, app, late, file, owed, accepted, made>>, away' \in BOOLEAN
    PROVE  SettingsInv'
<1>2. SameWork /\ (Locked => Locked') BY DEF SameWork, Locked, Creating, Tag
<1> QED
  BY <1>2, NeedsKept, WorkKept, StoresKept DEF SettingsInv, SettingsTypeOK, StoreTyped, CacheTyped,
    hasEncryptedPayloads, Tag, Locked, Creating, MaterialOK

\* Every step of the settings keeps the invariant.
LEMMA SettingsStepHolds == SettingsInv /\ [SettingsStep]_settingsVars => SettingsInv'
<1> SUFFICES ASSUME SettingsInv, [SettingsStep]_settingsVars PROVE SettingsInv' OBVIOUS
<1>1. ASSUME StartTask \/ Remembered \/ ReadAnswered \/ ReadFails PROVE SettingsInv'
  BY <1>1, StartTaskHolds, RememberedHolds, ReadAnsweredHolds, ReadFailsHolds
<1>2. ASSUME WriteAnswered \/ WriteFails \/ VerifyAnswered \/ VerifyFails \/ LateWrite PROVE SettingsInv'
  BY <1>2, WriteAnsweredHolds, WriteFailsHolds, VerifyHolds, LateWriteHolds
<1>3. ASSUME Value \/ SetValue \/ SetValueRefused \/ ClearStored PROVE SettingsInv'
  BY <1>3, ValueHolds, SetValueHolds, SetValueRefusedHolds, ClearStoredHolds
<1>4. ASSUME MigratePayloads \/ MigrateMarker \/ MigrateRefused PROVE SettingsInv'
  BY <1>4, MigratePayloadsHolds, MigrateMarkerHolds, MigrateRefusedHolds
<1>5. ASSUME persistDefaultServerFields \/ Bound PROVE SettingsInv' BY <1>5, PersistHolds, BoundHolds
<1>6. ASSUME AddServer \/ EditServer \/ RemoveServer \/ SetDefaultServer PROVE SettingsInv'
  BY <1>6, AddServerHolds, EditServerHolds, RemoveServerHolds, SetDefaultServerHolds
<1>7. ASSUME \/ WriteMigrationJournal \/ ClearSettings \/ BackupAppConfig \/ RestoreAppConfig
             \/ AcceptPolicy
      PROVE  SettingsInv'
  BY <1>7, WriteMigrationJournalHolds, ClearSettingsHolds, BackupAppConfigHolds, RestoreAppConfigHolds,
    AcceptPolicyHolds
<1>8. ASSUME StartClient \/ StopClient \/ Flush PROVE SettingsInv'
  BY <1>8, StartClientHolds, StopClientHolds, FlushHolds
<1>9. ASSUME KeychainLeaves \/ KeychainReturns \/ UNCHANGED settingsVars PROVE SettingsInv'
  <2>1. UNCHANGED <<disk, mem, chain, app, late, file, owed, accepted, made>> /\ away' \in BOOLEAN
    BY <1>9 DEF KeychainLeaves, KeychainReturns, settingsVars, SettingsInv, SettingsTypeOK
  <2> QED BY <2>1, KeychainHolds
<1> QED BY <1>1, <1>2, <1>3, <1>4, <1>5, <1>6, <1>7, <1>8, <1>9 DEF SettingsStep

\* The key material, the stores, the list and the floor are in step in every
\* state of the settings: SettingsInv is inductive.
THEOREM SettingsInvariance == SettingsSpec => []SettingsInv
<1>1. SettingsInit => SettingsInv BY SettingsInitHolds
<1>2. SettingsInv /\ [SettingsStep]_settingsVars => SettingsInv' BY SettingsStepHolds
<1> QED BY <1>1, <1>2, PTL DEF SettingsSpec

\* A server that was saved and not removed can be read again from the disk and
\* the keychain, for any number of servers, restarts, operations and faults.
THEOREM ServersAlwaysSurvive == SettingsSpec => []ServersSurvive
<1>1. SettingsInv => ServersSurvive BY DEF SettingsInv, StoresOK, ListIn, ServersSurvive, Recoverable
<1> QED BY <1>1, SettingsInvariance, PTL

\* The releases the updater accepts never go back and never name a second
\* payload for a generation, for any number of releases, restarts and faults.
THEOREM ReleasesAlwaysMoveForward == SettingsSpec => []ReleasesMoveForward
<1>1. SettingsInv => ReleasesMoveForward BY DEF SettingsInv, FloorsOK
<1> QED BY <1>1, SettingsInvariance, PTL
=============================================================================
