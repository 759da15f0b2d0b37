------------------------- MODULE TenantSync_proofs --------------------------
(***************************************************************************)
(* A satellite that follows the tenants of tenant-manager, for any set of  *)
(* tenants and any number of changes, lookups, failing calls and crashes:  *)
(* types, the first build, what a served and drained table holds, the      *)
(* addresses an operator gave, and what a lookup leaves behind.            *)
(***************************************************************************)
EXTENDS TenantSync, QueueLemmas, FiniteSetTheorems, TLAPS

USE BoundsAssumption

-----------------------------------------------------------------------------
(* The inductive invariant, in six parts.                                  *)

Early == starter \in {"init", "building", "marking"}

\* Until the table counts as built nobody but the starter is at work, and no
\* lookup runs before the service serves.
Calm ==
    /\ Early => ~conn /\ HasJob("watcher", "idle")
    /\ ~conn => wire = <<>>
    /\ ~Serving => Reading("idle")

\* The first build: what is owed a row is what is left to build.
Built ==
    /\ initialised => owed = {}
    /\ starter = "building" => owed \subseteq todo /\ (initialised => blind)
    /\ starter = "marking" => owed = {}
    /\ ~Early => initialised
    /\ \A t \in Tenant : rows[t].sites = "operator" => initialised

\* A row that is going to be written says what its writer was told; it keeps an
\* operator's addresses unless another write came in between.
Writing(a) ==
    /\ job[a].row \in RowType
    /\ job[a].row.removed => job[a].row.sites = "nothing"
    /\ Matching(job[a].row, job[a].status)
    /\ /\ job[a].status = "active" /\ job[a].looked /\ a \notin overtaken
       /\ rows[job[a].tenant].sites = "operator"
       => job[a].row.sites = "operator"
Jobs ==
    \A a \in Actor :
        /\ HasJob(a, "find") => job[a].status \in {"active", "gone"}
        /\ HasJob(a, "write") => Writing(a)

\* The same for the lookup.
Lookup ==
    /\ reader.pc \in {"status", "name"} =>
          /\ reader.row \in RowType
          /\ reader.row.removed => reader.row.sites = "nothing"
          /\ reader.row.active = (reader.status = "active")
          /\ "reader" \notin overtaken =>
                /\ rows[reader.tenant].sites = reader.row.sites
                /\ rows[reader.tenant].removed = reader.row.removed
    /\ AnsweredIsCorrected

\* A frame has one tenant, except the first one of a subscription; the last frame
\* that tells of a tenant tells the truth.
Names(f, t) == f.type # "SUBSCRIBED" /\ f.tenants[1][1] = t
FrameOK(f) ==
    /\ f.type # "SUBSCRIBED" => Len(f.tenants) = 1
    /\ f.type = "DELETED" => f.tenants[1][2] = "gone"
    /\ f.type # "DELETED" => \A j \in DOMAIN f.tenants : f.tenants[j][2] \in {"inactive", "active"}
Frames ==
    /\ \A i \in DOMAIN wire : FrameOK(wire[i])
    /\ \A i \in DOMAIN wire, t \in Tenant :
          Names(wire[i], t) /\ (\A j \in DOMAIN wire : j > i => ~Names(wire[j], t)) =>
              wire[i].tenants[1][2] = status[t]

\* News of a tenant that was not lost has arrived, or is underway to its row: as a
\* frame, as a job, or in what the starter has still to do.
JobFor(t) == \E a \in Actor : ~HasJob(a, "idle") /\ job[a].tenant = t /\ Agrees(job[a].status, t)
StarterWill(t) ==
    \/ starter = "upserting" /\ Known(t) /\ <<t, status[t]>> \in todo
    \/ starter = "upserting" /\ ~Known(t) /\ t \notin listed
    \/ starter = "deleting" /\ ~Known(t) /\ t \in todo
Followed(t) == Matching(rows[t], status[t]) \/ Told(t) \/ JobFor(t) \/ StarterWill(t)
Follows == starter \notin Starting => \A t \in Tenant \ outdated : Followed(t)

SyncInv == TypeOK /\ Calm /\ Built /\ Jobs /\ Lookup /\ Frames /\ Follows
-----------------------------------------------------------------------------
(* Rows and jobs.                                                          *)

\* The rows that are written, and the one that is absent.
LEMMA RowsAre ==
    /\ NoRow.removed = FALSE /\ NoRow.active = FALSE /\ NoRow.sites = "no row" /\ NoRow \notin RowType
    /\ \A active, removed, named \in BOOLEAN, sites \in SitesFrom :
          Row(active, removed, sites, named) \in RowType
    /\ \A active, removed, named, sites :
          /\ Row(active, removed, sites, named).active = active
          /\ Row(active, removed, sites, named).removed = removed
          /\ Row(active, removed, sites, named).sites = sites
BY DEF NoRow, Row, RowType, SitesFrom

\* What Upsert stores of a row keeps its status and the origin of its addresses.
LEMMA StoredIs ==
    ASSUME NEW t, NEW r \in RowType
    PROVE  /\ Stored(t, r) \in RowType /\ Stored(t, r).active = r.active
           /\ Stored(t, r).removed = r.removed /\ Stored(t, r).sites = r.sites
<1> DEFINE named == r.named \/ (t \in Shops /\ r.sites \in {"default", "routes", "operator"})
<1>1. named \in BOOLEAN
  BY Zenon
<1> HIDE DEF named
<1>2. Stored(t, r) = [r EXCEPT !.named = named]
  BY DEF Stored, named
<1> QED BY <1>1, <1>2 DEF RowType

\* The records a job can be.
LEMMA JobsAre ==
    /\ NoJob.pc = "idle" /\ NoReader.pc = "idle" /\ NoJob \notin JobType /\ NoReader \notin ReaderType
    /\ \A t \in Tenant, s \in {"inactive", "active", "gone"}, pc \in {"find", "write"},
          row \in RowType \union {NoRow} :
          /\ Job(t, s, pc, row) \in JobType
          /\ [Job(t, s, pc, row) EXCEPT !.looked = FALSE] \in JobType
    /\ \A t, s, pc, row :
          /\ Job(t, s, pc, row).tenant = t /\ Job(t, s, pc, row).status = s
          /\ Job(t, s, pc, row).pc = pc /\ Job(t, s, pc, row).row = row
BY DEF NoJob, NoReader, Job, JobType, ReaderType

\* A deletion that is taken up begins with reading the row.
LEMMA DeletingIs ==
    ASSUME NEW t \in Tenant
    PROVE  /\ Deleting(t) \in JobType /\ Deleting(t).pc = "find"
           /\ Deleting(t).tenant = t /\ Deleting(t).status = "gone"
BY DEF Deleting, Job, JobType

\* So does the upsert of an active tenant; that of an inactive one writes an empty row.
LEMMA UpsertingIs ==
    ASSUME NEW t \in Tenant, NEW s \in {"inactive", "active"}
    PROVE  /\ Upserting(t, s) \in JobType
           /\ Upserting(t, s).tenant = t /\ Upserting(t, s).status = s
           /\ Upserting(t, s).pc = "find" => s = "active"
           /\ Upserting(t, s).pc = "write" =>
                 Upserting(t, s).row = Row(FALSE, FALSE, "nothing", FALSE) /\ s = "inactive"
<1>1. Row(FALSE, FALSE, "nothing", FALSE) \in RowType
  BY RowsAre DEF SitesFrom
<1>2. CASE s = "active"
  BY <1>2 DEF Upserting, Job, JobType
<1>3. CASE s = "inactive"
  BY <1>1, <1>3 DEF Upserting, Job, JobType
<1> QED BY <1>2, <1>3

\* Either way a row that is written without a lookup is that of an inactive tenant.
LEMMA TakenUp ==
    ASSUME NEW t \in Tenant, NEW s \in {"inactive", "active"},
           NEW j \in {Upserting(t, s), Deleting(t)}
    PROVE  /\ j.pc = "find" => j.status \in {"active", "gone"}
           /\ j.pc = "write" =>
                 j.row = Row(FALSE, FALSE, "nothing", FALSE) /\ j.status = "inactive"
<1>1. CASE j = Deleting(t)
  BY <1>1, DeletingIs
<1>2. CASE j = Upserting(t, s)
  BY <1>2, UpsertingIs
<1> QED BY <1>1, <1>2

-----------------------------------------------------------------------------
(* Types, by groups of variables.                                          *)

ExternalOK == status \in [Tenant -> Status] /\ inputs \in Nat
SocketOK == conn \in BOOLEAN /\ wire \in Seq(FrameType)
RowsOK ==
    /\ rows \in [Tenant -> RowType \union {NoRow}]
    /\ \A t \in Tenant : rows[t].removed => rows[t].sites = "nothing"
StartOK ==
    /\ starter \in Starting \union {"upserting", "deleting", "serving"}
    /\ todo \subseteq (IF starter = "upserting" THEN Tenant \X {"inactive", "active"} ELSE Tenant)
    /\ listed \subseteq Tenant /\ owed \subseteq routes /\ routes \subseteq Tenant /\ blind \in BOOLEAN
JobOK == job \in [Actor -> JobType \union {NoJob}]
ReaderOK == reader \in ReaderType \union {NoReader}
HistoryOK == outdated \subseteq Tenant /\ overtaken \subseteq Actor \union {"reader"}
CountersOK == faults \in Nat /\ crashes \in Nat
IdleOK == starter \notin {"upserting", "deleting"} => StarterIdle

AllParts ==
    /\ ExternalOK /\ SocketOK /\ RowsOK /\ initialised \in BOOLEAN /\ StartOK
    /\ JobOK /\ ReaderOK /\ HistoryOK /\ CountersOK /\ IdleOK

\* The type of the state is that of its parts.
LEMMA TypeParts == (TypeOK <=> AllParts) /\ (AllParts' => TypeOK')
<1>1. TypeOK <=> AllParts
  BY DEF TypeOK, AllParts, ExternalOK, SocketOK, RowsOK, StartOK, JobOK, ReaderOK, HistoryOK,
         CountersOK, IdleOK
<1>2. AllParts' => TypeOK'
  BY DEF TypeOK, AllParts, ExternalOK, SocketOK, RowsOK, StartOK, JobOK, ReaderOK, HistoryOK,
         CountersOK, IdleOK
<1> QED BY <1>1, <1>2

\* A part that does not change keeps its type.
LEMMA PartsKept ==
    ASSUME TypeOK
    PROVE  /\ UNCHANGED external => ExternalOK'
           /\ UNCHANGED socket => SocketOK'
           /\ UNCHANGED rows => RowsOK'
           /\ UNCHANGED initialised => (initialised \in BOOLEAN)'
           /\ UNCHANGED startup /\ UNCHANGED routes => StartOK'
           /\ UNCHANGED job => JobOK'
           /\ UNCHANGED reader => ReaderOK'
           /\ UNCHANGED <<outdated, overtaken>> => HistoryOK'
           /\ UNCHANGED counters \/ Failing => CountersOK'
           /\ UNCHANGED <<starter, job>> => IdleOK'
<1>1. AllParts
  BY TypeParts
<1>2. UNCHANGED external => ExternalOK'
  BY <1>1 DEF AllParts, ExternalOK, external
<1>3. UNCHANGED socket => SocketOK'
  BY <1>1 DEF AllParts, SocketOK, socket
<1>4. UNCHANGED rows => RowsOK'
  BY <1>1 DEF AllParts, RowsOK
<1>5. UNCHANGED initialised => (initialised \in BOOLEAN)'
  BY <1>1 DEF AllParts
<1>6. UNCHANGED startup /\ UNCHANGED routes => StartOK'
  BY <1>1 DEF AllParts, StartOK, startup
<1>7. (UNCHANGED job => JobOK') /\ (UNCHANGED reader => ReaderOK')
  BY <1>1 DEF AllParts, JobOK, ReaderOK
<1>8. UNCHANGED <<outdated, overtaken>> => HistoryOK'
  BY <1>1 DEF AllParts, HistoryOK
<1>9. UNCHANGED counters \/ Failing => CountersOK'
  BY <1>1 DEF AllParts, CountersOK, counters, Failing
<1>10. UNCHANGED <<starter, job>> => IdleOK'
  BY <1>1 DEF AllParts, IdleOK, StarterIdle, HasJob
<1> QED BY <1>2, <1>3, <1>4, <1>5, <1>6, <1>7, <1>8, <1>9, <1>10

\* The first start has its types.
LEMMA InitTypes == Init => TypeOK
<1> SUFFICES ASSUME Init PROVE TypeOK
  OBVIOUS
<1>1. job = [a \in Actor |-> NoJob] /\ reader = NoReader /\ rows = [t \in Tenant |-> NoRow]
  BY DEF Init
<1>2. \A t \in Tenant : rows[t].removed => rows[t].sites = "nothing"
  BY <1>1, RowsAre
<1>3. StarterIdle
  BY <1>1, JobsAre DEF StarterIdle, HasJob, Actor
<1>4. status \in [Tenant -> Status]
  BY DEF Init, Status
<1>5. RowsOK /\ JobOK /\ ReaderOK
  BY <1>1, <1>2 DEF RowsOK, JobOK, ReaderOK
<1>8. wire \in Seq(FrameType) /\ wire = <<>>
  BY DEF Init
<1>9. conn \in BOOLEAN /\ initialised \in BOOLEAN
  BY Zenon DEF Init
<1>6. ExternalOK /\ SocketOK /\ HistoryOK /\ CountersOK
  BY <1>4, <1>8, <1>9 DEF Init, ExternalOK, SocketOK, HistoryOK, CountersOK
<1>7. StartOK /\ IdleOK
  BY <1>3 DEF Init, StartOK, IdleOK, Starting
<1> QED BY <1>5, <1>6, <1>7, <1>9, TypeParts DEF AllParts

\* A restart forgets what the process held.
LEMMA RestartTypes ==
    ASSUME TypeOK, Restart, UNCHANGED tables, faults' \in Nat, crashes' \in Nat
    PROVE  TypeOK'
<1>1. /\ UNCHANGED <<external, routes, owed, blind>> /\ UNCHANGED <<rows, initialised>>
      /\ starter' = "init" /\ todo' = {} /\ listed' = {} /\ conn' = FALSE /\ wire' = <<>>
      /\ job' = [a \in Actor |-> NoJob] /\ reader' = NoReader /\ outdated' = {} /\ overtaken' = {}
  BY DEF Restart, tables
<1>2. AllParts
  BY TypeParts
<1>3. JobOK' /\ ReaderOK'
  BY <1>1 DEF JobOK, ReaderOK
<1>7. conn' \in BOOLEAN
  BY <1>1, Zenon
<1>8. wire' \in Seq(FrameType)
  BY <1>1
<1>6. HistoryOK' /\ CountersOK' /\ SocketOK'
  BY <1>1, <1>7, <1>8 DEF HistoryOK, CountersOK, SocketOK
<1>4. IdleOK'
  BY <1>1, JobsAre DEF IdleOK, StarterIdle, HasJob, Actor
<1>5. StartOK'
  BY <1>1, <1>2 DEF AllParts, StartOK, Starting
<1> QED BY <1>1, <1>3, <1>4, <1>5, <1>6, PartsKept, TypeParts DEF AllParts

\* A crash leaves the tables alone.
LEMMA Crashes ==
    ASSUME TypeOK, Crash \/ BuildPanics
    PROVE  Restart /\ UNCHANGED tables /\ faults' \in Nat /\ crashes' \in Nat
BY TypeParts DEF Crash, BuildPanics, AllParts, CountersOK, Failing, tables

\* A write of a row: everything else in the table stays.
LEMMA RowWritten ==
    ASSUME TypeOK, NEW t \in Tenant, NEW r \in RowType \union {NoRow},
           r.removed => r.sites = "nothing", rows' = [rows EXCEPT ![t] = r]
    PROVE  /\ RowsOK' /\ rows'[t] = r
           /\ \A u \in Tenant : u # t => rows'[u] = rows[u]
<1>1. RowsOK
  BY TypeParts DEF AllParts
<1> QED BY <1>1 DEF RowsOK

\* buildSchemeIfRequired keeps the types.
LEMMA BuildTypes ==
    ASSUME TypeOK,
           \/ FindInitInformation \/ FindInitFails \/ BuildAll \/ SetInitInformation
           \/ \E t \in Tenant : BuildTenant(t)
    PROVE  TypeOK'
<1>1. AllParts
  BY TypeParts
<1>2. starter \in {"init", "building", "marking"} => StarterIdle
  BY <1>1 DEF AllParts, IdleOK
<1>3. CASE FindInitInformation \/ FindInitFails
  <2>1. /\ UNCHANGED <<external, socket, tables, routes, job, reader, outdated, overtaken>>
        /\ UNCHANGED counters \/ Failing
        /\ UNCHANGED <<rows, initialised, listed, owed>> /\ starter = "init"
        /\ starter' \in {"listing", "building"} /\ todo' \subseteq Tenant
        /\ blind' = blind \/ blind' = (blind \/ initialised)
    BY <1>1, <1>3 DEF FindInitInformation, FindInitFails, tables, AllParts, StartOK
  <2>2. blind' \in BOOLEAN
    BY <1>1, <2>1 DEF AllParts, StartOK
  <2>3. StartOK' /\ IdleOK'
    BY <1>1, <1>2, <2>1, <2>2 DEF AllParts, StartOK, IdleOK, StarterIdle, HasJob, Starting
  <2> QED BY <2>1, <2>3, PartsKept, TypeParts DEF AllParts
<1>4. CASE BuildAll \/ SetInitInformation
  <2>1. /\ UNCHANGED <<external, socket, rows, routes, job, reader, outdated, overtaken, counters>>
        /\ initialised' \in {initialised, TRUE}
        /\ UNCHANGED <<todo, listed, owed, blind>> /\ starter \in {"building", "marking"}
        /\ starter' \in {"listing", "marking"}
    BY <1>4 DEF BuildAll, SetInitInformation, tables
  <2>2. StartOK' /\ IdleOK' /\ initialised' \in BOOLEAN
    BY <1>1, <1>2, <2>1 DEF AllParts, StartOK, IdleOK, StarterIdle, HasJob, Starting
  <2> QED BY <2>1, <2>2, PartsKept, TypeParts DEF AllParts
<1>5. ASSUME NEW t \in Tenant, BuildTenant(t) PROVE TypeOK'
  <2>1. PICK named \in BOOLEAN : rows' = [rows EXCEPT ![t] = Row(TRUE, FALSE, "routes", named)]
    BY <1>5 DEF BuildTenant
  <2>2. RowsOK'
    <3>1. /\ Row(TRUE, FALSE, "routes", named) \in RowType
          /\ ~Row(TRUE, FALSE, "routes", named).removed
      BY RowsAre DEF SitesFrom
    <3> QED BY <2>1, <3>1, RowWritten
  <2>3. /\ UNCHANGED <<external, socket, initialised, routes, job, reader, outdated, overtaken, counters>>
        /\ UNCHANGED <<starter, listed, blind>> /\ todo' = todo \ {t} /\ owed' = owed \ {t}
        /\ starter = "building"
    BY <1>5 DEF BuildTenant
  <2>4. StartOK'
    BY <1>1, <2>3 DEF AllParts, StartOK
  <2> QED BY <2>2, <2>3, <2>4, PartsKept, TypeParts DEF AllParts
<1> QED BY <1>3, <1>4, <1>5

\* A job that is taken, goes on or ends.
LEMMA JobStep ==
    ASSUME TypeOK, NEW a \in Actor, NEW j \in JobType \union {NoJob}, job' = [job EXCEPT ![a] = j],
           a = "starter" => starter' \in {"upserting", "deleting"},
           a # "starter" => starter' = starter
    PROVE  /\ JobOK' /\ IdleOK' /\ job'[a] = j
           /\ \A b \in Actor : b # a => job'[b] = job[b]
<1>1. JobOK /\ IdleOK
  BY TypeParts DEF AllParts
<1>2. JobOK' /\ job'[a] = j /\ \A b \in Actor : b # a => job'[b] = job[b]
  BY <1>1 DEF JobOK
<1>3. "starter" \in Actor
  BY DEF Actor
<1> QED BY <1>1, <1>2, <1>3 DEF IdleOK, StarterIdle, HasJob

\* Lists and snapshots of the starter keep the types.
LEMMA LoadTypes ==
    ASSUME TypeOK, Load
    PROVE  TypeOK'
<1>1. AllParts
  BY TypeParts
<1>2. CASE ListTenants
  <2>1. /\ UNCHANGED <<external, socket, tables, rows, initialised, routes, job, reader, outdated,
                       overtaken, counters, owed, blind>>
        /\ starter = "listing" /\ starter' = "upserting"
        /\ listed' = {t \in Tenant : Known(t)} /\ todo' = {<<t, status[t]>> : t \in listed'}
    BY <1>2 DEF ListTenants, tables
  <2>2. todo' \subseteq Tenant \X {"inactive", "active"} /\ listed' \subseteq Tenant
    BY <2>1 DEF Known
  <2>3. StartOK' /\ IdleOK'
    BY <1>1, <2>1, <2>2 DEF AllParts, StartOK, IdleOK, StarterIdle, HasJob
  <2> QED BY <2>1, <2>3, PartsKept, TypeParts DEF AllParts
<1>3. CASE ListFails
  <2>1. /\ UNCHANGED <<external, socket, tables, rows, initialised, routes, startup, job, reader,
                       outdated, overtaken, starter>>
        /\ Failing
    BY <1>3 DEF ListFails, tables, startup
  <2> QED BY <2>1, PartsKept, TypeParts DEF AllParts
<1>4. CASE FindAll \/ FindAllFails \/ Serve
  <2>1. /\ UNCHANGED <<external, socket, tables, rows, initialised, routes, job, reader, outdated,
                       overtaken, owed, blind>>
        /\ UNCHANGED counters \/ Failing
        /\ starter' \in {"deleting", "listing", "serving"} /\ todo' \subseteq Tenant
        /\ listed' \in {listed, {}} /\ StarterIdle
    BY <1>1, <1>4 DEF FindAll, FindAllFails, Serve, tables, AllParts, StartOK
  <2>2. StartOK' /\ IdleOK'
    BY <1>1, <2>1 DEF AllParts, StartOK, IdleOK, StarterIdle, HasJob, Starting
  <2> QED BY <2>1, <2>2, PartsKept, TypeParts DEF AllParts
<1>5. ASSUME NEW t \in Tenant, NEW s \in {"inactive", "active"}, UpsertListed(t, s) \/ DeleteAbsent(t)
      PROVE  TypeOK'
  <2>1. /\ UNCHANGED <<external, socket, tables, rows, initialised, routes, reader, outdated,
                       overtaken, counters, starter, listed, owed, blind>>
        /\ starter \in {"upserting", "deleting"} /\ todo' \subseteq todo
        /\ job' = [job EXCEPT !["starter"] = Upserting(t, s)]
           \/ job' = [job EXCEPT !["starter"] = Deleting(t)]
    BY <1>5 DEF UpsertListed, DeleteAbsent, tables
  <2>2. JobOK' /\ IdleOK'
    <3>1. /\ "starter" \in Actor /\ starter' \in {"upserting", "deleting"}
          /\ Upserting(t, s) \in JobType /\ Deleting(t) \in JobType
      BY <2>1, DeletingIs, UpsertingIs DEF Actor
    <3> QED BY <2>1, <3>1, JobStep
  <2>3. StartOK'
    BY <1>1, <2>1 DEF AllParts, StartOK
  <2> QED BY <2>1, <2>2, <2>3, PartsKept, TypeParts DEF AllParts
<1> QED BY <1>2, <1>3, <1>4, <1>5 DEF Load

\* What a lookup of a row, found or failed, makes of a job.
FoundRow(a, j) ==
    \/ /\ j = NoJob /\ job[a].status = "gone"
       /\ IsRow(job[a].tenant) => job[a].tenant \in outdated'
    \/ /\ j \in JobType /\ j.pc = "write" /\ j.tenant = job[a].tenant /\ j.status = job[a].status
       /\ j.row \in RowType /\ (j.row.removed => j.row.sites = "nothing")
       /\ Matching(j.row, j.status)
       /\ j.status = "active" /\ j.looked /\ rows[j.tenant].sites = "operator"
             => j.row.sites = "operator"

\* FindRow gives the job what it needs of the row, or ends it.
LEMMA FindDoes ==
    ASSUME TypeOK, Jobs, NEW a \in Actor, FindRow(a) \/ FindRowFails(a)
    PROVE  \E j \in JobType \union {NoJob} : job' = [job EXCEPT ![a] = j] /\ FoundRow(a, j)
<1> DEFINE t == job[a].tenant
           s == job[a].status
<1>1. t \in Tenant /\ s \in {"active", "gone"}
  <2>1. HasJob(a, "find") /\ job[a] \in JobType \union {NoJob}
    BY TypeParts DEF AllParts, JobOK, FindRow, FindRowFails
  <2>2. job[a] \in JobType
    BY <2>1, JobsAre DEF HasJob
  <2> QED BY <2>1, <2>2 DEF JobType, Jobs
<1>2. rows[t] \in RowType \union {NoRow} /\ (IsRow(t) <=> rows[t] # NoRow)
  BY <1>1, TypeParts DEF AllParts, RowsOK, IsRow
<1> HIDE DEF t, s
<1>3. CASE FindRow(a) /\ s = "gone" /\ ~IsRow(t)
  <2>1. job' = [job EXCEPT ![a] = NoJob]
    BY <1>3 DEF FindRow, t, s
  <2> QED BY <1>3, <2>1 DEF FoundRow, t, s
<1>4. CASE FindRow(a) /\ ~(s = "gone" /\ ~IsRow(t))
  <2> DEFINE r == RowToWrite(t, s)
             j == Job(t, s, "write", r)
  <2>1. job' = [job EXCEPT ![a] = j]
    BY <1>4 DEF FindRow, t, s
  <2>2. CASE s = "gone"
    <3>1. r = [rows[t] EXCEPT !.removed = TRUE, !.sites = "nothing"] /\ rows[t] \in RowType
      BY <1>2, <1>4, <2>2 DEF RowToWrite
    <3>2. r \in RowType /\ r.removed = TRUE /\ r.sites = "nothing"
      BY <3>1 DEF RowType, SitesFrom
    <3> HIDE DEF r
    <3>3. j \in JobType /\ j.pc = "write" /\ j.tenant = t /\ j.status = s /\ j.row = r
      BY <1>1, <3>2 DEF Job, JobType
    <3>4. Matching(r, s)
      BY <2>2, <3>2 DEF Matching
    <3> QED BY <2>1, <2>2, <3>2, <3>3, <3>4 DEF FoundRow, t, s
  <2>3. CASE s # "gone"
    <3> DEFINE sites == IF IsRow(t) THEN SitesKept(t) ELSE "bare"
    <3>1. r = Row(TRUE, FALSE, sites, FALSE)
      BY <2>3 DEF RowToWrite
    <3>2. sites \in SitesFrom /\ (rows[t].sites = "operator" => sites = "operator")
      <4>1. CASE IsRow(t)
        <5>1. rows[t].sites \in SitesFrom
          BY <1>2, <4>1 DEF RowType
        <5>2. sites \in {rows[t].sites, "default"} /\ (rows[t].sites = "operator" => sites = "operator")
          BY <4>1 DEF SitesKept
        <5> QED BY <5>1, <5>2 DEF SitesFrom
      <4>2. CASE ~IsRow(t)
        <5>1. rows[t].sites = "no row" /\ sites = "bare"
          BY <1>2, <4>2, RowsAre
        <5> QED BY <5>1 DEF SitesFrom
      <4> QED BY <4>1, <4>2
    <3> HIDE DEF r, sites
    <3>3. /\ r \in RowType /\ r.removed = FALSE /\ r.sites = sites /\ r.active = TRUE
      BY <3>1, <3>2 DEF Row, RowType
    <3>4. j \in JobType /\ j.pc = "write" /\ j.tenant = t /\ j.status = s /\ j.row = r
      BY <1>1, <3>3 DEF Job, JobType
    <3>5. s = "active"
      BY <1>1, <2>3
    <3>6. Matching(r, s)
      BY <3>3, <3>5, RowsAre DEF Matching
    <3> QED BY <2>1, <3>2, <3>3, <3>4, <3>6 DEF FoundRow, t, s
  <2> QED BY <2>2, <2>3
<1>5. CASE FindRowFails(a) /\ s = "gone"
  <2>1. job' = [job EXCEPT ![a] = NoJob] /\ t \in outdated'
    BY <1>5 DEF FindRowFails, t, s
  <2> QED BY <1>5, <2>1 DEF FoundRow, t, s
<1>6. CASE FindRowFails(a) /\ s # "gone"
  <2> DEFINE r == Row(TRUE, FALSE, "bare", FALSE)
             j == [Job(t, s, "write", r) EXCEPT !.looked = FALSE]
  <2>1. job' = [job EXCEPT ![a] = j]
    BY <1>6 DEF FindRowFails, t, s
  <2>2. r \in RowType /\ r.removed = FALSE /\ r.active = TRUE
    BY DEF Row, RowType, SitesFrom
  <2> HIDE DEF r
  <2>3. j \in JobType /\ j.pc = "write" /\ j.tenant = t /\ j.status = s /\ j.row = r /\ ~j.looked
    BY <1>1, <2>2 DEF Job, JobType
  <2>4. Matching(r, s)
    BY <1>1, <1>6, <2>2, RowsAre DEF Matching
  <2> QED BY <2>1, <2>2, <2>3, <2>4 DEF FoundRow, t, s
<1> QED BY <1>3, <1>4, <1>5, <1>6

\* Who is at work has a job, or a lookup.
LEMMA AtWork ==
    ASSUME TypeOK
    PROVE  /\ \A a \in Actor : ~HasJob(a, "idle") =>
                 /\ job[a] \in JobType /\ job[a].tenant \in Tenant
                 /\ job[a].status \in {"inactive", "active", "gone"}
                 /\ a = "starter" => starter \in {"upserting", "deleting"}
           /\ ~Reading("idle") =>
                 /\ reader \in ReaderType /\ reader.tenant \in Tenant
                 /\ reader.status \in {"inactive", "active"}
                 /\ reader.pc \in {"row", "status", "name", "answer"}
           /\ \A t : Overtaken(t) \subseteq Actor \union {"reader"}
<1>1. JobOK /\ ReaderOK /\ IdleOK
  BY TypeParts DEF AllParts
<1>2. ASSUME NEW a \in Actor, ~HasJob(a, "idle") PROVE job[a] \in JobType
  BY <1>1, <1>2, JobsAre DEF JobOK, HasJob
<1>3. ASSUME ~Reading("idle") PROVE reader \in ReaderType
  BY <1>1, <1>3, JobsAre DEF ReaderOK, Reading
<1>4. \A t : Overtaken(t) \subseteq Actor \union {"reader"}
  BY DEF Overtaken
<1>5. ASSUME NEW a \in Actor, ~HasJob(a, "idle")
      PROVE  /\ job[a] \in JobType /\ job[a].tenant \in Tenant
             /\ job[a].status \in {"inactive", "active", "gone"}
             /\ a = "starter" => starter \in {"upserting", "deleting"}
  BY <1>1, <1>2, <1>5 DEF JobType, IdleOK, StarterIdle
<1>6. ASSUME ~Reading("idle")
      PROVE  /\ reader \in ReaderType /\ reader.tenant \in Tenant
             /\ reader.status \in {"inactive", "active"}
             /\ reader.pc \in {"row", "status", "name", "answer"}
  BY <1>3, <1>6 DEF ReaderType
<1> QED BY <1>4, <1>5, <1>6

\* What is written is a row.
LEMMA WrittenByTypes ==
    ASSUME TypeOK, NEW t \in Tenant, NEW s, WrittenBy(t, s)
    PROVE  outdated' \subseteq Tenant
BY TypeParts DEF AllParts, HistoryOK, WrittenBy

\* WriteRow writes the job's row and ends the job.
LEMMA WriteRowDoes ==
    ASSUME TypeOK, Jobs, NEW a \in Actor, WriteRow(a)
    PROVE  LET t == job[a].tenant  r == Stored(t, job[a].row) IN
           /\ t \in Tenant /\ job[a].status \in {"inactive", "active", "gone"}
           /\ r \in RowType /\ (r.removed => r.sites = "nothing")
           /\ r.sites = job[a].row.sites /\ Matching(r, job[a].status)
           /\ rows' = [rows EXCEPT ![t] = r]
           /\ RowsOK' /\ rows'[t] = r /\ \A u \in Tenant : u # t => rows'[u] = rows[u]
<1> DEFINE t == job[a].tenant
           r == Stored(t, job[a].row)
<1>1. HasJob(a, "write") /\ rows' = [rows EXCEPT ![t] = r]
  BY DEF WriteRow
<1>2. t \in Tenant /\ job[a].status \in {"inactive", "active", "gone"} /\ Writing(a)
  BY <1>1, AtWork DEF HasJob, Jobs
<1>3. job[a].row \in RowType
  BY <1>2 DEF Writing
<1>4. /\ r \in RowType /\ r.active = job[a].row.active
      /\ r.removed = job[a].row.removed /\ r.sites = job[a].row.sites
  BY <1>3, StoredIs
<1> HIDE DEF r, t
<1>5. r.removed => r.sites = "nothing"
  BY <1>2, <1>4 DEF Writing
<1>6. Matching(r, job[a].status)
  BY <1>2, <1>3, <1>4, RowsAre DEF Writing, Matching
<1>7. RowsOK' /\ rows'[t] = r /\ \A u \in Tenant : u # t => rows'[u] = rows[u]
  BY <1>1, <1>2, <1>4, <1>5, RowWritten
<1> QED BY <1>1, <1>2, <1>4, <1>5, <1>6, <1>7 DEF r, t

\* upsertTenantFromTM and DeleteTenant keep the types.
LEMMA WorkTypes ==
    ASSUME TypeOK, Jobs, NEW a \in Actor, Work(a)
    PROVE  TypeOK'
<1>1. AllParts
  BY TypeParts
<1>2. ~HasJob(a, "idle")
  BY DEF Work, FindRow, FindRowFails, WriteRow, WriteRowFails, HasJob
<1>3. job[a].tenant \in Tenant /\ (a = "starter" => starter \in {"upserting", "deleting"})
  BY <1>2, AtWork
<1>4. /\ UNCHANGED <<external, socket, initialised, routes, startup, starter, reader>>
      /\ UNCHANGED counters \/ Failing
  BY DEF Work, FindRow, FindRowFails, WriteRow, WriteRowFails, tables, startup
<1>5. JobOK' /\ IdleOK'
  <2>1. CASE FindRow(a) \/ FindRowFails(a)
    BY <1>3, <1>4, <2>1, FindDoes, JobStep
  <2>2. CASE WriteRow(a) \/ WriteRowFails(a)
    <3>1. job' = [job EXCEPT ![a] = NoJob]
      BY <2>2 DEF WriteRow, WriteRowFails
    <3> QED BY <1>3, <1>4, <3>1, JobStep
  <2> QED BY <2>1, <2>2 DEF Work
<1>6. RowsOK'
  <2>1. CASE WriteRow(a)
    BY <2>1, WriteRowDoes
  <2>2. CASE ~WriteRow(a)
    <3>1. UNCHANGED rows
      BY <2>2 DEF Work, FindRow, FindRowFails, WriteRowFails, tables
    <3> QED BY <3>1, PartsKept
  <2> QED BY <2>1, <2>2
<1>7. HistoryOK'
  <2>1. overtaken' \subseteq Actor \union {"reader"}
    BY <1>1, AtWork DEF AllParts, HistoryOK, Work, FindRow, FindRowFails, WriteRow, WriteRowFails
  <2>2. outdated' \subseteq Tenant
    <3>1. CASE WriteRow(a)
      BY <1>3, <3>1, WrittenByTypes DEF WriteRow
    <3>2. CASE ~WriteRow(a)
      BY <1>1, <1>3, <3>2 DEF AllParts, HistoryOK, Work, FindRow, FindRowFails, WriteRowFails
    <3> QED BY <3>1, <3>2
  <2> QED BY <2>1, <2>2 DEF HistoryOK
<1> QED BY <1>4, <1>5, <1>6, <1>7, PartsKept, TypeParts DEF AllParts

-----------------------------------------------------------------------------
(* Frames.                                                                 *)

\* What the watcher takes from the socket, and what it makes of it.
LEMMA FrameTaken ==
    ASSUME TypeOK, Frames, SyncTenantsWithTM
    PROVE  LET f == Head(wire) IN
           /\ wire # <<>> /\ wire \in Seq(FrameType) /\ 1 \in DOMAIN wire /\ wire[1] = f
           /\ wire' = Tail(wire) /\ f \in FrameType /\ FrameOK(f)
           /\ f.tenants = <<>> => UNCHANGED job /\ f.type = "SUBSCRIBED"
           /\ f.tenants # <<>> =>
                 /\ f.tenants[1][1] \in Tenant
                 /\ \E j \in JobType :
                       /\ job' = [job EXCEPT !["watcher"] = j]
                       /\ j.tenant = f.tenants[1][1] /\ j.status = f.tenants[1][2]
                       /\ j.pc = "find" => j.status \in {"active", "gone"}
                       /\ j.pc = "write" =>
                             j.row = Row(FALSE, FALSE, "nothing", FALSE) /\ j.status = "inactive"
<1> DEFINE f == Head(wire)
           t == f.tenants[1][1]
           s == f.tenants[1][2]
<1>1. /\ wire # <<>> /\ wire' = Rest(f) \o Tail(wire)
      /\ f.tenants = <<>> => UNCHANGED job
      /\ f.tenants # <<>> =>
            job' = [job EXCEPT !["watcher"] =
                       IF f.type = "DELETED" THEN Deleting(t) ELSE Upserting(t, s)]
  BY DEF SyncTenantsWithTM
<1>2. wire \in Seq(FrameType)
  BY TypeParts DEF AllParts, SocketOK
<1>3. 1 \in DOMAIN wire /\ wire[1] = f /\ f \in FrameType /\ Tail(wire) \in Seq(FrameType)
  BY <1>1, <1>2
<1>4. FrameOK(f)
  BY <1>3 DEF Frames
<1> HIDE DEF f
<1>5. Rest(f) = <<>>
  <2> DEFINE n == Len(f.tenants)
  <2>1. f.type = "DELETED" => n = 1
    BY <1>4 DEF FrameOK
  <2> HIDE DEF n
  <2>3. ~(f.type = "DELETED" /\ Len(f.tenants) > 1)
    <3>1. ~(f.type = "DELETED" /\ n > 1)
      BY <2>1
    <3> QED BY <3>1 DEF n
  <2> QED BY <2>3, Zenon DEF Rest
<1>6. wire' = Tail(wire)
  BY <1>1, <1>3, <1>5
<1>7. /\ f.tenants \in Seq(Tenant \X Status) /\ f.type \in {"SUBSCRIBED", "MODIFIED", "DELETED"}
  BY <1>3 DEF FrameType
<1>8. f.tenants = <<>> => f.type = "SUBSCRIBED"
  BY <1>4, <1>7 DEF FrameOK
<1>9. ASSUME f.tenants # <<>>
      PROVE  /\ t \in Tenant
             /\ \E j \in JobType :
                   /\ job' = [job EXCEPT !["watcher"] = j]
                   /\ j.tenant = t /\ j.status = s
                   /\ j.pc = "find" => j.status \in {"active", "gone"}
                   /\ j.pc = "write" =>
                         j.row = Row(FALSE, FALSE, "nothing", FALSE) /\ j.status = "inactive"
  <2>1. 1 \in DOMAIN f.tenants /\ f.tenants[1] \in Tenant \X Status
    BY <1>7, <1>9
  <2>2. t \in Tenant
    BY <2>1
  <2>3. CASE f.type = "DELETED"
    <3>1. s = "gone" /\ job' = [job EXCEPT !["watcher"] = Deleting(t)]
      BY <1>1, <1>4, <1>9, <2>3 DEF FrameOK
    <3>2. /\ Deleting(t) \in JobType /\ Deleting(t).pc = "find"
          /\ Deleting(t).tenant = t /\ Deleting(t).status = "gone"
      BY <2>2, DeletingIs
    <3> QED BY <2>2, <3>1, <3>2
  <2>4. CASE f.type # "DELETED"
    <3>1. s \in {"inactive", "active"} /\ job' = [job EXCEPT !["watcher"] = Upserting(t, s)]
      BY <1>1, <1>4, <1>9, <2>1, <2>4 DEF FrameOK
    <3> HIDE DEF s, t
    <3>2. /\ Upserting(t, s) \in JobType /\ Upserting(t, s).tenant = t /\ Upserting(t, s).status = s
      BY <2>2, <3>1, UpsertingIs
    <3>3. /\ Upserting(t, s).pc = "find" => s \in {"active", "gone"}
          /\ Upserting(t, s).pc = "write" =>
                Upserting(t, s).row = Row(FALSE, FALSE, "nothing", FALSE) /\ s = "inactive"
      BY <2>2, <3>1, UpsertingIs
    <3> QED BY <2>2, <3>1, <3>2, <3>3
  <2> QED BY <2>3, <2>4
<1> QED BY <1>1, <1>2, <1>3, <1>4, <1>6, <1>8, <1>9 DEF f

\* SyncTenantsWithTM keeps the types.
LEMMA WatchTypes ==
    ASSUME TypeOK, Frames, SyncTenantsWithTM
    PROVE  TypeOK'
<1>1. /\ UNCHANGED <<external, conn, tables, rows, initialised, routes, startup, starter, reader,
                     outdated, overtaken, counters>>
  BY DEF SyncTenantsWithTM, tables, startup
<1>2. SocketOK'
  <2>1. wire' \in Seq(FrameType)
    BY FrameTaken
  <2> QED BY <1>1, <2>1, TypeParts DEF AllParts, SocketOK
<1>3. UNCHANGED job \/ \E j \in JobType : job' = [job EXCEPT !["watcher"] = j]
  BY FrameTaken
<1>4. JobOK' /\ IdleOK'
  <2>1. CASE UNCHANGED job
    BY <1>1, <2>1, PartsKept
  <2>2. CASE \E j \in JobType : job' = [job EXCEPT !["watcher"] = j]
    <3>1. "watcher" \in Actor /\ "watcher" # "starter"
      BY DEF Actor
    <3> QED BY <1>1, <2>2, <3>1, JobStep
  <2> QED BY <1>3, <2>1, <2>2
<1> QED BY <1>1, <1>2, <1>4, PartsKept, TypeParts DEF AllParts

-----------------------------------------------------------------------------
(* Lookups by external id.                                                 *)

\* A lookup ends, answers, or goes on with the row as tenant-manager has it.
LEMMA ReadRowDoes ==
    ASSUME TypeOK, ReadRow
    PROVE  LET r == rows[reader.tenant] IN
           \/ reader' = NoReader
           \/ /\ reader' = Answering /\ Answering \in ReaderType
              /\ r.active = (reader.status = "active")
           \/ /\ reader' \in ReaderType /\ reader'.pc \in {"status", "name"}
              /\ reader'.tenant = reader.tenant /\ reader'.status = reader.status
              /\ reader'.row \in RowType /\ reader'.row.active = (reader.status = "active")
              /\ reader'.row.removed = r.removed /\ reader'.row.sites = r.sites
<1> DEFINE r == rows[reader.tenant]
           active == reader.status = "active"
           now == [r EXCEPT !.active = active]
           pc == IF Corrected(r, reader.status) THEN "status" ELSE "name"
<1>1. Reading("row") /\ reader \in ReaderType /\ reader.tenant \in Tenant
  BY AtWork DEF ReadRow, Reading
<1>2. r \in RowType \union {NoRow}
  BY <1>1, TypeParts DEF AllParts, RowsOK
<1>3. reader' = IF r = NoRow THEN NoReader
                ELSE IF r.named /\ ~Corrected(r, reader.status) THEN Answering
                ELSE [reader EXCEPT !.row = now, !.pc = pc]
  BY DEF ReadRow
<1>4. active \in BOOLEAN
  OBVIOUS
<1>5. Answering \in ReaderType
  BY <1>1 DEF Answering, ReaderType
<1>6. pc \in {"status", "name"}
  OBVIOUS
<1> HIDE DEF r, active, pc
<1>7. r # NoRow => /\ now \in RowType /\ now.active = active
                   /\ now.removed = r.removed /\ now.sites = r.sites
  BY <1>2, <1>4 DEF RowType
<1> HIDE DEF now
<1>8. CASE r = NoRow
  BY <1>3, <1>8
<1>9. CASE r # NoRow /\ r.named /\ ~Corrected(r, reader.status)
  <2>1. r.active = active
    BY <1>9 DEF Corrected, active
  <2> QED BY <1>3, <1>5, <1>9, <2>1 DEF r, active
<1>10. CASE r # NoRow /\ ~(r.named /\ ~Corrected(r, reader.status))
  <2>1. reader' = [reader EXCEPT !.row = now, !.pc = pc]
    BY <1>3, <1>10
  <2>2. /\ reader' \in ReaderType /\ reader'.pc = pc /\ reader'.row = now
        /\ reader'.tenant = reader.tenant /\ reader'.status = reader.status
    BY <1>1, <1>6, <1>7, <1>10, <2>1 DEF ReaderType
  <2> QED BY <1>6, <1>7, <1>10, <2>2 DEF r, active
<1> QED BY <1>8, <1>9, <1>10

\* A change of one field of a row that is there.
LEMMA FieldChanged ==
    ASSUME NEW r \in RowType, NEW active \in BOOLEAN
    PROVE  /\ [r EXCEPT !.active = active] \in RowType
           /\ [r EXCEPT !.active = active].active = active
           /\ [r EXCEPT !.active = active].removed = r.removed
           /\ [r EXCEPT !.active = active].sites = r.sites
           /\ [r EXCEPT !.named = TRUE] \in RowType
           /\ [r EXCEPT !.named = TRUE].active = r.active
           /\ [r EXCEPT !.named = TRUE].removed = r.removed
           /\ [r EXCEPT !.named = TRUE].sites = r.sites
           /\ [r EXCEPT !.sites = "operator"] \in RowType
           /\ [r EXCEPT !.sites = "operator"].active = r.active
           /\ [r EXCEPT !.sites = "operator"].removed = r.removed
           /\ [r EXCEPT !.sites = "operator"].sites = "operator"
BY DEF RowType, SitesFrom

\* ChangeTenantStatus writes the row it read, with the status.
LEMMA ChangeStatusDoes ==
    ASSUME TypeOK, ChangeTenantStatus, IsRow(reader.tenant)
    PROVE  /\ reader.tenant \in Tenant
           /\ RowsOK' /\ \A u \in Tenant : u # reader.tenant => rows'[u] = rows[u]
           /\ rows[reader.tenant] \in RowType /\ rows'[reader.tenant] \in RowType
           /\ rows'[reader.tenant].active = (reader.status = "active")
           /\ rows'[reader.tenant].removed = rows[reader.tenant].removed
           /\ rows'[reader.tenant].sites = rows[reader.tenant].sites
           /\ reader' = Answering \/ reader' = [reader EXCEPT !.pc = "name"]
<1> DEFINE t == reader.tenant
           active == reader.status = "active"
           r == [rows[t] EXCEPT !.active = active]
<1>1. t \in Tenant
  BY AtWork DEF ChangeTenantStatus, Reading
<1>2. RowsOK /\ rows[t] \in RowType /\ (rows[t].removed => rows[t].sites = "nothing")
  BY <1>1, TypeParts DEF AllParts, RowsOK, IsRow
<1>3. rows' = [rows EXCEPT ![t] = Stored(t, r)]
  BY DEF ChangeTenantStatus
<1>4. reader' = Answering \/ reader' = [reader EXCEPT !.pc = "name"]
  BY DEF ChangeTenantStatus
<1>5. active \in BOOLEAN
  OBVIOUS
<1> HIDE DEF active, t
<1>6. r \in RowType /\ r.active = active /\ r.removed = rows[t].removed /\ r.sites = rows[t].sites
  BY <1>2, <1>5 DEF RowType
<1> HIDE DEF r
<1>7. /\ Stored(t, r) \in RowType /\ Stored(t, r).active = r.active
      /\ Stored(t, r).removed = r.removed /\ Stored(t, r).sites = r.sites
  BY <1>6, StoredIs
<1>8. /\ RowsOK' /\ rows'[t] = Stored(t, r) /\ \A u \in Tenant : u # t => rows'[u] = rows[u]
  BY <1>1, <1>2, <1>3, <1>6, <1>7, RowWritten
<1> QED BY <1>1, <1>2, <1>4, <1>6, <1>7, <1>8 DEF active, t

\* GetServiceName writes the row it read, with a name.
LEMMA ServiceNameDoes ==
    ASSUME TypeOK, Lookup, UpsertServiceName
    PROVE  /\ reader.tenant \in Tenant
           /\ RowsOK' /\ \A u \in Tenant : u # reader.tenant => rows'[u] = rows[u]
           /\ rows'[reader.tenant] \in RowType
           /\ rows'[reader.tenant].active = (reader.status = "active")
           /\ rows'[reader.tenant].removed = reader.row.removed
           /\ rows'[reader.tenant].sites = reader.row.sites
<1> DEFINE t == reader.tenant
           r == [reader.row EXCEPT !.named = TRUE]
<1>1. t \in Tenant /\ reader.pc = "name"
  BY AtWork DEF UpsertServiceName, Reading
<1>2. /\ reader.row \in RowType /\ (reader.row.removed => reader.row.sites = "nothing")
      /\ reader.row.active = (reader.status = "active")
  BY <1>1 DEF Lookup
<1>3. rows' = [rows EXCEPT ![t] = r]
  BY DEF UpsertServiceName
<1>4. /\ r \in RowType /\ r.active = reader.row.active /\ r.removed = reader.row.removed
      /\ r.sites = reader.row.sites
  BY <1>2, FieldChanged
<1> HIDE DEF r, t
<1>5. RowsOK' /\ rows'[t] = r /\ \A u \in Tenant : u # t => rows'[u] = rows[u]
  BY <1>1, <1>2, <1>3, <1>4, RowWritten
<1> QED BY <1>1, <1>2, <1>4, <1>5 DEF t

\* A lookup keeps the types.
LEMMA ReadTypes ==
    ASSUME TypeOK, Lookup, Read
    PROVE  TypeOK'
<1>1. AllParts
  BY TypeParts
<1>2. ~Reading("idle")
  BY DEF Read, ReadRow, ChangeTenantStatus, UpsertServiceName, Answer, ReaderFails, Reading
<1>3. reader \in ReaderType /\ reader.tenant \in Tenant
  BY <1>2, AtWork
<1>4. /\ UNCHANGED <<external, socket, initialised, routes, startup, starter, job>>
      /\ UNCHANGED counters \/ Failing
  BY DEF Read, ReadRow, ChangeTenantStatus, UpsertServiceName, Answer, ReaderFails, tables, startup
<1>5. ReaderOK'
  <2>1. Answering \in ReaderType /\ [reader EXCEPT !.pc = "name"] \in ReaderType
    BY <1>3 DEF Answering, ReaderType
  <2>2. CASE ReadRow
    BY <2>2, ReadRowDoes DEF ReaderOK
  <2>3. CASE ChangeTenantStatus \/ UpsertServiceName \/ Answer \/ ReaderFails
    <3>1. reader' \in {Answering, NoReader, [reader EXCEPT !.pc = "name"]}
      BY <2>3 DEF ChangeTenantStatus, UpsertServiceName, Answer, ReaderFails
    <3> QED BY <2>1, <3>1 DEF ReaderOK
  <2> QED BY <2>2, <2>3 DEF Read
<1>6. RowsOK'
  <2>1. CASE ChangeTenantStatus /\ IsRow(reader.tenant)
    BY <2>1, ChangeStatusDoes
  <2>2. CASE UpsertServiceName
    BY <2>2, ServiceNameDoes
  <2>3. CASE ~UpsertServiceName /\ ~(ChangeTenantStatus /\ IsRow(reader.tenant))
    <3>1. UNCHANGED rows
      BY <2>3 DEF Read, ReadRow, ChangeTenantStatus, Answer, ReaderFails, tables
    <3> QED BY <3>1, PartsKept
  <2> QED BY <2>1, <2>2, <2>3
<1>7. HistoryOK'
  <2>1. Overtaken(reader.tenant) \subseteq Actor \union {"reader"}
    BY AtWork
  <2>2. /\ overtaken' \subseteq overtaken \union Overtaken(reader.tenant)
        /\ outdated' \subseteq outdated \union {reader.tenant}
    BY DEF Read, ReadRow, ChangeTenantStatus, UpsertServiceName, Answer, ReaderFails
  <2> QED BY <1>1, <1>3, <2>1, <2>2 DEF AllParts, HistoryOK
<1>8. IdleOK' /\ JobOK'
  BY <1>4, PartsKept
<1> QED BY <1>4, <1>5, <1>6, <1>7, <1>8, PartsKept, TypeParts DEF AllParts

-----------------------------------------------------------------------------
(* Tenant-manager, the operator and the purge.                             *)

\* A change of a tenant is told in one event while the websocket is open.
LEMMA ChangeDoes ==
    ASSUME TypeOK, NEW t \in Tenant, NEW new, ChangeTenant(t, new)
    PROVE  /\ new \in {"inactive", "active", "gone"}
           /\ status' \in [Tenant -> Status] /\ status'[t] = new
           /\ \A u \in Tenant : u # t => status'[u] = status[u]
           /\ inputs' \in Nat /\ wire \in Seq(FrameType)
           /\ \E f \in FrameType :
                 /\ f.type # "SUBSCRIBED" /\ FrameOK(f) /\ f.tenants[1][1] = t /\ f.tenants[1][2] = new
                 /\ wire' = IF conn THEN Append(wire, f) ELSE wire
<1> DEFINE f == [type |-> IF new = "gone" THEN "DELETED" ELSE "MODIFIED", tenants |-> <<<<t, new>>>>]
<1>1. ExternalOK /\ wire \in Seq(FrameType)
  BY TypeParts DEF AllParts, SocketOK
<1>2. new \in Successors(status[t]) /\ status[t] \in Status
  BY <1>1 DEF ChangeTenant, ExternalOK
<1>3. new \in {"inactive", "active", "gone"}
  BY <1>2 DEF Successors, Status
<1>4. /\ status' = [status EXCEPT ![t] = new] /\ inputs' = inputs + 1
      /\ wire' = IF conn THEN Append(wire, f) ELSE wire
  BY DEF ChangeTenant
<1>5. /\ status' \in [Tenant -> Status] /\ status'[t] = new /\ inputs' \in Nat
      /\ \A u \in Tenant : u # t => status'[u] = status[u]
  BY <1>1, <1>3, <1>4 DEF ExternalOK, Status
<1>6. f \in FrameType
  BY <1>3 DEF FrameType, Status
<1>7. /\ f.type # "SUBSCRIBED" /\ f.tenants[1][1] = t /\ f.tenants[1][2] = new
      /\ Len(f.tenants) = 1 /\ DOMAIN f.tenants = {1}
      /\ f.type = "DELETED" <=> new = "gone"
  OBVIOUS
<1> HIDE DEF f
<1>8. FrameOK(f)
  BY <1>3, <1>7 DEF FrameOK
<1> QED BY <1>1, <1>3, <1>4, <1>5, <1>6, <1>7, <1>8

\* Subscribing opens the connection with a frame of known tenants.
LEMMA SubscribeDoes ==
    ASSUME TypeOK, Calm, Subscribe
    PROVE  \E f \in FrameType : f.type = "SUBSCRIBED" /\ FrameOK(f) /\ wire = <<>> /\ wire' = <<f>>
<1> DEFINE S == {t \in Tenant : Known(t)}
           n == Cardinality(S)
<1>1. PICK list \in SetToSeqs(S) : wire' = Append(wire, Frame("SUBSCRIBED", list))
  BY DEF Subscribe
<1>2. n \in Nat
  <2>1. IsFiniteSet(S)
    BY FS_Subset
  <2> QED BY <2>1, FS_CardinalityType
<1>3. list \in [1..n -> S]
  BY <1>1 DEF SetToSeqs
<1>4. status \in [Tenant -> Status]
  BY TypeParts DEF AllParts, ExternalOK
<1> DEFINE f == Frame("SUBSCRIBED", list)
           told == [i \in 1..n |-> <<list[i], status[list[i]]>>]
<1> HIDE DEF n
<1>5. f = [type |-> "SUBSCRIBED", tenants |-> told]
  BY <1>3 DEF Frame
<1>6. \A i \in 1..n : /\ told[i] \in Tenant \X Status
                      /\ told[i][2] \in {"inactive", "active"}
  BY <1>3, <1>4 DEF Known
<1>7. told \in Seq(Tenant \X Status) /\ DOMAIN told = 1..n
  BY <1>2, <1>6
<1> HIDE DEF told, f
<1>8. f \in FrameType /\ f.type = "SUBSCRIBED" /\ FrameOK(f)
  BY <1>5, <1>6, <1>7 DEF FrameType, FrameOK
<1>9. wire = <<>>
  BY DEF Calm, Subscribe
<1> QED BY <1>1, <1>8, <1>9 DEF f

\* An operator's upsert writes one row.
LEMMA OperatorDoes ==
    ASSUME TypeOK, NEW t \in Tenant, UpsertByOperator(t)
    PROVE  /\ RowsOK' /\ \A u \in Tenant : u # t => rows'[u] = rows[u]
           /\ rows[t] \in RowType /\ rows'[t] \in RowType
           /\ rows'[t].active = rows[t].active /\ rows'[t].removed = rows[t].removed
           /\ ~rows[t].removed /\ rows'[t].sites = "operator"
<1> DEFINE r == [rows[t] EXCEPT !.sites = "operator"]
<1>1. RowsOK /\ rows[t] \in RowType /\ ~rows[t].removed
  BY TypeParts DEF AllParts, RowsOK, IsRow, UpsertByOperator
<1>2. rows' = [rows EXCEPT ![t] = Stored(t, r)]
  BY DEF UpsertByOperator
<1>3. /\ r \in RowType /\ r.active = rows[t].active /\ r.removed = rows[t].removed
      /\ r.sites = "operator"
  BY <1>1 DEF RowType, SitesFrom
<1> HIDE DEF r
<1>4. /\ Stored(t, r) \in RowType /\ Stored(t, r).active = r.active
      /\ Stored(t, r).removed = r.removed /\ Stored(t, r).sites = r.sites
  BY <1>3, StoredIs
<1>5. RowsOK' /\ rows'[t] = Stored(t, r) /\ \A u \in Tenant : u # t => rows'[u] = rows[u]
  BY <1>1, <1>2, <1>3, <1>4, RowWritten
<1> QED BY <1>1, <1>3, <1>4, <1>5

\* The pass removes a row that is marked removed.
LEMMA PurgeDoes ==
    ASSUME TypeOK, NEW t \in Tenant, PurgeTenant(t)
    PROVE  /\ RowsOK' /\ \A u \in Tenant : u # t => rows'[u] = rows[u]
           /\ rows[t] \in RowType /\ rows[t].removed /\ rows[t].sites = "nothing" /\ rows'[t] = NoRow
<1>1. RowsOK /\ rows[t].removed /\ rows' = [rows EXCEPT ![t] = NoRow]
  BY TypeParts DEF AllParts, PurgeTenant
<1>2. rows[t] \in RowType /\ rows[t].sites = "nothing"
  BY <1>1, RowsAre DEF RowsOK
<1> QED BY <1>1, <1>2, RowWritten, RowsAre

\* Inputs, faults and crashes keep the types.
LEMMA EnvironmentTypes ==
    ASSUME TypeOK, Calm, Environment
    PROVE  TypeOK'
<1>1. AllParts
  BY TypeParts
<1>2. CASE Crash
  BY <1>2, Crashes, RestartTypes
<1>3. CASE Subscribe
  <2>1. /\ UNCHANGED <<external, rows, initialised, routes, startup, starter, job, reader, outdated,
                       overtaken, counters>>
        /\ conn' = TRUE
    BY <1>3 DEF Subscribe, tables, startup
  <2>2. wire' \in Seq(FrameType)
    <3>1. PICK f \in FrameType : wire' = <<f>>
      BY <1>3, SubscribeDoes
    <3> QED BY <3>1
  <2> QED BY <2>1, <2>2, PartsKept, TypeParts DEF AllParts, SocketOK
<1>4. CASE Disconnect
  <2>1. /\ UNCHANGED <<external, rows, initialised, routes, startup, starter, job, reader, overtaken>>
        /\ conn' = FALSE /\ wire' = <<>> /\ Failing
        /\ outdated' \subseteq Tenant
    BY <1>1, <1>4 DEF Disconnect, tables, startup, Lost, AllParts, HistoryOK
  <2>2. conn' \in BOOLEAN
    BY <2>1, Zenon
  <2>3. SocketOK' /\ HistoryOK'
    BY <1>1, <2>1, <2>2 DEF AllParts, SocketOK, HistoryOK
  <2> QED BY <2>1, <2>3, PartsKept, TypeParts DEF AllParts
<1>5. ASSUME NEW t \in Tenant, NEW new, ChangeTenant(t, new) PROVE TypeOK'
  <2>1. /\ UNCHANGED <<conn, rows, initialised, routes, startup, starter, job, reader, overtaken, counters>>
        /\ outdated' \subseteq Tenant
    BY <1>1, <1>5 DEF ChangeTenant, tables, startup, Lost, AllParts, HistoryOK
  <2>2. ExternalOK'
    BY <1>5, ChangeDoes DEF ExternalOK
  <2>3. wire' \in Seq(FrameType)
    <3>1. PICK f \in FrameType : wire \in Seq(FrameType) /\ wire' = IF conn THEN Append(wire, f) ELSE wire
      BY <1>5, ChangeDoes
    <3> QED BY <3>1
  <2>4. SocketOK' /\ HistoryOK'
    BY <1>1, <2>1, <2>3 DEF AllParts, SocketOK, HistoryOK
  <2> QED BY <2>1, <2>2, <2>4, PartsKept, TypeParts DEF AllParts
<1>6. ASSUME NEW t \in Tenant, GetTenantByExternalId(t) PROVE TypeOK'
  <2>1. /\ UNCHANGED <<status, socket, rows, initialised, routes, startup, starter, job, outdated,
                       overtaken, counters>>
        /\ inputs' = inputs + 1 /\ status[t] \in {"inactive", "active"}
        /\ reader' = [pc |-> "row", tenant |-> t, status |-> status[t], row |-> NoRow]
    BY <1>6 DEF GetTenantByExternalId, tables, startup, Known
  <2>2. ReaderOK' /\ ExternalOK'
    BY <1>1, <2>1 DEF AllParts, ExternalOK, ReaderOK, ReaderType
  <2> QED BY <2>1, <2>2, PartsKept, TypeParts DEF AllParts
<1>7. ASSUME NEW t \in Tenant, UpsertByOperator(t) \/ PurgeTenant(t) PROVE TypeOK'
  <2>1. /\ UNCHANGED <<status, socket, initialised, routes, startup, starter, job, reader, outdated, counters>>
        /\ inputs' \in {inputs, inputs + 1} /\ overtaken' = overtaken \union Overtaken(t)
    BY <1>7 DEF UpsertByOperator, PurgeTenant, startup, external
  <2>2. RowsOK'
    BY <1>7, OperatorDoes, PurgeDoes
  <2>3. ExternalOK' /\ HistoryOK'
    BY <1>1, <2>1, AtWork DEF AllParts, ExternalOK, HistoryOK
  <2> QED BY <2>1, <2>2, <2>3, PartsKept, TypeParts DEF AllParts
<1> QED BY <1>2, <1>3, <1>4, <1>5, <1>6, <1>7 DEF Environment

\* Every step keeps the types.
LEMMA NextTypes == TypeOK /\ Calm /\ Jobs /\ Lookup /\ Frames /\ [Next]_vars => TypeOK'
<1> SUFFICES ASSUME TypeOK, Calm, Jobs, Lookup, Frames, [Next]_vars PROVE TypeOK'
  OBVIOUS
<1>1. CASE Start
  <2>1. "starter" \in Actor
    BY DEF Actor
  <2> QED BY <1>1, <2>1, BuildTypes, LoadTypes, WorkTypes, Crashes, RestartTypes DEF Start, Build
<1>2. CASE Watch
  <2>1. "watcher" \in Actor
    BY DEF Actor
  <2> QED BY <1>2, <2>1, WatchTypes, WorkTypes DEF Watch
<1>3. CASE Read \/ Environment
  BY <1>3, ReadTypes, EnvironmentTypes
<1>4. CASE UNCHANGED vars
  <2>1. UNCHANGED <<external, socket, rows, initialised, startup, routes, starter, job, reader,
                    outdated, overtaken, counters>>
    BY <1>4 DEF vars, tables, startup
  <2> QED BY <2>1, PartsKept, TypeParts DEF AllParts
<1> QED BY <1>1, <1>2, <1>3, <1>4 DEF Next

-----------------------------------------------------------------------------
(* Who is at work when, and the first build.                               *)

\* At the start the starter is alone, and nothing counts as built.
LEMMA InitCalm == Init => Calm /\ Built
BY RowsAre, JobsAre DEF Init, Calm, Built, Early, HasJob, Reading, Serving, Actor

\* After a restart nothing is under way.
LEMMA RestartCalm ==
    ASSUME Restart
    PROVE  Calm' /\ starter' = "init"
BY JobsAre DEF Restart, Calm, Early, HasJob, Reading, Serving, Actor

BuildStep ==
    \/ FindInitInformation \/ FindInitFails \/ BuildAll \/ SetInitInformation
    \/ \E t \in Tenant : BuildTenant(t)

\* Who may move before the table counts as built, and who after.
LEMMA Phases ==
    ASSUME TypeOK, Calm, [Next]_vars
    PROVE  \/ BuildStep /\ Early /\ UNCHANGED <<socket, job, reader>> /\ starter' # "serving"
           \/ Restart /\ UNCHANGED tables
           \/ ~Early /\ ~Early' /\ UNCHANGED <<initialised, owed, blind, routes>>
           \/ UNCHANGED <<tables, startup, job, reader, routes>> /\ (Early => UNCHANGED conn)
<1>1. CASE Build
  <2>1. CASE BuildPanics
    BY <2>1, Crashes
  <2>2. CASE BuildStep
    BY <2>2 DEF BuildStep, FindInitInformation, FindInitFails, BuildAll, SetInitInformation,
                BuildTenant, Early
  <2> QED BY <1>1, <2>1, <2>2 DEF Build, BuildStep
<1>2. CASE Load
  BY <1>2 DEF Load, ListTenants, ListFails, FindAll, FindAllFails, Serve, UpsertListed, DeleteAbsent,
              Early, tables, startup
<1>3. ASSUME NEW a \in Actor, Work(a)
      PROVE  ~Early /\ ~Early' /\ UNCHANGED <<initialised, owed, blind, routes>>
  <2>1. ~HasJob(a, "idle")
    BY <1>3 DEF Work, FindRow, FindRowFails, WriteRow, WriteRowFails, HasJob
  <2>2. ~Early
    BY <2>1, AtWork DEF Early, Calm, Actor
  <2> QED BY <1>3, <2>2 DEF Work, FindRow, FindRowFails, WriteRow, WriteRowFails, Early, tables, startup
<1>4. CASE SyncTenantsWithTM
  <2>1. wire # <<>>
    BY <1>4 DEF SyncTenantsWithTM
  <2>2. ~Early
    BY <2>1 DEF Calm
  <2> QED BY <1>4, <2>2 DEF SyncTenantsWithTM, Early, tables, startup
<1>5. CASE Read
  <2>1. Serving
    BY <1>5 DEF Read, ReadRow, ChangeTenantStatus, UpsertServiceName, Answer, ReaderFails, Reading, Calm
  <2> QED BY <1>5, <2>1 DEF Read, ReadRow, ChangeTenantStatus, UpsertServiceName, Answer, ReaderFails,
                            Serving, Early, tables, startup
<1>6. CASE Crash
  BY <1>6, Crashes
<1>7. CASE Subscribe \/ \E t \in Tenant : GetTenantByExternalId(t) \/ UpsertByOperator(t) \/ PurgeTenant(t)
  BY <1>7 DEF Subscribe, GetTenantByExternalId, UpsertByOperator, PurgeTenant, Serving, Early, tables, startup
<1>8. CASE Disconnect \/ \E t \in Tenant, new \in Status : ChangeTenant(t, new)
  BY <1>8 DEF Disconnect, ChangeTenant, Calm, Early
<1>9. CASE UNCHANGED vars
  BY <1>9 DEF vars, socket
<1> QED BY <1>1, <1>2, <1>3, <1>4, <1>5, <1>6, <1>7, <1>8, <1>9 DEF Next, Start, Watch, Environment, Actor

\* Every step keeps Built.
LEMMA NextBuilt == TypeOK /\ Calm /\ Built /\ [Next]_vars => Built'
<1> SUFFICES ASSUME TypeOK, Calm, Built, [Next]_vars PROVE Built'
  OBVIOUS
<1>1. CASE BuildStep /\ Early
  <2>1. owed \subseteq routes
    BY TypeParts DEF AllParts, StartOK
  <2>2. CASE FindInitInformation \/ FindInitFails
    <3>1. /\ UNCHANGED <<rows, initialised, owed>> /\ starter' \in {"listing", "building"}
          /\ starter' = "listing" => initialised
          /\ starter' = "building" => owed \subseteq todo' /\ (initialised => blind')
      <4>1. CASE FindInitInformation
        BY <2>1, <4>1 DEF FindInitInformation, tables
      <4>2. CASE FindInitFails /\ initialised
        BY <4>2 DEF FindInitFails, tables, Built
      <4>3. CASE FindInitFails /\ ~initialised
        BY <2>1, <4>3 DEF FindInitFails, tables
      <4> QED BY <2>2, <4>1, <4>2, <4>3
    <3> QED BY <3>1 DEF Built, Early
  <2>3. CASE BuildAll \/ SetInitInformation
    BY <2>3 DEF BuildAll, SetInitInformation, Built, Early, tables
  <2>4. ASSUME NEW t \in Tenant, BuildTenant(t) PROVE Built'
    <3>1. PICK named \in BOOLEAN : rows' = [rows EXCEPT ![t] = Row(TRUE, FALSE, "routes", named)]
      BY <2>4 DEF BuildTenant
    <3>2. \A u \in Tenant : rows'[u].sites = "operator" => rows[u].sites = "operator"
      <4> DEFINE r == Row(TRUE, FALSE, "routes", named)
      <4>1. r \in RowType /\ r.sites = "routes" /\ ~r.removed /\ rows' = [rows EXCEPT ![t] = r]
        BY <3>1 DEF Row, RowType, SitesFrom
      <4> HIDE DEF r
      <4>2. rows'[t] = r /\ \A u \in Tenant : u # t => rows'[u] = rows[u]
        BY <4>1, RowWritten
      <4> QED BY <4>1, <4>2
    <3> QED BY <2>4, <3>2 DEF BuildTenant, Built, Early
  <2> QED BY <1>1, <2>2, <2>3, <2>4 DEF BuildStep
<1>2. CASE Restart /\ UNCHANGED tables
  BY <1>2 DEF Restart, tables, Built, Early
<1>3. CASE ~Early /\ ~Early' /\ UNCHANGED <<initialised, owed, blind, routes>>
  BY <1>3 DEF Built, Early
<1>4. CASE UNCHANGED <<tables, startup, job, reader, routes>>
  BY <1>4 DEF Built, Early, tables, startup
<1> QED BY <1>1, <1>2, <1>3, <1>4, Phases

\* Every step keeps Calm.
LEMMA NextCalm == TypeOK /\ Calm /\ [Next]_vars => Calm'
<1> SUFFICES ASSUME TypeOK, Calm, [Next]_vars PROVE Calm'
  OBVIOUS
<1>1. Early' => ~conn' /\ HasJob("watcher", "idle")'
  <2>1. CASE BuildStep /\ Early /\ UNCHANGED <<socket, job, reader>>
    BY <2>1 DEF Calm, HasJob, socket
  <2>2. CASE Restart
    BY <2>2, RestartCalm DEF Calm
  <2>3. CASE UNCHANGED <<tables, startup, job, reader, routes>> /\ (Early => UNCHANGED conn)
    BY <2>3 DEF Calm, HasJob, startup, Early
  <2> QED BY <2>1, <2>2, <2>3, Phases
<1>2. ~conn' => wire' = <<>>
  <2>1. CASE UNCHANGED socket
    BY <2>1 DEF Calm, socket
  <2>2. CASE Restart
    BY <2>2, RestartCalm DEF Calm
  <2>3. CASE ~UNCHANGED socket /\ ~Restart
    <3>1. \/ SyncTenantsWithTM \/ Subscribe \/ Disconnect \/ \E t \in Tenant, new \in Status : ChangeTenant(t, new)
      BY <2>3 DEF Next, Start, Build, BuildPanics, FindInitInformation, FindInitFails, BuildAll,
           SetInitInformation, BuildTenant, Load, ListTenants, ListFails, FindAll, FindAllFails, Serve,
           UpsertListed, DeleteAbsent, Work, FindRow, FindRowFails, WriteRow, WriteRowFails, Watch,
           Read, ReadRow, ChangeTenantStatus, UpsertServiceName, Answer, ReaderFails, Environment,
           Crash, GetTenantByExternalId, UpsertByOperator, PurgeTenant, vars
    <3>2. CASE SyncTenantsWithTM
      <4>1. wire # <<>> /\ UNCHANGED conn
        BY <3>2 DEF SyncTenantsWithTM
      <4> QED BY <4>1 DEF Calm
    <3>3. CASE Subscribe \/ Disconnect
      BY <3>3 DEF Subscribe, Disconnect
    <3>4. CASE \E t \in Tenant, new \in Status : ChangeTenant(t, new)
      BY <3>4 DEF ChangeTenant, Calm
    <3> QED BY <3>1, <3>2, <3>3, <3>4
  <2> QED BY <2>1, <2>2, <2>3
<1>3. ~Serving' => Reading("idle")'
  <2>1. CASE UNCHANGED <<starter, reader>>
    BY <2>1 DEF Calm, Serving, Reading
  <2>2. CASE Restart
    BY <2>2, RestartCalm DEF Calm
  <2>3. CASE ~Restart /\ Read
    <3>1. Serving /\ UNCHANGED starter
      BY <2>3 DEF Read, ReadRow, ChangeTenantStatus, UpsertServiceName, Answer, ReaderFails, Reading,
                  Calm, startup
    <3> QED BY <3>1 DEF Serving
  <2>4. CASE ~Restart /\ \E t \in Tenant : GetTenantByExternalId(t)
    BY <2>4 DEF GetTenantByExternalId, Serving, startup
  <2>5. CASE Load \/ BuildStep
    BY <2>5 DEF Load, ListTenants, ListFails, FindAll, FindAllFails, Serve, UpsertListed, DeleteAbsent,
                BuildStep, FindInitInformation, FindInitFails, BuildAll, SetInitInformation, BuildTenant,
                Calm, Serving, Reading, startup
  <2>6. CASE ~(UNCHANGED <<starter, reader>>) /\ ~Restart
    <3>1. Load \/ BuildStep \/ Read \/ \E t \in Tenant : GetTenantByExternalId(t)
      BY <2>6 DEF Next, Start, Build, BuildStep, BuildPanics, Work, FindRow, FindRowFails, WriteRow,
           WriteRowFails, Watch, SyncTenantsWithTM, Environment, Crash, Subscribe, Disconnect,
           ChangeTenant, UpsertByOperator, PurgeTenant, vars, startup
    <3> QED BY <2>3, <2>4, <2>5, <2>6, <3>1
  <2> QED BY <2>1, <2>2, <2>6
<1> QED BY <1>1, <1>2, <1>3 DEF Calm

-----------------------------------------------------------------------------
(* The last frame that tells of a tenant tells the truth.                  *)

\* An empty wire tells of nobody.
LEMMA NoFrames == wire = <<>> => Frames /\ \A t : ~Told(t)
BY DEF Frames, Told

\* Without frames there is nothing to say of them.
LEMMA NoFramesNext == wire' = <<>> => Frames'
BY DEF Frames

\* An event tells the status a tenant has just taken.
LEMMA ChangeFrames ==
    ASSUME TypeOK, Calm, Frames, NEW t \in Tenant, NEW new, ChangeTenant(t, new)
    PROVE  /\ Frames' /\ \A u : Told(u) => Told(u)'
           /\ conn => Told(t)'
<1>1. CASE ~conn
  <2>1. wire = <<>> /\ wire' = wire
    BY <1>1 DEF Calm, ChangeTenant
  <2> QED BY <1>1, <2>1, NoFrames, NoFramesNext
<1>2. CASE conn
  <2>1. PICK f \in FrameType :
          /\ f.type # "SUBSCRIBED" /\ FrameOK(f) /\ f.tenants[1][1] = t /\ f.tenants[1][2] = new
          /\ wire' = Append(wire, f)
    BY <1>2, ChangeDoes
  <2>2. /\ wire \in Seq(FrameType) /\ status'[t] = new
        /\ \A u \in Tenant : u # t => status'[u] = status[u]
    BY ChangeDoes
  <2>3. /\ Len(wire') \in DOMAIN wire' /\ wire'[Len(wire')] = f
        /\ \A i \in DOMAIN wire : i \in DOMAIN wire' /\ i < Len(wire') /\ wire'[i] = wire[i]
        /\ \A i \in DOMAIN wire' : i # Len(wire') => i \in DOMAIN wire
    BY <2>1, <2>2, Appended
  <2>4. Names(f, t) /\ \A u : u # t => ~Names(f, u)
    BY <2>1 DEF Names
  <2>5. ASSUME NEW i \in DOMAIN wire', NEW u \in Tenant, Names(wire'[i], u),
               \A j \in DOMAIN wire' : j > i => ~Names(wire'[j], u)
        PROVE  wire'[i].tenants[1][2] = status'[u]
    <3>1. CASE i = Len(wire')
      <4>1. u = t
        BY <2>3, <2>4, <2>5, <3>1
      <4> QED BY <2>1, <2>2, <2>3, <3>1, <4>1
    <3>2. CASE i # Len(wire')
      <4>1. i \in DOMAIN wire /\ i < Len(wire') /\ wire'[i] = wire[i]
        BY <2>3, <3>2
      <4>2. Len(wire') > i
        BY <2>2, <4>1
      <4>3. u # t
        BY <2>3, <2>4, <2>5, <4>2
      <4>4. \A j \in DOMAIN wire : j > i => ~Names(wire[j], u)
        BY <2>3, <2>5
      <4> QED BY <2>2, <2>5, <4>1, <4>3, <4>4 DEF Frames
    <3> QED BY <3>1, <3>2
  <2>6. \A i \in DOMAIN wire' : FrameOK(wire'[i])
    BY <2>1, <2>3 DEF Frames
  <2>7. Frames'
    BY <2>5, <2>6 DEF Frames
  <2>8. Told(t)'
    BY <2>3, <2>4 DEF Told, Names
  <2>9. \A u : Told(u) => Told(u)'
    BY <2>3 DEF Told
  <2> QED BY <2>7, <2>8, <2>9
<1> QED BY <1>1, <1>2

\* The frame of a subscription tells the statuses there are.
LEMMA SubscribeFrames ==
    ASSUME TypeOK, Calm, Subscribe
    PROVE  Frames' /\ \A t : ~Told(t)
<1>1. PICK f \in FrameType : f.type = "SUBSCRIBED" /\ FrameOK(f) /\ wire = <<>> /\ wire' = <<f>>
  BY SubscribeDoes
<1>2. DOMAIN wire' = {1} /\ wire'[1] = f
  BY <1>1
<1> QED BY <1>1, <1>2, NoFrames DEF Frames, Names

\* The watcher takes the first frame.
LEMMA WatchFrames ==
    ASSUME TypeOK, Frames, SyncTenantsWithTM
    PROVE  /\ Frames'
           /\ \A t \in Tenant : Told(t) =>
                 \/ Told(t)'
                 \/ Names(Head(wire), t) /\ Head(wire).tenants[1][2] = status[t]
<1> DEFINE f == Head(wire)
<1>1. /\ wire # <<>> /\ wire \in Seq(FrameType) /\ wire' = Tail(wire) /\ 1 \in DOMAIN wire
      /\ wire[1] = f
  BY FrameTaken
<1>2. UNCHANGED status
  BY DEF SyncTenantsWithTM, external
<1>3. /\ DOMAIN wire' = 1..Len(wire') /\ DOMAIN wire = 1..Len(wire)
      /\ \A i \in DOMAIN wire' : i + 1 \in DOMAIN wire /\ wire'[i] = wire[i + 1]
      /\ \A i \in DOMAIN wire : i # 1 => i - 1 \in DOMAIN wire' /\ wire'[i - 1] = wire[i]
  BY <1>1, Taken
<1> HIDE DEF f
<1>4. ASSUME NEW i \in DOMAIN wire', NEW t \in Tenant, Names(wire'[i], t),
             \A j \in DOMAIN wire' : j > i => ~Names(wire'[j], t)
      PROVE  wire'[i].tenants[1][2] = status[t]
  <2>1. i + 1 \in DOMAIN wire /\ wire'[i] = wire[i + 1] /\ i \in Int
    BY <1>3
  <2>2. ASSUME NEW j \in DOMAIN wire, j > i + 1 PROVE ~Names(wire[j], t)
    <3>1. j - 1 \in DOMAIN wire' /\ j - 1 > i /\ wire'[j - 1] = wire[j]
      BY <1>3, <2>1, <2>2
    <3> QED BY <1>4, <3>1
  <2>3. Names(wire[i + 1], t)
    BY <1>4, <2>1
  <2> QED BY <2>1, <2>2, <2>3 DEF Frames
<1>5. \A i \in DOMAIN wire' : FrameOK(wire'[i])
  BY <1>3 DEF Frames
<1>6. Frames'
  BY <1>2, <1>4, <1>5 DEF Frames
<1>7. ASSUME NEW t \in Tenant, Told(t), ~Told(t)'
      PROVE  Names(f, t) /\ f.tenants[1][2] = status[t]
  <2>1. \A i \in DOMAIN wire' : ~Names(wire'[i], t)
    BY <1>7 DEF Told, Names
  <2>2. ASSUME NEW i \in DOMAIN wire, i # 1 PROVE ~Names(wire[i], t)
    BY <1>3, <2>1, <2>2
  <2>3. Names(wire[1], t)
    BY <1>7, <2>2 DEF Told, Names
  <2>4. \A j \in DOMAIN wire : j > 1 => ~Names(wire[j], t)
    BY <2>2
  <2>5. wire[1].tenants[1][2] = status[t]
    BY <1>1, <2>3, <2>4 DEF Frames
  <2> QED BY <1>1, <2>3, <2>5
<1> QED BY <1>6, <1>7 DEF f

\* Every step keeps Frames.
LEMMA NextFrames == TypeOK /\ Calm /\ Frames /\ [Next]_vars => Frames'
<1> SUFFICES ASSUME TypeOK, Calm, Frames, [Next]_vars PROVE Frames'
  OBVIOUS
<1>1. CASE UNCHANGED <<wire, status>>
  BY <1>1 DEF Frames
<1>2. CASE Restart \/ Disconnect
  BY <1>2, NoFramesNext DEF Restart, Disconnect
<1>3. CASE SyncTenantsWithTM \/ Subscribe \/ \E t \in Tenant, new \in Status : ChangeTenant(t, new)
  BY <1>3, WatchFrames, SubscribeFrames, ChangeFrames
<1>4. CASE ~UNCHANGED <<wire, status>> /\ ~Restart
  <2>1. \/ SyncTenantsWithTM \/ Subscribe \/ Disconnect
        \/ \E t \in Tenant, new \in Status : ChangeTenant(t, new)
    BY <1>4 DEF Next, Start, Build, BuildPanics, FindInitInformation, FindInitFails, BuildAll,
         SetInitInformation, BuildTenant, Load, ListTenants, ListFails, FindAll, FindAllFails, Serve,
         UpsertListed, DeleteAbsent, Work, FindRow, FindRowFails, WriteRow, WriteRowFails, Watch,
         Read, ReadRow, ChangeTenantStatus, UpsertServiceName, Answer, ReaderFails, Environment,
         Crash, GetTenantByExternalId, UpsertByOperator, PurgeTenant, vars, socket, external
  <2> QED BY <1>2, <1>3, <2>1
<1> QED BY <1>1, <1>2, <1>4

-----------------------------------------------------------------------------
(* Rows that are going to be written.                                      *)

JobFine(a) ==
    /\ HasJob(a, "find") => job[a].status \in {"active", "gone"}
    /\ HasJob(a, "write") => Writing(a)

\* Jobs says the same of each actor.
LEMMA JobsFine == (Jobs <=> \A a \in Actor : JobFine(a)) /\ ((\A a \in Actor : JobFine(a)') => Jobs')
BY DEF Jobs, JobFine

\* An actor without a job is fine.
LEMMA IdleIsFine == \A a : HasJob(a, "idle")' => JobFine(a)'
BY DEF HasJob, JobFine

\* A job stays fine while nobody gives its row an operator's addresses, or whoever
\* does so overtakes it.
LEMMA JobStays ==
    ASSUME Jobs, NEW a \in Actor, job'[a] = job[a], a \in overtaken => a \in overtaken',
           HasJob(a, "write") /\ rows'[job[a].tenant].sites = "operator" =>
               rows[job[a].tenant].sites = "operator" \/ a \in overtaken'
    PROVE  JobFine(a)'
<1>1. JobFine(a)
  BY DEF Jobs, JobFine
<1> QED BY <1>1 DEF JobFine, HasJob, Writing

\* A step that leaves an actor's job alone keeps it fine.
LEMMA JobsStay ==
    ASSUME TypeOK, Jobs, UNCHANGED job, \A a \in Actor : a \in overtaken => a \in overtaken',
           \A t \in Tenant : \/ rows'[t].sites = "operator" => rows[t].sites = "operator"
                             \/ \A a \in Actor : a \in Overtaken(t) => a \in overtaken'
    PROVE  Jobs'
<1> SUFFICES ASSUME NEW a \in Actor PROVE JobFine(a)'
  BY JobsFine
<1>1. HasJob(a, "write") => job[a].tenant \in Tenant /\ a \in Overtaken(job[a].tenant)
  BY AtWork DEF HasJob, Overtaken
<1> QED BY <1>1, JobStays

\* At the start nobody has a job, and everything told is nothing.
LEMMA InitJobs == Init => Jobs /\ Lookup /\ Frames /\ Follows
BY JobsAre DEF Init, Jobs, HasJob, Lookup, AnsweredIsCorrected, Reading, Frames, Follows, Starting

\* Nothing is written for an active tenant that was not looked up.
LEMMA NewJobFine ==
    ASSUME NEW a, job'[a].pc = "find" => job'[a].status \in {"active", "gone"},
           job'[a].pc = "write" =>
              job'[a].row = Row(FALSE, FALSE, "nothing", FALSE) /\ job'[a].status = "inactive"
    PROVE  JobFine(a)'
<1>1. /\ Row(FALSE, FALSE, "nothing", FALSE) \in RowType
      /\ Row(FALSE, FALSE, "nothing", FALSE).removed = FALSE
      /\ Row(FALSE, FALSE, "nothing", FALSE).active = FALSE
      /\ Row(FALSE, FALSE, "nothing", FALSE).sites = "nothing"
  BY DEF Row, RowType, SitesFrom
<1>2. Matching(Row(FALSE, FALSE, "nothing", FALSE), "inactive")
  BY <1>1, RowsAre DEF Matching
<1> QED BY <1>1, <1>2 DEF JobFine, HasJob, Writing

\* The steps of a job keep it fine.
LEMMA WorkJobs ==
    ASSUME TypeOK, Jobs, NEW a \in Actor, Work(a)
    PROVE  Jobs'
<1>1. JobOK
  BY TypeParts DEF AllParts
<1>2. CASE FindRow(a) \/ FindRowFails(a)
  <2>1. PICK j \in JobType \union {NoJob} : job' = [job EXCEPT ![a] = j] /\ FoundRow(a, j)
    BY <1>2, FindDoes
  <2>2. job'[a] = j /\ \A b \in Actor : b # a => job'[b] = job[b]
    BY <1>1, <2>1 DEF JobOK
  <2>3. UNCHANGED rows /\ overtaken' = overtaken \ {a}
    BY <1>2 DEF FindRow, FindRowFails, tables
  <2>4. JobFine(a)'
    <3>1. CASE j = NoJob
      BY <2>2, <3>1, JobsAre, IdleIsFine DEF HasJob
    <3>2. CASE j # NoJob
      BY <2>1, <2>2, <2>3, <3>2 DEF FoundRow, JobFine, HasJob, Writing
    <3> QED BY <3>1, <3>2
  <2>5. ASSUME NEW b \in Actor, b # a PROVE JobFine(b)'
    BY <2>2, <2>3, <2>5, JobStays
  <2> QED BY <2>4, <2>5, JobsFine
<1>3. CASE WriteRow(a) \/ WriteRowFails(a)
  <2>1. job' = [job EXCEPT ![a] = NoJob]
    BY <1>3 DEF WriteRow, WriteRowFails
  <2>2. job'[a] = NoJob /\ \A b \in Actor : b # a => job'[b] = job[b]
    BY <1>1, <2>1 DEF JobOK
  <2>3. JobFine(a)'
    BY <2>2, JobsAre, IdleIsFine DEF HasJob
  <2>4. ASSUME NEW b \in Actor, b # a PROVE JobFine(b)'
    <3>1. HasJob(b, "write") => job[b].tenant \in Tenant /\ b \in Overtaken(job[b].tenant)
      BY AtWork DEF HasJob, Overtaken
    <3>2. CASE WriteRow(a)
      <4>1. \A u \in Tenant : u # job[a].tenant => rows'[u] = rows[u]
        BY <3>2, WriteRowDoes
      <4>2. overtaken' = (overtaken \union Overtaken(job[a].tenant)) \ {a}
        BY <3>2 DEF WriteRow
      <4> QED BY <2>2, <2>4, <3>1, <4>1, <4>2, JobStays
    <3>3. CASE WriteRowFails(a)
      BY <2>2, <2>4, <3>3, JobStays DEF WriteRowFails, tables
    <3> QED BY <1>3, <3>2, <3>3
  <2> QED BY <2>3, <2>4, JobsFine
<1> QED BY <1>2, <1>3 DEF Work

\* Every step keeps Jobs.
LEMMA NextJobs == TypeOK /\ Calm /\ Jobs /\ Lookup /\ Frames /\ [Next]_vars => Jobs'
<1> SUFFICES ASSUME TypeOK, Calm, Jobs, Lookup, Frames, [Next]_vars PROVE Jobs'
  OBVIOUS
<1>1. JobOK
  BY TypeParts DEF AllParts
<1>2. CASE UNCHANGED <<rows, job, overtaken>>
  BY <1>2, JobsStay
<1>3. CASE Restart
  <2>1. \A a \in Actor : HasJob(a, "idle")'
    BY <1>3, JobsAre DEF Restart, HasJob
  <2> QED BY <2>1, IdleIsFine, JobsFine
<1>4. CASE BuildStep
  <2>1. Early /\ UNCHANGED job
    BY <1>4 DEF BuildStep, FindInitInformation, FindInitFails, BuildAll, SetInitInformation,
                BuildTenant, Early
  <2>2. HasJob("watcher", "idle") /\ HasJob("starter", "idle")
    BY <2>1, TypeParts DEF Calm, Early, AllParts, IdleOK, StarterIdle
  <2>3. \A a \in Actor : HasJob(a, "idle")'
    BY <2>1, <2>2 DEF HasJob, Actor
  <2> QED BY <2>3, IdleIsFine, JobsFine
<1>5. ASSUME NEW t \in Tenant, NEW s \in {"inactive", "active"}, UpsertListed(t, s) \/ DeleteAbsent(t)
      PROVE  Jobs'
  <2>1. UNCHANGED <<rows, overtaken>> /\ "starter" \in Actor
    BY <1>5 DEF UpsertListed, DeleteAbsent, tables, Actor
  <2>2. PICK j \in {Upserting(t, s), Deleting(t)} : job' = [job EXCEPT !["starter"] = j]
    BY <1>5 DEF UpsertListed, DeleteAbsent
  <2>3. job'["starter"] = j /\ \A b \in Actor : b # "starter" => job'[b] = job[b]
    BY <1>1, <2>1, <2>2 DEF JobOK
  <2>4. /\ j.pc = "find" => j.status \in {"active", "gone"}
        /\ j.pc = "write" => j.row = Row(FALSE, FALSE, "nothing", FALSE) /\ j.status = "inactive"
    BY TakenUp
  <2>5. JobFine("starter")'
    BY <2>3, <2>4, NewJobFine
  <2>6. ASSUME NEW b \in Actor, b # "starter" PROVE JobFine(b)'
    BY <2>1, <2>3, <2>6, JobStays
  <2> QED BY <2>5, <2>6, JobsFine
<1>6. ASSUME NEW a \in Actor, Work(a) PROVE Jobs'
  BY <1>6, WorkJobs
<1>7. CASE SyncTenantsWithTM
  <2>1. UNCHANGED <<rows, overtaken>> /\ "watcher" \in Actor
    BY <1>7 DEF SyncTenantsWithTM, tables, Actor
  <2>2. CASE UNCHANGED job
    BY <2>1, <2>2, JobsStay
  <2>3. CASE ~UNCHANGED job
    <3>1. PICK j \in JobType :
            /\ job' = [job EXCEPT !["watcher"] = j]
            /\ j.pc = "find" => j.status \in {"active", "gone"}
            /\ j.pc = "write" => j.row = Row(FALSE, FALSE, "nothing", FALSE) /\ j.status = "inactive"
      BY <1>7, <2>3, FrameTaken
    <3>2. job'["watcher"] = j /\ \A b \in Actor : b # "watcher" => job'[b] = job[b]
      BY <1>1, <2>1, <3>1 DEF JobOK
    <3>3. JobFine("watcher")'
      BY <3>1, <3>2, NewJobFine
    <3>4. ASSUME NEW b \in Actor, b # "watcher" PROVE JobFine(b)'
      BY <2>1, <3>2, <3>4, JobStays
    <3> QED BY <3>3, <3>4, JobsFine
  <2> QED BY <2>2, <2>3
<1>8. CASE Read
  <2>1. UNCHANGED job /\ \A a \in Actor : a # "reader"
    BY <1>8 DEF Read, ReadRow, ChangeTenantStatus, UpsertServiceName, Answer, ReaderFails, Actor
  <2>2. CASE ChangeTenantStatus /\ IsRow(reader.tenant)
    <3>1. \A t \in Tenant : rows'[t].sites = rows[t].sites
      BY <2>2, ChangeStatusDoes
    <3>2. overtaken \subseteq overtaken'
      BY <2>2 DEF ChangeTenantStatus
    <3> QED BY <2>1, <3>1, <3>2, JobsStay
  <2>3. CASE UpsertServiceName
    <3>1. \A t \in Tenant : t # reader.tenant => rows'[t] = rows[t]
      BY <2>3, ServiceNameDoes
    <3>2. overtaken' = (overtaken \union Overtaken(reader.tenant)) \ {"reader"}
      BY <2>3 DEF UpsertServiceName
    <3> QED BY <2>1, <3>1, <3>2, JobsStay
  <2>4. CASE ~UpsertServiceName /\ ~(ChangeTenantStatus /\ IsRow(reader.tenant))
    <3>1. UNCHANGED rows /\ (overtaken' = overtaken \/ overtaken' = overtaken \ {"reader"})
      BY <1>8, <2>4 DEF Read, ReadRow, ChangeTenantStatus, Answer, ReaderFails, tables
    <3> QED BY <2>1, <3>1, JobsStay
  <2> QED BY <2>2, <2>3, <2>4
<1>9. ASSUME NEW t \in Tenant, UpsertByOperator(t) \/ PurgeTenant(t) PROVE Jobs'
  <2>1. UNCHANGED job /\ overtaken' = overtaken \union Overtaken(t)
    BY <1>9 DEF UpsertByOperator, PurgeTenant
  <2>2. \A u \in Tenant : u # t => rows'[u] = rows[u]
    BY <1>9, OperatorDoes, PurgeDoes
  <2> QED BY <2>1, <2>2, JobsStay
<1>10. CASE \/ Subscribe \/ Disconnect \/ ListTenants \/ ListFails \/ FindAll \/ FindAllFails \/ Serve
            \/ \E t \in Tenant : GetTenantByExternalId(t)
            \/ \E t \in Tenant, new \in Status : ChangeTenant(t, new)
  BY <1>2, <1>10 DEF Subscribe, Disconnect, ListTenants, ListFails, FindAll, FindAllFails, Serve,
                     GetTenantByExternalId, ChangeTenant, tables
<1>11. CASE UNCHANGED vars
  BY <1>2, <1>11 DEF vars, tables
<1>12. CASE BuildPanics \/ Crash
  BY <1>3, <1>12 DEF BuildPanics, Crash
<1> QED BY <1>4, <1>5, <1>6, <1>7, <1>8, <1>9, <1>10, <1>11, <1>12
        DEF Next, Start, Build, BuildStep, Load, Watch, Environment, Actor

-----------------------------------------------------------------------------
(* What a lookup goes by.                                                  *)

\* Without a lookup there is nothing it goes by.
LEMMA NobodyAsks == Reading("idle")' => Lookup'
BY DEF Reading, Lookup, AnsweredIsCorrected

\* What a lookup knows stays true, or it is overtaken.
LEMMA LookupStays ==
    ASSUME TypeOK, Lookup, UNCHANGED reader, "reader" \in overtaken => "reader" \in overtaken',
           \A t \in Tenant : rows'[t] = rows[t] \/ (\A a : a \in Overtaken(t) => a \in overtaken')
    PROVE  Lookup'
<1>1. CASE reader.pc \notin {"status", "name", "answer"}
  BY <1>1 DEF Lookup, AnsweredIsCorrected, Reading
<1>2. CASE reader.pc \in {"status", "name", "answer"}
  <2>1. reader.tenant \in Tenant /\ "reader" \in Overtaken(reader.tenant)
    BY <1>2, AtWork DEF Reading, Overtaken
  <2>2. rows'[reader.tenant] = rows[reader.tenant] \/ "reader" \in overtaken'
    BY <2>1
  <2> QED BY <2>2 DEF Lookup, AnsweredIsCorrected, Reading
<1> QED BY <1>1, <1>2

\* The steps of a lookup keep Lookup.
LEMMA ReadLookup ==
    ASSUME TypeOK, Lookup, Read
    PROVE  Lookup'
<1>1. reader \in ReaderType /\ reader.tenant \in Tenant /\ "reader" \notin Actor
  BY AtWork DEF Read, ReadRow, ChangeTenantStatus, UpsertServiceName, Answer, ReaderFails, Reading, Actor
<1>2. /\ Answering.pc = "answer" /\ Answering.tenant = reader.tenant
      /\ Answering.status = reader.status
      /\ [reader EXCEPT !.pc = "name"].pc = "name"
      /\ [reader EXCEPT !.pc = "name"].tenant = reader.tenant
      /\ [reader EXCEPT !.pc = "name"].status = reader.status
      /\ [reader EXCEPT !.pc = "name"].row = reader.row
  BY <1>1 DEF Answering, ReaderType
<1>3. ASSUME reader' = Answering, rows'[reader.tenant].active = (reader.status = "active")
      PROVE  Lookup'
  BY <1>2, <1>3 DEF Lookup, AnsweredIsCorrected, Reading
<1>4. ASSUME reader' = NoReader PROVE Lookup'
  BY <1>4, JobsAre, NobodyAsks DEF Reading
<1>5. CASE ReadRow
  <2>1. UNCHANGED rows /\ reader.pc = "row"
    BY <1>5 DEF ReadRow, tables, Reading
  <2>2. CASE reader' = Answering /\ rows[reader.tenant].active = (reader.status = "active")
    BY <1>3, <2>1, <2>2
  <2>3. CASE /\ reader'.pc \in {"status", "name"}
             /\ reader'.tenant = reader.tenant /\ reader'.status = reader.status
             /\ reader'.row \in RowType /\ reader'.row.active = (reader.status = "active")
             /\ reader'.row.removed = rows[reader.tenant].removed
             /\ reader'.row.sites = rows[reader.tenant].sites
    <3>1. rows[reader.tenant].removed => rows[reader.tenant].sites = "nothing"
      BY <1>1, TypeParts DEF AllParts, RowsOK
    <3> QED BY <2>1, <2>3, <3>1 DEF Lookup, AnsweredIsCorrected, Reading
  <2> QED BY <1>4, <1>5, <2>2, <2>3, ReadRowDoes
<1>6. CASE ChangeTenantStatus /\ IsRow(reader.tenant)
  <2>1. /\ rows'[reader.tenant].active = (reader.status = "active")
        /\ rows'[reader.tenant].removed = rows[reader.tenant].removed
        /\ rows'[reader.tenant].sites = rows[reader.tenant].sites
        /\ reader' = Answering \/ reader' = [reader EXCEPT !.pc = "name"]
    BY <1>6, ChangeStatusDoes
  <2>2. CASE reader' = Answering
    BY <1>3, <2>1, <2>2
  <2>3. CASE reader' = [reader EXCEPT !.pc = "name"]
    <3>1. reader.pc = "status" /\ ("reader" \in overtaken => "reader" \in overtaken')
      BY <1>6 DEF ChangeTenantStatus, Reading
    <3>2. /\ reader.row \in RowType /\ (reader.row.removed => reader.row.sites = "nothing")
          /\ reader.row.active = (reader.status = "active")
          /\ "reader" \notin overtaken =>
                /\ rows[reader.tenant].sites = reader.row.sites
                /\ rows[reader.tenant].removed = reader.row.removed
      BY <3>1 DEF Lookup
    <3>3. /\ reader'.pc = "name" /\ reader'.tenant = reader.tenant
          /\ reader'.status = reader.status /\ reader'.row = reader.row
      BY <1>2, <2>3
    <3> QED BY <2>1, <3>1, <3>2, <3>3 DEF Lookup, AnsweredIsCorrected, Reading
  <2> QED BY <2>1, <2>2, <2>3
<1>7. CASE ChangeTenantStatus /\ ~IsRow(reader.tenant)
  BY <1>4, <1>7 DEF ChangeTenantStatus
<1>8. CASE UpsertServiceName
  <2>1. reader' = Answering
    BY <1>8 DEF UpsertServiceName
  <2> QED BY <1>3, <1>8, <2>1, ServiceNameDoes
<1>9. CASE Answer \/ ReaderFails
  BY <1>4, <1>9 DEF Answer, ReaderFails
<1> QED BY <1>5, <1>6, <1>7, <1>8, <1>9 DEF Read

\* Every step keeps Lookup.
LEMMA NextLookup == TypeOK /\ Calm /\ Jobs /\ Lookup /\ Frames /\ [Next]_vars => Lookup'
<1> SUFFICES ASSUME TypeOK, Calm, Jobs, Lookup, Frames, [Next]_vars PROVE Lookup'
  OBVIOUS
<1>1. CASE UNCHANGED <<rows, reader, overtaken>>
  BY <1>1, LookupStays
<1>2. CASE Restart
  BY <1>2, JobsAre, NobodyAsks DEF Restart, Reading
<1>3. CASE BuildStep
  <2>1. Early /\ UNCHANGED reader
    BY <1>3 DEF BuildStep, FindInitInformation, FindInitFails, BuildAll, SetInitInformation,
                BuildTenant, Early
  <2> QED BY <2>1, NobodyAsks DEF Calm, Early, Serving, Reading
<1>4. ASSUME NEW a \in Actor, Work(a) PROVE Lookup'
  <2>1. UNCHANGED reader /\ a # "reader"
    BY <1>4 DEF Work, FindRow, FindRowFails, WriteRow, WriteRowFails, Actor
  <2>2. CASE ~WriteRow(a)
    <3>1. UNCHANGED rows /\ overtaken' = overtaken \ {a}
      BY <1>4, <2>2 DEF Work, FindRow, FindRowFails, WriteRowFails, tables
    <3> QED BY <2>1, <3>1, LookupStays
  <2>3. CASE WriteRow(a)
    <3> DEFINE t == job[a].tenant
    <3>1. \A u \in Tenant : u # t => rows'[u] = rows[u]
      BY <2>3, WriteRowDoes
    <3>2. overtaken' = (overtaken \union Overtaken(t)) \ {a}
      BY <2>3 DEF WriteRow
    <3>3. reader.pc \in {"status", "name", "answer"} =>
            reader.tenant \in Tenant /\ (reader.tenant = t => "reader" \in Overtaken(t))
      BY AtWork DEF Reading, Overtaken
    <3> HIDE DEF t
    <3>4. reader.pc \in {"status", "name", "answer"} =>
            rows'[reader.tenant] = rows[reader.tenant] \/ "reader" \in overtaken'
      BY <2>1, <3>1, <3>2, <3>3
    <3> QED BY <2>1, <3>2, <3>4 DEF Lookup, AnsweredIsCorrected, Reading
  <2> QED BY <2>2, <2>3
<1>5. CASE Read
  BY <1>5, ReadLookup
<1>6. ASSUME NEW t \in Tenant, UpsertByOperator(t) \/ PurgeTenant(t) PROVE Lookup'
  <2>1. UNCHANGED reader /\ overtaken' = overtaken \union Overtaken(t)
    BY <1>6 DEF UpsertByOperator, PurgeTenant
  <2>2. \A u \in Tenant : u # t => rows'[u] = rows[u]
    BY <1>6, OperatorDoes, PurgeDoes
  <2> QED BY <2>1, <2>2, LookupStays
<1>7. ASSUME NEW t \in Tenant, GetTenantByExternalId(t) PROVE Lookup'
  <2>1. reader'.pc = "row"
    BY <1>7 DEF GetTenantByExternalId
  <2> QED BY <2>1 DEF Lookup, AnsweredIsCorrected, Reading
<1>8. CASE \/ Load \/ SyncTenantsWithTM \/ Subscribe \/ Disconnect
           \/ \E t \in Tenant, new \in Status : ChangeTenant(t, new)
  BY <1>1, <1>8 DEF Load, ListTenants, ListFails, FindAll, FindAllFails, Serve, UpsertListed,
                    DeleteAbsent, SyncTenantsWithTM, Subscribe, Disconnect, ChangeTenant, tables
<1>9. CASE UNCHANGED vars
  BY <1>1, <1>9 DEF vars, tables
<1>10. CASE BuildPanics \/ Crash
  BY <1>2, <1>10 DEF BuildPanics, Crash
<1> QED BY <1>3, <1>4, <1>5, <1>6, <1>7, <1>8, <1>9, <1>10
    DEF Next, Start, Watch, Environment, Build, BuildStep, Actor

-----------------------------------------------------------------------------
(* Every tenant's news is in its row or underway to it.                    *)

\* A status that agrees is as good as tenant-manager's.
LEMMA AgreeingRow ==
    ASSUME NEW t, NEW s, NEW r, Agrees(s, t), Matching(r, s)
    PROVE  Matching(r, status[t])
BY DEF Agrees, Matching

\* The starter and the watcher keep what they have to do.
LEMMA WillStays ==
    ASSUME NEW t, status'[t] = status[t], UNCHANGED <<starter, todo, listed>>
    PROVE  StarterWill(t) = StarterWill(t)'
BY DEF StarterWill, Known

\* A job for a tenant stays one while its fields stay.
LEMMA JobForStays ==
    ASSUME NEW t, status'[t] = status[t], NEW a \in Actor,
           \A b \in Actor : b # a => job'[b] = job[b],
           JobFor(t),
           ~HasJob(a, "idle") /\ job[a].tenant = t /\ Agrees(job[a].status, t) => job'[a] = job[a]
    PROVE  JobFor(t)'
<1>1. PICK b \in Actor : ~HasJob(b, "idle") /\ job[b].tenant = t /\ Agrees(job[b].status, t)
  BY DEF JobFor
<1>2. job'[b] = job[b]
  BY <1>1
<1> QED BY <1>1, <1>2 DEF JobFor, HasJob, Agrees

\* A step that at most writes one row.
LEMMA RowFollows ==
    ASSUME TypeOK, Follows, UNCHANGED <<status, wire, job, starter, todo, listed>>, NEW t \in Tenant,
           \A u \in Tenant : u # t => rows'[u] = rows[u] /\ (u \notin outdated' => u \notin outdated),
           t \notin outdated' =>
              \/ Matching(rows'[t], status[t])
              \/ t \notin outdated /\ (Matching(rows[t], status[t]) => Matching(rows'[t], status[t]))
    PROVE  Follows'
<1> SUFFICES ASSUME starter \notin Starting, NEW u \in Tenant, u \notin outdated' PROVE Followed(u)'
  BY DEF Follows
<1>1. CASE Matching(rows'[u], status[u])
  BY <1>1 DEF Followed
<1>2. CASE ~Matching(rows'[u], status[u])
  <2>1. u \notin outdated /\ ~Matching(rows[u], status[u])
    BY <1>2
  <2>2. Told(u) \/ JobFor(u) \/ StarterWill(u)
    BY <2>1 DEF Follows, Followed
  <2>3. (Told(u) => Told(u)') /\ (JobFor(u) => JobFor(u)') /\ (StarterWill(u) => StarterWill(u)')
    BY WillStays DEF Told, JobFor, HasJob, Agrees
  <2> QED BY <2>2, <2>3 DEF Followed
<1> QED BY <1>1, <1>2

\* A step that changes nothing Follows is about keeps it.
LEMMA NothingFollows ==
    ASSUME TypeOK, Follows, UNCHANGED <<status, wire, rows, job, starter, todo, listed, outdated>>
    PROVE  Follows'
<1> SUFFICES ASSUME starter \notin Starting, NEW u \in Tenant, u \notin outdated PROVE Followed(u)'
  BY DEF Follows
<1> QED BY RowFollows DEF Follows

\* The starter keeps Follows.
LEMMA StartFollows ==
    ASSUME TypeOK, Follows, Load
    PROVE  Follows'
<1>1. JobOK /\ "starter" \in Actor
  BY TypeParts DEF AllParts, Actor
<1>2. CASE ListTenants
  <2>1. /\ starter' = "upserting" /\ listed' = {t \in Tenant : Known(t)}
        /\ todo' = {<<t, status[t]>> : t \in listed'} /\ UNCHANGED status
    BY <1>2 DEF ListTenants, external
  <2>2. ASSUME NEW u \in Tenant PROVE StarterWill(u)'
    BY <2>1 DEF StarterWill, Known
  <2> QED BY <2>2 DEF Follows, Followed
<1>3. CASE ListFails \/ FindAllFails
  BY <1>3 DEF ListFails, FindAllFails, startup, Follows, Starting
<1>4. CASE FindAll \/ Serve
  <2>1. /\ UNCHANGED <<status, rows, wire, job, outdated>> /\ todo = {} /\ starter \notin Starting
    BY <1>4 DEF FindAll, Serve, external, socket, tables, Starting
  <2>2. ASSUME NEW u \in Tenant, u \notin outdated PROVE Followed(u)'
    <3>1. Followed(u)
      BY <2>1, <2>2 DEF Follows
    <3>2. CASE Matching(rows[u], status[u]) \/ Told(u) \/ JobFor(u)
      BY <2>1, <3>2 DEF Followed, Told, JobFor, HasJob, Agrees
    <3>3. CASE StarterWill(u) /\ Serve
      BY <2>1, <3>3 DEF StarterWill, Serve
    <3>4. CASE StarterWill(u) /\ FindAll
      <4>1. /\ ~Known(u) /\ u \notin listed /\ starter' = "deleting"
            /\ todo' = {t \in Tenant : IsRow(t)} \ listed
        BY <2>1, <3>4 DEF StarterWill, FindAll
      <4>2. CASE IsRow(u)
        BY <2>1, <4>1, <4>2 DEF Followed, StarterWill, Known
      <4>3. CASE ~IsRow(u)
        BY <2>1, <4>1, <4>3 DEF Followed, Matching, IsRow, Known
      <4> QED BY <4>2, <4>3
    <3> QED BY <1>4, <3>1, <3>2, <3>3, <3>4 DEF Followed
  <2> QED BY <2>1, <2>2 DEF Follows
<1>5. ASSUME NEW t \in Tenant, NEW s \in {"inactive", "active"}, UpsertListed(t, s) \/ DeleteAbsent(t)
      PROVE  Follows'
  <2>1. /\ UNCHANGED <<status, rows, wire, starter, listed, outdated>> /\ StarterIdle
        /\ starter \notin Starting
    BY <1>5 DEF UpsertListed, DeleteAbsent, external, socket, tables, Starting
  <2>2. PICK j \in JobType : job' = [job EXCEPT !["starter"] = j] /\ j.tenant = t
                             /\ \/ UpsertListed(t, s) /\ j.status = s
                                \/ DeleteAbsent(t) /\ j.status = "gone"
    <3>1. CASE UpsertListed(t, s)
      <4>1. job' = [job EXCEPT !["starter"] = Upserting(t, s)]
        BY <3>1 DEF UpsertListed
      <4>2. /\ Upserting(t, s) \in JobType /\ Upserting(t, s).tenant = t
            /\ Upserting(t, s).status = s
        BY UpsertingIs
      <4> QED BY <3>1, <4>1, <4>2
    <3>2. CASE DeleteAbsent(t)
      <4>1. job' = [job EXCEPT !["starter"] = Deleting(t)]
        BY <3>2 DEF DeleteAbsent
      <4>2. /\ Deleting(t) \in JobType /\ Deleting(t).tenant = t
            /\ Deleting(t).status = "gone"
        BY DeletingIs
      <4> QED BY <3>2, <4>1, <4>2
    <3> QED BY <1>5, <3>1, <3>2
  <2>3. job'["starter"] = j /\ \A b \in Actor : b # "starter" => job'[b] = job[b]
    BY <1>1, <2>2 DEF JobOK
  <2>4. Agrees(j.status, t) => JobFor(t)'
    BY <1>1, <2>1, <2>2, <2>3 DEF JobFor, HasJob, JobType, Agrees
  <2>5. ASSUME NEW u \in Tenant, u \notin outdated PROVE Followed(u)'
    <3>1. Followed(u)
      BY <2>1, <2>5 DEF Follows
    <3>2. CASE Matching(rows[u], status[u]) \/ Told(u)
      BY <2>1, <3>2 DEF Followed, Told
    <3>3. CASE JobFor(u)
      <4>1. HasJob("starter", "idle")
        BY <2>1 DEF StarterIdle
      <4>2. JobFor(u)'
        BY <1>1, <2>1, <2>3, <3>3, <4>1, JobForStays
      <4> QED BY <4>2 DEF Followed
    <3>4. CASE StarterWill(u) /\ UpsertListed(t, s)
      <4>1. starter = "upserting" /\ todo' = todo \ {<<t, s>>} /\ j.status = s
        BY <2>2, <3>4 DEF UpsertListed, DeleteAbsent
      <4>2. CASE u = t /\ status[u] = s
        BY <2>4, <4>1, <4>2 DEF Followed, Agrees
      <4>3. CASE ~(u = t /\ status[u] = s)
        <5>1. StarterWill(u)'
          BY <2>1, <3>4, <4>1, <4>3 DEF StarterWill, Known
        <5> QED BY <5>1 DEF Followed
      <4> QED BY <4>2, <4>3
    <3>5. CASE StarterWill(u) /\ DeleteAbsent(t)
      <4>1. starter = "deleting" /\ todo' = todo \ {t} /\ j.status = "gone"
        BY <2>2, <3>5 DEF UpsertListed, DeleteAbsent
      <4>2. ~Known(u) /\ u \in todo
        BY <3>5, <4>1 DEF StarterWill
      <4>3. CASE u = t
        <5>1. status[u] \in Status
          BY TypeParts DEF AllParts, ExternalOK
        <5> QED BY <2>4, <4>1, <4>2, <4>3, <5>1 DEF Followed, Agrees, Known, Status
      <4>4. CASE u # t
        <5>1. StarterWill(u)'
          BY <2>1, <4>1, <4>2, <4>4 DEF StarterWill, Known
        <5> QED BY <5>1 DEF Followed
      <4> QED BY <4>3, <4>4
    <3> QED BY <1>5, <3>1, <3>2, <3>3, <3>4, <3>5 DEF Followed
  <2> QED BY <2>1, <2>5 DEF Follows
<1> QED BY <1>2, <1>3, <1>4, <1>5 DEF Load

\* The steps of a job keep Follows.
LEMMA WorkFollows ==
    ASSUME TypeOK, Jobs, Follows, NEW a \in Actor, Work(a)
    PROVE  Follows'
<1> DEFINE t == job[a].tenant
           s == job[a].status
<1>1. JobOK /\ ~HasJob(a, "idle") /\ t \in Tenant
  BY TypeParts, AtWork DEF AllParts, Work, FindRow, FindRowFails, WriteRow, WriteRowFails, HasJob
<1>2. UNCHANGED <<status, wire, starter, todo, listed>>
  BY DEF Work, FindRow, FindRowFails, WriteRow, WriteRowFails, external, socket, startup
<1>3. PICK j \in JobType \union {NoJob} : job' = [job EXCEPT ![a] = j]
  BY FindDoes DEF Work, WriteRow, WriteRowFails
<1>4. \A b \in Actor : b # a => job'[b] = job[b]
  BY <1>1, <1>3 DEF JobOK
<1> SUFFICES ASSUME starter \notin Starting, NEW u \in Tenant, u \notin outdated' PROVE Followed(u)'
  BY <1>2 DEF Follows
<1>5. (Told(u) => Told(u)') /\ (StarterWill(u) => StarterWill(u)')
  BY <1>2, WillStays DEF Told
<1>6. JobFor(u) /\ ~(t = u /\ Agrees(s, u)) => JobFor(u)'
  BY <1>2, <1>4, JobForStays
<1> HIDE DEF t, s
<1>7. CASE FindRow(a) \/ FindRowFails(a)
  <2>1. UNCHANGED rows /\ u \notin outdated
    BY <1>7 DEF FindRow, FindRowFails, tables
  <2>2. Followed(u)
    BY <2>1 DEF Follows
  <2>3. CASE t = u /\ Agrees(s, u)
    <3>1. PICK k \in JobType \union {NoJob} : job' = [job EXCEPT ![a] = k] /\ FoundRow(a, k)
      BY <1>7, FindDoes
    <3>2. job'[a] = k
      BY <1>1, <3>1 DEF JobOK
    <3>3. CASE k = NoJob
      <4>1. s = "gone" /\ ~IsRow(u)
        BY <2>3, <3>1, <3>3, JobsAre DEF FoundRow, t, s
      <4>2. rows[u] = NoRow /\ status[u] \in {"gone", "none"}
        BY <2>3, <4>1 DEF IsRow, Agrees
      <4> QED BY <1>2, <2>1, <4>2 DEF Followed, Matching
    <3>4. CASE k # NoJob
      <4>1. k.pc = "write" /\ k.tenant = t /\ k.status = s
        BY <3>1, <3>4 DEF FoundRow, t, s
      <4>2. JobFor(u)'
        BY <1>2, <2>3, <3>2, <4>1 DEF JobFor, HasJob, Agrees
      <4> QED BY <4>2 DEF Followed
    <3> QED BY <3>3, <3>4
  <2>4. CASE ~(t = u /\ Agrees(s, u))
    BY <1>2, <1>5, <1>6, <2>1, <2>2, <2>4 DEF Followed
  <2> QED BY <2>3, <2>4
<1>8. CASE WriteRow(a)
  <2> DEFINE r == Stored(t, job[a].row)
  <2>1. Matching(r, s) /\ rows'[t] = r /\ \A v \in Tenant : v # t => rows'[v] = rows[v]
    BY <1>8, WriteRowDoes DEF t, s
  <2>2. WrittenBy(t, s)
    BY <1>8 DEF WriteRow, t, s
  <2> HIDE DEF r
  <2>3. CASE u = t /\ Agrees(s, t)
    <3>1. Matching(r, status[t])
      BY <2>1, <2>3, AgreeingRow
    <3> QED BY <1>2, <2>1, <2>3, <3>1 DEF Followed
  <2>4. CASE u = t /\ ~Agrees(s, t)
    <3>1. Told(u)
      BY <2>2, <2>4 DEF WrittenBy
    <3> QED BY <1>5, <3>1 DEF Followed
  <2>5. CASE u # t
    <3>1. u \notin outdated
      BY <2>2, <2>5 DEF WrittenBy
    <3>2. Followed(u)
      BY <3>1 DEF Follows
    <3> QED BY <1>2, <1>5, <1>6, <2>1, <2>5, <3>2 DEF Followed
  <2> QED BY <2>3, <2>4, <2>5
<1>9. CASE WriteRowFails(a)
  <2>1. UNCHANGED rows /\ outdated' = outdated \union {t}
    BY <1>9 DEF WriteRowFails, tables, t
  <2>2. Followed(u) /\ u # t
    BY <2>1 DEF Follows
  <2> QED BY <1>2, <1>5, <1>6, <2>1, <2>2 DEF Followed
<1> QED BY <1>7, <1>8, <1>9 DEF Work

\* The watcher keeps Follows.
LEMMA WatchFollows ==
    ASSUME TypeOK, Frames, Follows, SyncTenantsWithTM
    PROVE  Follows'
<1> DEFINE f == Head(wire)
<1>1. JobOK /\ "watcher" \in Actor /\ HasJob("watcher", "idle")
  BY TypeParts DEF AllParts, Actor, SyncTenantsWithTM
<1>2. UNCHANGED <<status, rows, starter, todo, listed, outdated>>
  BY DEF SyncTenantsWithTM, external, tables, startup
<1>3. \A b \in Actor : b # "watcher" => job'[b] = job[b]
  BY <1>1, FrameTaken DEF JobOK
<1> SUFFICES ASSUME starter \notin Starting, NEW u \in Tenant, u \notin outdated PROVE Followed(u)'
  BY <1>2 DEF Follows
<1>4. Followed(u)
  BY DEF Follows
<1>5. CASE Matching(rows[u], status[u]) \/ StarterWill(u)
  BY <1>2, <1>5, WillStays DEF Followed
<1>6. CASE JobFor(u)
  <2>1. JobFor(u)'
    BY <1>1, <1>2, <1>3, <1>6, JobForStays
  <2> QED BY <2>1 DEF Followed
<1>7. CASE Told(u)
  <2>1. CASE Told(u)'
    BY <2>1 DEF Followed
  <2>2. CASE Names(f, u) /\ f.tenants[1][2] = status[u]
    <3>1. f.tenants # <<>> /\ f.tenants[1][1] = u
      BY <2>2, FrameTaken DEF Names
    <3>2. PICK j \in JobType : /\ job' = [job EXCEPT !["watcher"] = j]
                               /\ j.tenant = f.tenants[1][1] /\ j.status = f.tenants[1][2]
      BY <3>1, FrameTaken
    <3>3. job'["watcher"] = j /\ j.pc # "idle" /\ j.tenant = u /\ j.status = status[u]
      BY <1>1, <2>2, <3>1, <3>2 DEF JobOK, JobType
    <3>4. JobFor(u)'
      BY <1>1, <1>2, <3>3 DEF JobFor, HasJob, Agrees
    <3> QED BY <3>4 DEF Followed
  <2> QED BY <1>7, <2>1, <2>2, WatchFrames
<1> QED BY <1>4, <1>5, <1>6, <1>7 DEF Followed

\* A lookup keeps Follows.
LEMMA ReadFollows ==
    ASSUME TypeOK, Lookup, Follows, Read
    PROVE  Follows'
<1> DEFINE t == reader.tenant
           s == reader.status
<1>1. UNCHANGED <<status, wire, job, starter, todo, listed>>
  BY DEF Read, ReadRow, ChangeTenantStatus, UpsertServiceName, Answer, ReaderFails, external, socket, startup
<1>2. t \in Tenant /\ s \in {"inactive", "active"}
  BY AtWork DEF Read, ReadRow, ChangeTenantStatus, UpsertServiceName, Answer, ReaderFails, Reading
<1> HIDE DEF t, s
<1>3. CASE ChangeTenantStatus /\ IsRow(t)
  <2>1. /\ rows[t] \in RowType /\ rows'[t] \in RowType /\ rows'[t].active = (s = "active")
        /\ rows'[t].removed = rows[t].removed
        /\ \A u \in Tenant : u # t => rows'[u] = rows[u]
    BY <1>3, ChangeStatusDoes DEF t, s
  <2>2. outdated' = IF s = status[t] THEN outdated ELSE outdated \union {t}
    BY <1>3 DEF ChangeTenantStatus, t, s
  <2>3. t \notin outdated' =>
          t \notin outdated /\ (Matching(rows[t], status[t]) => Matching(rows'[t], status[t]))
    BY <1>2, <2>1, <2>2, RowsAre DEF Matching
  <2> QED BY <1>1, <1>2, <2>1, <2>2, <2>3, RowFollows
<1>4. CASE UpsertServiceName
  <2>1. /\ rows'[t] \in RowType /\ rows'[t].active = (s = "active")
        /\ rows'[t].removed = reader.row.removed
        /\ \A u \in Tenant : u # t => rows'[u] = rows[u]
    BY <1>4, ServiceNameDoes DEF t, s
  <2>2. outdated' = IF s = status[t] /\ "reader" \notin overtaken THEN outdated ELSE outdated \union {t}
    BY <1>4 DEF UpsertServiceName, t, s
  <2>3. "reader" \notin overtaken => reader.row.removed = rows[t].removed
    BY <1>4 DEF UpsertServiceName, Reading, Lookup, t
  <2>4. t \notin outdated' =>
          t \notin outdated /\ (Matching(rows[t], status[t]) => Matching(rows'[t], status[t]))
    BY <1>2, <2>1, <2>2, <2>3, RowsAre DEF Matching
  <2> QED BY <1>1, <1>2, <2>1, <2>2, <2>4, RowFollows
<1>5. CASE ~UpsertServiceName /\ ~(ChangeTenantStatus /\ IsRow(t))
  <2>1. UNCHANGED <<rows, outdated>>
    BY <1>5 DEF Read, ReadRow, ChangeTenantStatus, Answer, ReaderFails, tables, t
  <2> QED BY <1>1, <2>1, NothingFollows
<1> QED BY <1>3, <1>4, <1>5

\* Inputs, faults and crashes keep Follows.
LEMMA EnvironmentFollows ==
    ASSUME TypeOK, Calm, Frames, Follows, Environment
    PROVE  Follows'
<1>1. CASE Crash
  BY <1>1 DEF Crash, Restart, Follows, Starting
<1>2. CASE Subscribe
  <2>1. UNCHANGED <<status, rows, job, starter, todo, listed, outdated>>
    BY <1>2 DEF Subscribe, external, tables, startup
  <2>2. \A u : ~Told(u)
    BY <1>2, SubscribeFrames
  <2>3. ASSUME starter \notin Starting, NEW u \in Tenant, u \notin outdated PROVE Followed(u)'
    <3>1. Matching(rows[u], status[u]) \/ JobFor(u) \/ StarterWill(u)
      BY <2>2, <2>3 DEF Follows, Followed
    <3> QED BY <2>1, <3>1, WillStays DEF Followed, JobFor, HasJob, Agrees
  <2> QED BY <2>1, <2>3 DEF Follows
<1>3. CASE Disconnect
  <2>1. UNCHANGED <<status, rows, job, starter, todo, listed>>
    BY <1>3 DEF Disconnect, external, tables, startup
  <2>2. ASSUME starter \notin Starting, NEW u \in Tenant, u \notin outdated' PROVE Followed(u)'
    <3>1. outdated' = outdated \union {v \in Tenant : \E i \in DOMAIN wire : \E j \in DOMAIN wire[i].tenants :
                                          wire[i].type # "SUBSCRIBED" /\ wire[i].tenants[j][1] = v}
      BY <1>3, <2>2 DEF Disconnect, Lost
    <3>2. ~Told(u)
      <4>1. SUFFICES ASSUME NEW i \in DOMAIN wire, wire[i].type # "SUBSCRIBED", wire[i].tenants[1][1] = u
                     PROVE  FALSE
        BY DEF Told
      <4>2. wire \in Seq(FrameType)
        BY TypeParts DEF AllParts, SocketOK
      <4>5. wire[i] \in FrameType /\ FrameOK(wire[i])
        BY <4>1, <4>2 DEF Frames
      <4>3. wire[i].tenants \in Seq(Tenant \X Status) /\ Len(wire[i].tenants) = 1
        BY <4>1, <4>5 DEF FrameType, FrameOK
      <4>4. 1 \in DOMAIN wire[i].tenants
        BY <4>3
      <4> QED BY <2>2, <3>1, <4>1, <4>4
    <3>3. Matching(rows[u], status[u]) \/ JobFor(u) \/ StarterWill(u)
      BY <2>2, <3>1, <3>2 DEF Follows, Followed
    <3> QED BY <2>1, <3>3, WillStays DEF Followed, JobFor, HasJob, Agrees
  <2> QED BY <2>1, <2>2 DEF Follows
<1>4. ASSUME NEW t \in Tenant, NEW new \in Status, ChangeTenant(t, new) PROVE Follows'
  <2>1. /\ UNCHANGED <<rows, job, starter, todo, listed>>
        /\ IF conn THEN UNCHANGED outdated ELSE Lost({t})
    BY <1>4 DEF ChangeTenant, tables, startup
  <2>2. \A u \in Tenant : u # t => status'[u] = status[u]
    BY <1>4, ChangeDoes
  <2>3. ASSUME starter \notin Starting, NEW u \in Tenant, u \notin outdated' PROVE Followed(u)'
    <3>1. CASE u = t
      <4>1. conn
        BY <2>1, <2>3, <3>1 DEF Lost
      <4>2. Told(t)'
        BY <1>4, <4>1, ChangeFrames
      <4> QED BY <3>1, <4>2 DEF Followed
    <3>2. CASE u # t
      <4>1. status'[u] = status[u] /\ u \notin outdated
        BY <2>1, <2>2, <2>3, <3>2 DEF Lost
      <4>2. Followed(u)
        BY <2>3, <4>1 DEF Follows
      <4>3. Told(u) => Told(u)'
        BY <1>4, ChangeFrames
      <4> QED BY <2>1, <4>1, <4>2, <4>3, WillStays DEF Followed, JobFor, HasJob, Agrees
    <3> QED BY <3>1, <3>2
  <2> QED BY <2>1, <2>3 DEF Follows
<1>5. ASSUME NEW t \in Tenant, GetTenantByExternalId(t) PROVE Follows'
  <2>1. UNCHANGED <<status, wire, rows, job, starter, todo, listed, outdated>>
    BY <1>5 DEF GetTenantByExternalId, socket, tables, startup
  <2> QED BY <2>1, NothingFollows
<1>6. ASSUME NEW t \in Tenant, UpsertByOperator(t) \/ PurgeTenant(t) PROVE Follows'
  <2>1. UNCHANGED <<status, wire, job, starter, todo, listed, outdated>>
    BY <1>6 DEF UpsertByOperator, PurgeTenant, external, socket, startup
  <2>2. /\ \A u \in Tenant : u # t => rows'[u] = rows[u]
        /\ Matching(rows[t], status[t]) => Matching(rows'[t], status[t])
    <3>1. CASE UpsertByOperator(t)
      BY <3>1, OperatorDoes, RowsAre DEF Matching
    <3>2. CASE PurgeTenant(t)
      BY <3>2, PurgeDoes DEF Matching
    <3> QED BY <1>6, <3>1, <3>2
  <2> QED BY <2>1, <2>2, RowFollows
<1> QED BY <1>1, <1>2, <1>3, <1>4, <1>5, <1>6 DEF Environment

\* Every step keeps Follows.
LEMMA NextFollows ==
    TypeOK /\ Calm /\ Jobs /\ Lookup /\ Frames /\ Follows /\ [Next]_vars => Follows'
<1> SUFFICES ASSUME TypeOK, Calm, Jobs, Lookup, Frames, Follows, [Next]_vars PROVE Follows'
  OBVIOUS
<1>1. CASE Build
  <2>1. starter' \in Starting
    BY <1>1 DEF Build, FindInitInformation, FindInitFails, BuildAll, SetInitInformation, BuildPanics,
                BuildTenant, Restart, Starting
  <2> QED BY <2>1 DEF Follows
<1>2. CASE Load
  BY <1>2, StartFollows
<1>3. ASSUME NEW a \in Actor, Work(a) PROVE Follows'
  BY <1>3, WorkFollows
<1>4. CASE SyncTenantsWithTM \/ Read \/ Environment
  BY <1>4, WatchFollows, ReadFollows, EnvironmentFollows
<1>5. CASE UNCHANGED vars
  BY <1>5, NothingFollows DEF vars, external, socket, tables, startup
<1> QED BY <1>1, <1>2, <1>3, <1>4, <1>5 DEF Next, Start, Watch, Actor

-----------------------------------------------------------------------------
(* The theorems.                                                           *)

\* The invariant holds in every state.
LEMMA SyncInvariant == Spec => []SyncInv
<1>1. Init => SyncInv
  BY InitTypes, InitCalm, InitJobs DEF SyncInv
<1>2. SyncInv /\ [Next]_vars => SyncInv'
  BY NextTypes, NextCalm, NextBuilt, NextJobs, NextLookup, NextFrames, NextFollows DEF SyncInv
<1> QED BY <1>1, <1>2, PTL DEF Spec

\* The tables, the frames, the jobs of the starter and the watcher and a lookup's
\* locals keep their types, and a removed row has no addresses.
THEOREM TypeCorrect == Spec => []TypeOK
<1>1. SyncInv => TypeOK
  BY DEF SyncInv
<1> QED BY <1>1, SyncInvariant, PTL

\* buildSchemeIfRequired: whatever fails or crashes on the way, the table only counts
\* as built when every tenant that had routes has had its row.
THEOREM NobodyIsOwed == Spec => []NoTenantIsOwed
<1>1. SyncInv => NoTenantIsOwed
  BY DEF SyncInv, Built, NoTenantIsOwed
<1> QED BY <1>1, SyncInvariant, PTL

\* New and SyncTenantsWithTM: once everything told has been handled, the rows agree
\* with tenant-manager, except for the tenants whose news was lost or overtaken.
THEOREM RowsFollowTheManager == Spec => []RowsFollowManager
<1>1. SyncInv => RowsFollowManager
  <2> SUFFICES ASSUME SyncInv, Drained, NEW t \in Tenant, t \notin outdated
               PROVE  Matching(rows[t], status[t])
    BY DEF RowsFollowManager
  <2>1. starter = "serving" /\ wire = <<>> /\ HasJob("watcher", "idle")
    BY DEF Drained, Serving
  <2>2. HasJob("starter", "idle")
    BY <2>1, TypeParts DEF SyncInv, AllParts, IdleOK, StarterIdle
  <2>3. Followed(t)
    BY <2>1 DEF SyncInv, Follows, Starting
  <2>4. ~Told(t) /\ ~JobFor(t) /\ ~StarterWill(t)
    BY <2>1, <2>2, NoFrames DEF JobFor, HasJob, Actor, StarterWill
  <2> QED BY <2>3, <2>4 DEF Followed
<1> QED BY <1>1, SyncInvariant, PTL

\* actualizeTenantStatus: whoever is answered leaves the row with the status that
\* tenant-manager gave, unless the row was written again.
THEOREM AnswersAreCorrected == Spec => []AnsweredIsCorrected
<1>1. SyncInv => AnsweredIsCorrected
  BY DEF SyncInv, Lookup
<1> QED BY <1>1, SyncInvariant, PTL

\* A row loses an operator's addresses in one of the ways AddressesKept names.
MayLose(t) ==
    \/ \E a \in Actor : /\ Wrote(a, t)
                        /\ (job[a].status # "active" \/ ~job[a].looked \/ a \in overtaken)
    \/ Reading("name") /\ "reader" \in overtaken
    \/ starter = "building" /\ blind

\* Which steps may take an operator's addresses from an active tenant.
LEMMA StepKeepsAddresses ==
    ASSUME SyncInv, [Next]_vars, NEW t \in Tenant,
           rows[t].sites = "operator", rows'[t].sites # "operator"
    PROVE  MayLose(t)
<1>1. TypeOK /\ Calm /\ Built /\ Jobs /\ Lookup
  BY DEF SyncInv
<1>2. ~UNCHANGED rows
  OBVIOUS
<1>3. ASSUME NEW u \in Tenant, BuildTenant(u) PROVE MayLose(t)
  BY <1>1, <1>3 DEF BuildTenant, Built, MayLose
<1>4. ASSUME NEW a \in Actor, WriteRow(a) PROVE MayLose(t)
  <2>1. /\ job[a].tenant \in Tenant /\ rows'[job[a].tenant] = Stored(job[a].tenant, job[a].row)
        /\ Stored(job[a].tenant, job[a].row).sites = job[a].row.sites
        /\ \A u \in Tenant : u # job[a].tenant => rows'[u] = rows[u]
    BY <1>1, <1>4, WriteRowDoes
  <2>2. HasJob(a, "write") /\ job[a].tenant = t
    BY <1>4, <2>1 DEF WriteRow
  <2>3. Wrote(a, t)
    BY <2>1, <2>2 DEF Wrote
  <2>4. Writing(a) /\ job[a].row.sites # "operator"
    BY <1>1, <2>1, <2>2 DEF Jobs
  <2>5. job[a].status # "active" \/ ~job[a].looked \/ a \in overtaken
    BY <2>2, <2>4 DEF Writing
  <2> QED BY <2>3, <2>5 DEF MayLose
<1>5. CASE ChangeTenantStatus
  <2>1. IsRow(reader.tenant)
    BY <1>2, <1>5 DEF ChangeTenantStatus
  <2> QED BY <1>1, <1>5, <2>1, ChangeStatusDoes
<1>6. CASE UpsertServiceName
  <2>1. /\ \A u \in Tenant : u # reader.tenant => rows'[u] = rows[u]
        /\ rows'[reader.tenant].sites = reader.row.sites
    BY <1>1, <1>6, ServiceNameDoes
  <2>2. reader.pc = "name"
    BY <1>6 DEF UpsertServiceName, Reading
  <2>3. "reader" \notin overtaken => rows[reader.tenant].sites = reader.row.sites
    BY <1>1, <2>2 DEF Lookup
  <2> QED BY <2>1, <2>2, <2>3 DEF MayLose, Reading
<1>7. ASSUME NEW u \in Tenant, UpsertByOperator(u) PROVE MayLose(t)
  BY <1>1, <1>7, OperatorDoes
<1>8. ASSUME NEW u \in Tenant, PurgeTenant(u) PROVE MayLose(t)
  BY <1>1, <1>8, PurgeDoes
<1>9. \/ ChangeTenantStatus \/ UpsertServiceName \/ \E a \in Actor : WriteRow(a)
      \/ \E u \in Tenant : BuildTenant(u) \/ UpsertByOperator(u) \/ PurgeTenant(u)
  BY <1>2 DEF Next, Start, Build, FindInitInformation, FindInitFails, BuildAll, SetInitInformation,
     BuildPanics, Load, ListTenants, ListFails, FindAll, FindAllFails, Serve, UpsertListed,
     DeleteAbsent, Work, FindRow, FindRowFails, WriteRowFails, Watch, SyncTenantsWithTM, Read,
     ReadRow, Answer, ReaderFails, Environment, Crash, Subscribe, Disconnect, ChangeTenant,
     GetTenantByExternalId, vars, tables, Actor
<1> QED BY <1>3, <1>4, <1>5, <1>6, <1>7, <1>8, <1>9

\* upsertTenantFromTM: an active tenant's row loses the addresses an operator gave it
\* only through a failed lookup, a write in between, or a blind rebuild.
THEOREM AddressesAreKept == Spec => AddressesKept
<1>1. SyncInv /\ [Next]_vars =>
        [\A t \in Tenant :
            rows[t].sites = "operator" /\ rows'[t].sites # "operator" =>
               \/ \E a \in Actor : /\ Wrote(a, t)
                                  /\ (job[a].status # "active" \/ ~job[a].looked \/ a \in overtaken)
               \/ Reading("name") /\ "reader" \in overtaken
               \/ starter = "building" /\ blind]_vars
  BY StepKeepsAddresses DEF MayLose
<1> QED BY <1>1, SyncInvariant, PTL DEF Spec, AddressesKept
=============================================================================
