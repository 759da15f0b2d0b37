---------------------------- MODULE TenantSync -----------------------------
(***************************************************************************)
(* A satellite of a composite: its table follows the tenants of the        *)
(* baseline's tenant-manager.  At start New builds rows from the routes of *)
(* the cluster unless that was done before, then upserts every tenant that *)
(* tenant-manager lists and deletes the others (the starter).  At the same *)
(* time events arrive on the websocket (the watcher), and once the service *)
(* answers requests a lookup by external id may correct the status of the  *)
(* tenant it asks about (the reader).  All three read a row, ask           *)
(* tenant-manager and write the row back without a lock.                   *)
(*                                                                         *)
(* A row keeps where its addresses come from instead of the addresses.     *)
(* What SiteSync models in detail is one step here: the purge of a row and *)
(* an upsert's SELECT with its UPDATE or INSERT.  The domain of a          *)
(* tenant does not change, so no addresses are generated for an inactive   *)
(* one.                                                                    *)
(***************************************************************************)
EXTENDS Naturals, Sequences, FiniteSets, SequencesExt

CONSTANTS
    Tenant,
    Shops,         \* tenants whose addresses include the shopping frontend's
    MaxInputs,     \* bound on tenant-manager's changes, an operator's upserts and lookups
    MaxFaults,     \* bound on failing calls and closed connections
    MaxCrashes     \* bound on crashes that no failing call causes

ASSUME BoundsAssumption ==
    /\ IsFiniteSet(Tenant) /\ Shops \subseteq Tenant
    /\ MaxInputs \in Nat /\ MaxFaults \in Nat /\ MaxCrashes \in Nat

VARIABLES
    status,        \* tenant-manager: the status of each tenant
    conn, wire,    \* the websocket: is it open, frames not yet taken
    rows, initialised,    \* the tables tenant_dns and inits
    routes,        \* tenants with managed routes when the service is installed
    starter,       \* where New is
    todo, listed,  \* its loop variable; the ids tenant-manager listed
    job,           \* what starter and watcher are doing to a row
    reader,        \* a lookup by external id
    owed,          \* history: routed tenants the first build still owes a row
    blind,         \* history: the table was built although it had been
    outdated,      \* history: tenants whose last news was lost or overtaken
    overtaken,     \* history: who read a row that was written since
    inputs, faults, crashes

external == <<status, inputs>>
socket == <<conn, wire>>
tables == <<rows, initialised>>
startup == <<starter, todo, listed, owed, blind>>
counters == <<faults, crashes>>
vars == <<external, socket, tables, routes, startup, job, reader, outdated, overtaken, counters>>

Actor == {"starter", "watcher"}
Status == {"none", "inactive", "active", "gone"}
Known(t) == status[t] \in {"inactive", "active"}

Row(active, removed, sites, named) ==
    [active |-> active, removed |-> removed, sites |-> sites, named |-> named]
NoRow == Row(FALSE, FALSE, "no row", FALSE)
SitesFrom == {"nothing", "bare", "default", "routes", "operator"}
IsRow(t) == rows[t] # NoRow

\* Synchronizer.Upsert gives a tenant with a shopping frontend a service name.
Stored(t, r) ==
    [r EXCEPT !.named = @ \/ (t \in Shops /\ r.sites \in {"default", "routes", "operator"})]

NoJob == [pc |-> "idle"]
Job(t, s, pc, row) == [pc |-> pc, tenant |-> t, status |-> s, row |-> row, looked |-> TRUE]
UpsertingAsActive(t, s) ==    \* a mutant of Upserting
    IF s = "active" THEN Job(t, s, "find", NoRow)
    ELSE Job(t, s, "write", Row(TRUE, FALSE, "nothing", FALSE))
Upserting(t, s) ==    \* an inactive tenant is not looked up
    IF s = "active" THEN Job(t, s, "find", NoRow)
    ELSE Job(t, s, "write", Row(FALSE, FALSE, "nothing", FALSE))
Deleting(t) == Job(t, "gone", "find", NoRow)
NoReader == [pc |-> "idle"]

Starting == {"init", "building", "marking", "listing"}
Serving == starter = "serving"

-----------------------------------------------------------------------------
Init ==
    /\ status \in [Tenant -> {"none", "inactive", "active"}]
    /\ conn = FALSE /\ wire = <<>>
    /\ rows = [t \in Tenant |-> NoRow] /\ initialised = FALSE
    /\ routes \in SUBSET Tenant
    /\ starter = "init" /\ todo = {} /\ listed = {}
    /\ job = [a \in Actor |-> NoJob] /\ reader = NoReader
    /\ owed = routes /\ blind = FALSE
    /\ outdated = {} /\ overtaken = {}
    /\ inputs = 0 /\ faults = 0 /\ crashes = 0

Failing == faults < MaxFaults /\ faults' = faults + 1 /\ UNCHANGED crashes

\* Nothing that was running is there after a restart; the tables are.
Restart ==
    /\ starter' = "init" /\ todo' = {} /\ listed' = {}
    /\ job' = [a \in Actor |-> NoJob] /\ reader' = NoReader
    /\ conn' = FALSE /\ wire' = <<>> /\ outdated' = {}
    /\ overtaken' = {}
    /\ UNCHANGED <<external, routes, owed, blind>>

Crash ==
    /\ crashes < MaxCrashes /\ crashes' = crashes + 1
    /\ Restart
    /\ UNCHANGED <<tables, faults>>

-----------------------------------------------------------------------------
(* Tenant-manager and the websocket.  A change is told to an open          *)
(* subscription; a new one is told all tenants at once.                    *)

Frame(type, list) == [type |-> type, tenants |-> [i \in DOMAIN list |-> <<list[i], status[list[i]]>>]]

Successors(old) ==
    CASE old = "none"     -> {"inactive"}
      [] old = "inactive" -> {"active", "gone"}
      [] old = "active"   -> {"inactive", "gone"}
      [] old = "gone"     -> {}

\* News that nobody hears is lost, unless tenants are still to be listed.
Lost(tenants) == outdated' = IF starter \in Starting THEN outdated ELSE outdated \union tenants

ChangeTenant(t, new) ==
    /\ inputs < MaxInputs /\ inputs' = inputs + 1
    /\ new \in Successors(status[t])
    /\ status' = [status EXCEPT ![t] = new]
    /\ wire' = IF conn
               THEN Append(wire, [type |-> IF new = "gone" THEN "DELETED" ELSE "MODIFIED",
                                  tenants |-> <<<<t, new>>>>])
               ELSE wire
    /\ IF conn THEN UNCHANGED outdated ELSE Lost({t})
    /\ UNCHANGED <<conn, tables, routes, startup, job, reader, overtaken, counters>>

\* SyncTenantsWithTM is subscribed when the scheme was built; watching starts later.
Subscribe ==
    /\ ~conn /\ starter \notin {"init", "building", "marking"}
    /\ conn' = TRUE
    /\ \E list \in SetToSeqs({t \in Tenant : Known(t)}) :
          wire' = Append(wire, Frame("SUBSCRIBED", list))
    /\ UNCHANGED <<external, tables, routes, startup, job, reader, outdated, overtaken, counters>>

Disconnect ==
    /\ conn /\ Failing
    /\ conn' = FALSE /\ wire' = <<>>
    /\ Lost({t \in Tenant : \E i \in DOMAIN wire : \E j \in DOMAIN wire[i].tenants :
                               wire[i].type # "SUBSCRIBED" /\ wire[i].tenants[j][1] = t})
    /\ UNCHANGED <<external, tables, routes, startup, job, reader, overtaken>>

-----------------------------------------------------------------------------
(* buildSchemeIfRequired.                                                  *)

FindInitInformation ==
    /\ starter = "init"
    /\ \/ initialised /\ starter' = "listing" /\ todo' = {}
       \/ ~initialised /\ starter' = "building" /\ todo' = routes
    /\ UNCHANGED <<external, socket, tables, routes, listed, owed, blind, job, reader,
                   outdated, overtaken, counters>>

\* Any error of the lookup counts as a table that was not built.  Which
\* tenants have routes by then is open.
FindInitFails ==
    /\ starter = "init" /\ Failing
    /\ starter' = "building"
    /\ IF initialised THEN todo' \in SUBSET Tenant ELSE todo' = routes
    /\ blind' = (blind \/ initialised)
    /\ UNCHANGED <<external, socket, tables, routes, listed, owed, job, reader, outdated, overtaken>>

BuildTenant(t) ==
    /\ starter = "building" /\ t \in todo
    /\ \E named \in BOOLEAN :    \* tenant-manager's service name, if it answers
          rows' = [rows EXCEPT ![t] = Row(TRUE, FALSE, "routes", named)]
    /\ todo' = todo \ {t} /\ owed' = owed \ {t}
    /\ UNCHANGED <<external, socket, initialised, routes, starter, listed, blind, job, reader,
                   outdated, overtaken, counters>>

\* A mutant of BuildAll: the table counts as built while tenants are missing.
BuildSome ==
    /\ starter = "building" /\ starter' = "marking"
    /\ UNCHANGED <<external, socket, tables, routes, todo, listed, owed, blind, job, reader,
                   outdated, overtaken, counters>>

BuildAll ==
    /\ starter = "building" /\ todo = {}
    /\ starter' = "marking"
    /\ UNCHANGED <<external, socket, tables, routes, todo, listed, owed, blind, job, reader,
                   outdated, overtaken, counters>>

SetInitInformation ==
    /\ starter = "marking"
    /\ initialised' = TRUE /\ starter' = "listing"
    /\ UNCHANGED <<external, socket, rows, routes, todo, listed, owed, blind, job, reader,
                   outdated, overtaken, counters>>

\* A failing list of routes, upsert or insert makes New panic.
BuildPanics ==
    /\ starter \in {"building", "marking"}
    /\ Failing /\ Restart /\ UNCHANGED tables

-----------------------------------------------------------------------------
(* upsertTenantFromTM and DeleteTenant, as the starter and the watcher run *)
(* them: the row is read, then written.                                    *)

HasJob(a, pc) == job[a].pc = pc
Matching(r, s) ==
    IF s \in {"inactive", "active"}
    THEN r # NoRow /\ ~r.removed /\ r.active = (s = "active")
    ELSE r = NoRow \/ r.removed

\* A mutant of SitesKept: addresses are generated whatever is stored.
SitesReplaced(t) == "default"

\* An active tenant keeps its addresses, or gets generated ones for none.
SitesKept(t) == IF rows[t].sites = "nothing" THEN "default" ELSE rows[t].sites

\* A mutant of RowToWrite: a deleted tenant keeps its addresses.
RemovedWithSites(t, s) ==
    IF s = "gone" THEN [rows[t] EXCEPT !.removed = TRUE]
    ELSE Row(TRUE, FALSE, IF IsRow(t) THEN SitesKept(t) ELSE "bare", FALSE)

RowToWrite(t, s) ==
    IF s = "gone" THEN [rows[t] EXCEPT !.removed = TRUE, !.sites = "nothing"]
    ELSE Row(TRUE, FALSE, IF IsRow(t) THEN SitesKept(t) ELSE "bare", FALSE)

FindRow(a) ==
    /\ HasJob(a, "find")
    /\ LET t == job[a].tenant  s == job[a].status IN
       job' = [job EXCEPT ![a] =
                  IF s = "gone" /\ ~IsRow(t) THEN NoJob
                  ELSE Job(t, s, "write", RowToWrite(t, s))]
    /\ overtaken' = overtaken \ {a}
    /\ UNCHANGED <<external, socket, tables, routes, startup, reader, outdated, counters>>

\* A failing lookup counts as no row: a deletion is done, an active tenant
\* gets an empty default site.
FindRowFails(a) ==
    /\ HasJob(a, "find") /\ Failing
    /\ LET t == job[a].tenant  s == job[a].status IN
       /\ job' = [job EXCEPT ![a] =
                     IF s = "gone" THEN NoJob
                     ELSE [Job(t, s, "write", Row(TRUE, FALSE, "bare", FALSE))
                              EXCEPT !.looked = FALSE]]
       /\ outdated' = IF s = "gone" THEN outdated \union {t} ELSE outdated
    /\ overtaken' = overtaken \ {a}
    /\ UNCHANGED <<external, socket, tables, routes, startup, reader>>

\* Everybody else who has read a row before it is written.
Overtaken(t) == {a \in Actor : HasJob(a, "write") /\ job[a].tenant = t}
                \union {a \in {"reader"} : reader.pc \in {"status", "name", "answer"} /\ reader.tenant = t}

\* What a write means for a tenant's news: s is what the writer went by.
Told(t) == \E i \in DOMAIN wire : wire[i].type # "SUBSCRIBED" /\ wire[i].tenants[1][1] = t
Agrees(s, t) == s = status[t] \/ (s = "gone" /\ status[t] = "none")
WrittenBy(t, s) ==
    outdated' = CASE Agrees(s, t) -> outdated \ {t}
                  [] ~Agrees(s, t) /\ Told(t) -> outdated
                  [] ~Agrees(s, t) /\ ~Told(t) -> outdated \union {t}

WriteRow(a) ==
    /\ HasJob(a, "write")
    /\ LET t == job[a].tenant IN
       /\ rows' = [rows EXCEPT ![t] = Stored(t, job[a].row)]
       /\ WrittenBy(t, job[a].status)
       /\ overtaken' = (overtaken \union Overtaken(t)) \ {a}
    /\ job' = [job EXCEPT ![a] = NoJob]
    /\ UNCHANGED <<external, socket, initialised, routes, startup, reader, counters>>

\* Nobody tries again: the starter goes on with the next tenant.
WriteRowFails(a) ==
    /\ HasJob(a, "write") /\ Failing
    /\ job' = [job EXCEPT ![a] = NoJob]
    /\ outdated' = outdated \union {job[a].tenant} /\ overtaken' = overtaken \ {a}
    /\ UNCHANGED <<external, socket, tables, routes, startup, reader>>

-----------------------------------------------------------------------------
(* syncAllTenantsFromTM: one tenant after the other, then the rows that    *)
(* were not listed.                                                        *)

StarterIdle == HasJob("starter", "idle")

ListTenants ==
    /\ starter = "listing"
    /\ listed' = {t \in Tenant : Known(t)} /\ todo' = {<<t, status[t]>> : t \in listed'}
    /\ starter' = "upserting"
    /\ UNCHANGED <<external, socket, tables, routes, owed, blind, job, reader,
                   outdated, overtaken, counters>>

ListFails ==
    /\ starter = "listing" /\ Failing
    /\ UNCHANGED <<external, socket, tables, routes, startup, job, reader, outdated, overtaken>>

UpsertListed(t, s) ==
    /\ starter = "upserting" /\ StarterIdle /\ <<t, s>> \in todo
    /\ todo' = todo \ {<<t, s>>}
    /\ job' = [job EXCEPT !["starter"] = Upserting(t, s)]
    /\ UNCHANGED <<external, socket, tables, routes, starter, listed, owed, blind, reader,
                   outdated, overtaken, counters>>

FindAll ==
    /\ starter = "upserting" /\ StarterIdle /\ todo = {}
    /\ todo' = {t \in Tenant : IsRow(t)} \ listed
    /\ starter' = "deleting"
    /\ UNCHANGED <<external, socket, tables, routes, listed, owed, blind, job, reader,
                   outdated, overtaken, counters>>

\* The whole loop starts again.
FindAllFails ==
    /\ starter = "upserting" /\ StarterIdle /\ todo = {} /\ Failing
    /\ starter' = "listing"
    /\ UNCHANGED <<external, socket, tables, routes, todo, listed, owed, blind, job, reader,
                   outdated, overtaken>>

DeleteAbsent(t) ==
    /\ starter = "deleting" /\ StarterIdle /\ t \in todo
    /\ todo' = todo \ {t}
    /\ job' = [job EXCEPT !["starter"] = Deleting(t)]
    /\ UNCHANGED <<external, socket, tables, routes, starter, listed, owed, blind, reader,
                   outdated, overtaken, counters>>

Serve ==
    /\ starter = "deleting" /\ StarterIdle /\ todo = {}
    /\ starter' = "serving" /\ listed' = {}
    /\ UNCHANGED <<external, socket, tables, routes, todo, owed, blind, job, reader,
                   outdated, overtaken, counters>>

-----------------------------------------------------------------------------
(* SyncTenantsWithTM: of an event that is not a deletion only the first    *)
(* tenant is upserted.                                                     *)

Rest(frame) ==
    IF frame.type = "DELETED" /\ Len(frame.tenants) > 1
    THEN <<[frame EXCEPT !.tenants = Tail(@)]>> ELSE <<>>

SyncTenantsWithTM ==
    /\ wire # <<>> /\ HasJob("watcher", "idle")
    /\ wire' = Rest(Head(wire)) \o Tail(wire)
    /\ LET frame == Head(wire) IN
       IF frame.tenants = <<>> THEN UNCHANGED job
       ELSE LET t == frame.tenants[1][1]  s == frame.tenants[1][2] IN
            job' = [job EXCEPT !["watcher"] =
                       IF frame.type = "DELETED" THEN Deleting(t) ELSE Upserting(t, s)]
    /\ UNCHANGED <<external, conn, tables, routes, startup, reader, outdated, overtaken, counters>>

-----------------------------------------------------------------------------
(* GetServiceName (and, but for the name, every lookup by external id):    *)
(* tenant-manager's answer, the row, ChangeTenantStatus when they differ,  *)
(* and the row as first read written back with a name.                     *)

Reading(pc) == reader.pc = pc
Answering == [reader EXCEPT !.pc = "answer", !.row = NoRow]

GetTenantByExternalId(t) ==
    /\ Serving /\ Reading("idle") /\ Known(t)
    /\ inputs < MaxInputs /\ inputs' = inputs + 1
    /\ reader' = [pc |-> "row", tenant |-> t, status |-> status[t], row |-> NoRow]
    /\ UNCHANGED <<status, socket, tables, routes, startup, job, outdated, overtaken, counters>>

\* A mutant of Corrected: the lookup trusts the row.
Uncorrected(r, s) == FALSE

Corrected(r, s) == r.active # (s = "active")

ReadRow ==
    /\ Reading("row")
    /\ LET r == rows[reader.tenant]  active == reader.status = "active" IN
       reader' = IF r = NoRow THEN NoReader
                 ELSE IF r.named /\ ~Corrected(r, reader.status) THEN Answering
                 ELSE [reader EXCEPT !.row = [r EXCEPT !.active = active],
                          !.pc = IF Corrected(r, reader.status) THEN "status" ELSE "name"]
    /\ overtaken' = overtaken \ {"reader"}
    /\ UNCHANGED <<external, socket, tables, routes, startup, job, outdated, counters>>

\* Another FindByTenantId, whose row is upserted with the status.
ChangeTenantStatus ==
    /\ Reading("status")
    /\ LET t == reader.tenant IN
       IF IsRow(t)
       THEN /\ rows' = [rows EXCEPT ![t] = Stored(t, [@ EXCEPT !.active = (reader.status = "active")])]
            /\ reader' = IF reader.row.named THEN Answering ELSE [reader EXCEPT !.pc = "name"]
            /\ outdated' = IF reader.status = status[t] THEN outdated ELSE outdated \union {t}
            /\ overtaken' = overtaken \union (Overtaken(t) \ {"reader"})
       ELSE reader' = NoReader /\ UNCHANGED <<rows, outdated, overtaken>>
    /\ UNCHANGED <<external, socket, initialised, routes, startup, job, counters>>

\* Whoever wrote the row since it was read is undone.
UpsertServiceName ==
    /\ Reading("name")
    /\ LET t == reader.tenant IN
       /\ rows' = [rows EXCEPT ![t] = [reader.row EXCEPT !.named = TRUE]]
       /\ outdated' = IF reader.status = status[t] /\ "reader" \notin overtaken
                      THEN outdated ELSE outdated \union {t}
       /\ overtaken' = (overtaken \union Overtaken(t)) \ {"reader"}
    /\ reader' = Answering
    /\ UNCHANGED <<external, socket, initialised, routes, startup, job, counters>>

Answer ==
    /\ Reading("answer") /\ reader' = NoReader /\ overtaken' = overtaken \ {"reader"}
    /\ UNCHANGED <<external, socket, tables, routes, startup, job, outdated, counters>>

ReaderFails ==
    /\ reader.pc \in {"row", "status", "name"} /\ Failing
    /\ reader' = NoReader /\ overtaken' = overtaken \ {"reader"}
    /\ UNCHANGED <<external, socket, tables, routes, startup, job, outdated>>

-----------------------------------------------------------------------------
(* What else writes the tables: an operator's upsert of a tenant as shown, *)
(* and the pass of SiteSync, here over one tenant.                         *)

UpsertByOperator(t) ==
    /\ Serving /\ inputs < MaxInputs /\ inputs' = inputs + 1
    /\ IsRow(t) /\ ~rows[t].removed
    /\ rows' = [rows EXCEPT ![t] = Stored(t, [@ EXCEPT !.sites = "operator"])]
    /\ overtaken' = overtaken \union Overtaken(t)
    /\ UNCHANGED <<status, socket, initialised, routes, startup, job, reader, outdated, counters>>

PurgeTenant(t) ==
    /\ starter \notin {"init", "building", "marking"}
    /\ rows[t].removed
    /\ rows' = [rows EXCEPT ![t] = NoRow] /\ overtaken' = overtaken \union Overtaken(t)
    /\ UNCHANGED <<external, socket, initialised, routes, startup, job, reader, outdated, counters>>

-----------------------------------------------------------------------------
Build == \/ FindInitInformation \/ FindInitFails \/ BuildAll \/ SetInitInformation \/ BuildPanics
         \/ \E t \in Tenant : BuildTenant(t)

Load == \/ ListTenants \/ ListFails \/ FindAll \/ FindAllFails \/ Serve
        \/ \E t \in Tenant, s \in {"inactive", "active"} : UpsertListed(t, s)
        \/ \E t \in Tenant : DeleteAbsent(t)

Work(a) == FindRow(a) \/ FindRowFails(a) \/ WriteRow(a) \/ WriteRowFails(a)

Start == Build \/ Load \/ Work("starter")
Watch == SyncTenantsWithTM \/ Work("watcher")
Read == ReadRow \/ ChangeTenantStatus \/ UpsertServiceName \/ Answer \/ ReaderFails

Environment ==
    \/ Crash \/ Subscribe \/ Disconnect
    \/ \E t \in Tenant : \/ \E new \in Status : ChangeTenant(t, new)
                          \/ GetTenantByExternalId(t) \/ UpsertByOperator(t) \/ PurgeTenant(t)

Next == Start \/ Watch \/ Read \/ Environment

Spec == Init /\ [][Next]_vars

-----------------------------------------------------------------------------
RowType == [active : BOOLEAN, removed : BOOLEAN, sites : SitesFrom, named : BOOLEAN]
JobType == [pc : {"find", "write"}, tenant : Tenant, status : {"inactive", "active", "gone"},
            row : RowType \union {NoRow}, looked : BOOLEAN]
ReaderType == [pc : {"row", "status", "name", "answer"}, tenant : Tenant,
               status : {"inactive", "active"}, row : RowType \union {NoRow}]
FrameType == [type : {"SUBSCRIBED", "MODIFIED", "DELETED"}, tenants : Seq(Tenant \X Status)]

\* Tables, frames, jobs and locals keep their types, and a removed row has no
\* addresses.
TypeOK ==
    /\ status \in [Tenant -> Status] /\ conn \in BOOLEAN /\ wire \in Seq(FrameType)
    /\ rows \in [Tenant -> RowType \union {NoRow}] /\ initialised \in BOOLEAN
    /\ \A t \in Tenant : rows[t].removed => rows[t].sites = "nothing"
    /\ starter \in Starting \union {"upserting", "deleting", "serving"}
    /\ todo \subseteq (IF starter = "upserting" THEN Tenant \X {"inactive", "active"} ELSE Tenant)
    /\ listed \subseteq Tenant /\ owed \subseteq routes /\ routes \subseteq Tenant
    /\ blind \in BOOLEAN /\ outdated \subseteq Tenant /\ overtaken \subseteq Actor \union {"reader"}
    /\ job \in [Actor -> JobType \union {NoJob}] /\ reader \in ReaderType \union {NoReader}
    /\ (starter \notin {"upserting", "deleting"} => StarterIdle)
    /\ inputs \in Nat /\ faults \in Nat /\ crashes \in Nat

\* buildSchemeIfRequired: once the table counts as built, every tenant that
\* had routes when the service was installed has had its row, whatever
\* failed or crashed on the way.
NoTenantIsOwed == initialised => owed = {}

Drained == Serving /\ wire = <<>> /\ HasJob("watcher", "idle") /\ Reading("idle")

\* New and SyncTenantsWithTM: when the service serves and has handled all
\* events, its rows agree with tenant-manager, except for tenants whose last
\* change was told to nobody, whose upsert or deletion failed, or was done
\* from a status that had changed meanwhile.
RowsFollowManager ==
    Drained => \A t \in Tenant \ outdated : Matching(rows[t], status[t])

Wrote(a, t) == HasJob(a, "write") /\ job[a].tenant = t /\ rows'[t] = Stored(t, job[a].row)

\* upsertTenantFromTM: the addresses an operator gave an active tenant stay
\* through events and restarts, unless the lookup of the row failed,
\* another write came between a lookup and its write, or the scheme was
\* built again because the lookup of the flag failed.
AddressesKept ==
    [][\A t \in Tenant :
         rows[t].sites = "operator" /\ rows'[t].sites # "operator" =>
            \/ \E a \in Actor : /\ Wrote(a, t)
                               /\ (job[a].status # "active" \/ ~job[a].looked \/ a \in overtaken)
            \/ Reading("name") /\ "reader" \in overtaken
            \/ starter = "building" /\ blind]_vars

\* actualizeTenantStatus: whoever is answered leaves the row with the status
\* tenant-manager gave, even when the satellite was never told of it, unless
\* the row was written again meanwhile.
AnsweredIsCorrected ==
    Reading("answer") /\ "reader" \notin overtaken =>
        rows[reader.tenant].active = (reader.status = "active")

=============================================================================
