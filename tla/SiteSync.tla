------------------------------ MODULE SiteSync ------------------------------
(***************************************************************************)
(* The synchronizer: HTTP requests change the rows of table tenant_dns and *)
(* post a signal on a bounded bus; one goroutine takes signals and brings  *)
(* the cluster's routes in line with a snapshot of the table, one database *)
(* or cluster call at a time.  Requests, the pass, the auto-sync timer,    *)
(* failing calls and crashes interleave between any two calls.             *)
(*                                                                         *)
(* Abstractions.  A row keeps what the pass and the requests branch on: is *)
(* the tenant active, is it marked removed, which addresses does its       *)
(* scheme hold (the sites and services they hang under are left out).      *)
(* Home[t] is the namespace resolveNamespaceForService finds for the       *)
(* services of t.  A route is <<tenant it is annotated with, host>> and    *)
(* lives in that tenant's home; GENERAL routes are never touched and are   *)
(* left out.  The route cache answers with the cluster's present routes.   *)
(***************************************************************************)
EXTENDS Naturals, FiniteSets

CONSTANTS
    Tenant,       \* tenant ids, the primary key of tenant_dns
    Address,      \* addresses as stored in a scheme, upper case kept
    Lower,        \* the lower-case form of each address
    Namespace,    \* cluster namespaces
    Master,       \* the namespace the service itself runs in
    Home,         \* where the services of each tenant live
    Schemes,      \* the bodies PUT may carry for each tenant
    Request,      \* slots for concurrent HTTP requests
    NoRow,        \* "no row": the tenant is not in the table
    NoTenant,     \* the tenant of an idle request slot
    BusCap,       \* capacity of the channel, 16 in the code
    MaxRequests,  \* bound on the requests that change a row
    MaxFaults,    \* bound on failing calls and outside interference
    MaxCrashes    \* bound on crashes of the service

Row == [active : BOOLEAN, removed : BOOLEAN, hosts : SUBSET Address]
Body == [active : BOOLEAN, hosts : SUBSET Address]

ASSUME ConstantsAssumption ==
    /\ Lower \in [Address -> Address]
    /\ \A a \in Address : Lower[Lower[a]] = Lower[a]
    /\ Master \in Namespace
    /\ Home \in [Tenant -> Namespace]
    /\ Schemes \in [Tenant -> SUBSET Body]
    /\ NoRow \notin Row
    /\ NoTenant \notin Tenant
    /\ BusCap \in Nat \ {0}
    /\ MaxRequests \in Nat /\ MaxFaults \in Nat /\ MaxCrashes \in Nat

VARIABLES
    db,        \* table tenant_dns
    routes,    \* managed routes in the cluster
    bus,       \* signals waiting in Synchronizer.bus
    req,       \* the HTTP requests in flight
    pc,        \* where processSynchronization is
    snap,      \* its allSettings
    doomed,    \* routes it has still to delete
    purging,   \* tenants it has still to remove from the table
    todo,      \* <<tenant, address>> it has still to look at for creation
    changed,   \* its changedTenants, whose admins get a mail
    dirty,     \* history: rows upserted since the snapshot was read
    forgot,    \* history: rows dropped on a 404 of tenant-manager since then
    missed,    \* history: a pass was given up or the service crashed
    clean,     \* history: nothing failed since the snapshot was read
    requests, faults, crashes    \* how much of each bound is used

table == <<db, routes, bus>>
pass == <<pc, snap, doomed, purging, todo, changed>>
history == <<dirty, forgot, missed, clean>>
bounds == <<requests, faults, crashes>>
vars == <<table, req, pass, history, bounds>>

Route == Tenant \X Address
Pair == Tenant \X Address

StatusOps == {"activate", "deactivate"}
DeleteOps == {"deleteRoutes", "deleteTenant"}
Ops == {"put"} \cup StatusOps \cup DeleteOps

IdleRequest == [pc |-> "idle", op |-> "none", tenant |-> NoTenant, data |-> NoRow]
Empty == [t \in Tenant |-> NoRow]

-----------------------------------------------------------------------------
(* What a snapshot or the table d says. *)

Live(d, t, a) == d[t] # NoRow /\ d[t].active /\ a \in d[t].hosts

HostServed(d, h) == \E t \in Tenant, a \in Address : Live(d, t, a) /\ Lower[a] = h

Scanned(d) == {Master} \cup {Home[t] : t \in {u \in Tenant : d[u] # NoRow}}

HostPresent(ns, a) == \E r \in routes : Home[r[1]] = ns /\ r[2] = a

Failing == faults < MaxFaults /\ faults' = faults + 1

(* Mutation: the send ignores the capacity. *)
SignalUnbounded == bus' = bus + 1

(* A non-blocking send: a full bus drops the signal. *)
Signal == bus' = IF bus < BusCap THEN bus + 1 ELSE bus

-----------------------------------------------------------------------------
Init ==
    /\ db = Empty
    /\ routes = {}
    /\ bus = 0
    /\ req = [p \in Request |-> IdleRequest]
    /\ pc = "wait" /\ snap = Empty
    /\ doomed = {} /\ purging = {} /\ todo = {} /\ changed = {}
    /\ dirty = {} /\ forgot = {} /\ missed = FALSE /\ clean = TRUE
    /\ requests = 0 /\ faults = 0 /\ crashes = 0

-----------------------------------------------------------------------------
(* Requests.  Each call a handler makes to the database is a step.         *)

Goto(p, label) == req' = [req EXCEPT ![p].pc = label]
Finish(p) == req' = [req EXCEPT ![p] = IdleRequest]

Begin(p, t, op, label, data) ==
    /\ req[p].pc = "idle"
    /\ requests < MaxRequests
    /\ requests' = requests + 1
    /\ req' = [req EXCEPT ![p] = [pc |-> label, op |-> op, tenant |-> t, data |-> data]]
    /\ UNCHANGED <<table, pass, history, faults, crashes>>

(* Removed is not part of the JSON body, so a PUT always writes FALSE. *)
Put(p, t) ==
    \E b \in Schemes[t] :
        Begin(p, t, "put", "select",
              [active |-> b.active, removed |-> FALSE, hosts |-> b.hosts])

Ask(p, t, op) == Begin(p, t, op, "find", NoRow)

(* Mutation: deleting a tenant marks the row but keeps its sites. *)
EditedKeepingSites(op, row) ==
    CASE op = "activate"     -> [row EXCEPT !.active = TRUE]
      [] op = "deactivate"   -> [row EXCEPT !.active = FALSE]
      [] op = "deleteRoutes" -> [row EXCEPT !.hosts = {}]
      [] op = "deleteTenant" -> [row EXCEPT !.removed = TRUE]

Edited(op, row) ==
    CASE op = "activate"     -> [row EXCEPT !.active = TRUE]
      [] op = "deactivate"   -> [row EXCEPT !.active = FALSE]
      [] op = "deleteRoutes" -> [row EXCEPT !.hosts = {}]
      [] op = "deleteTenant" -> [row EXCEPT !.hosts = {}, !.removed = TRUE]

(* FindByTenantId returns TenantNotFoundError: deletion answers success,   *)
(* a change of status answers the error.                                   *)
NotFound(p) == IF req[p].op \in DeleteOps THEN Goto(p, "done") ELSE Finish(p)

Find(p) ==
    /\ req[p].pc = "find"
    /\ LET row == db[req[p].tenant] IN
           \/ row = NoRow /\ NotFound(p)
           \/ /\ row # NoRow
              /\ req' = [req EXCEPT ![p].pc = "select",
                                    ![p].data = Edited(req[p].op, row)]
    /\ UNCHANGED <<table, pass, history, bounds>>

(* Every other database error comes back as TenantNotFoundError as well. *)
FindFails(p) ==
    /\ req[p].pc = "find"
    /\ Failing
    /\ NotFound(p)
    /\ UNCHANGED <<table, pass, history, requests, crashes>>

(* dao.Upsert looks for the row and then updates or inserts it, in calls   *)
(* of their own and without a transaction.                                 *)
Select(p) ==
    /\ req[p].pc = "select"
    /\ Goto(p, IF db[req[p].tenant] = NoRow THEN "insert" ELSE "update")
    /\ UNCHANGED <<table, pass, history, bounds>>

Write(p) ==
    LET t == req[p].tenant IN
    /\ db' = [db EXCEPT ![t] = req[p].data]
    /\ dirty' = dirty \cup {t}
    /\ Goto(p, "sync")

(* An UPDATE that matches no row is not an error. *)
Update(p) ==
    /\ req[p].pc = "update"
    /\ \/ db[req[p].tenant] # NoRow /\ Write(p)
       \/ db[req[p].tenant] = NoRow /\ Goto(p, "sync") /\ UNCHANGED <<db, dirty>>
    /\ UNCHANGED <<routes, bus, pass, forgot, missed, clean, bounds>>

(* An INSERT over a row another request inserted fails on the primary key. *)
Insert(p) ==
    /\ req[p].pc = "insert"
    /\ \/ db[req[p].tenant] = NoRow /\ Write(p)
       \/ db[req[p].tenant] # NoRow /\ Finish(p) /\ UNCHANGED <<db, dirty>>
    /\ UNCHANGED <<routes, bus, pass, forgot, missed, clean, bounds>>

UpsertFails(p) ==
    /\ req[p].pc \in {"select", "update", "insert"}
    /\ Failing
    /\ Finish(p)
    /\ UNCHANGED <<table, pass, history, requests, crashes>>

Announce(p) ==
    /\ req[p].pc = "sync"
    /\ Signal
    /\ Goto(p, "done")
    /\ UNCHANGED <<db, routes, pass, history, bounds>>

Answer(p) ==
    /\ req[p].pc = "done"
    /\ Finish(p)
    /\ UNCHANGED <<table, pass, history, bounds>>

(* RegisterTenant only inserts, an inactive row without routes, and does   *)
(* not signal; over an existing row it fails.                              *)
RegisterTenant(t) ==
    /\ requests < MaxRequests
    /\ requests' = requests + 1
    /\ db[t] = NoRow
    /\ db' = [db EXCEPT ![t] = [active |-> FALSE, removed |-> FALSE, hosts |-> {}]]
    /\ UNCHANGED <<routes, bus, req, pass, history, faults, crashes>>

(* tenant-manager answered 404 for the tenant: the row is dropped at once, *)
(* without a signal.                                                       *)
ForgetTenant(t) ==
    /\ requests < MaxRequests
    /\ requests' = requests + 1
    /\ db[t] # NoRow
    /\ db' = [db EXCEPT ![t] = NoRow]
    /\ forgot' = forgot \cup {t}
    /\ UNCHANGED <<routes, bus, req, pass, dirty, missed, clean, faults, crashes>>

(* The auto-sync timer, and POST /sync. *)
AutoSync ==
    /\ Signal
    /\ UNCHANGED <<db, routes, req, pass, history, bounds>>

-----------------------------------------------------------------------------
(* The pass. *)

Leave == 
    /\ pc' = "wait" /\ snap' = Empty
    /\ doomed' = {} /\ purging' = {} /\ todo' = {} /\ changed' = {}

Receive ==
    /\ pc = "wait"
    /\ bus > 0
    /\ bus' = bus - 1
    /\ pc' = "load"
    /\ UNCHANGED <<db, routes, req, snap, doomed, purging, todo, changed, history, bounds>>

FindAll ==
    /\ pc = "load"
    /\ snap' = db
    /\ pc' = "list"
    /\ dirty' = {} /\ forgot' = {} /\ clean' = TRUE
    /\ UNCHANGED <<table, req, doomed, purging, todo, changed, missed, bounds>>

(* Mutation: an error ends the goroutine instead of the pass. *)
GiveUpForGood ==
    /\ pc \in {"load", "list"}
    /\ Failing
    /\ pc' = "stopped" /\ missed' = TRUE
    /\ UNCHANGED <<table, req, snap, doomed, purging, todo, changed, dirty, forgot, clean,
                   requests, crashes>>

(* Without the table or the route list the pass returns: its signal is     *)
(* used up and the next one has to come from elsewhere.                    *)
GiveUp ==
    /\ pc \in {"load", "list"}
    /\ Failing
    /\ Leave
    /\ missed' = TRUE
    /\ UNCHANGED <<table, req, dirty, forgot, clean, requests, crashes>>

(* Mutation: a route is judged by the tenant it is annotated with. *)
GetRoutesByAnnotation ==
    /\ pc = "list"
    /\ doomed' = {r \in routes : Home[r[1]] \in Scanned(snap) /\ ~Live(snap, r[1], r[2])}
    /\ purging' = {t \in Tenant : snap[t] # NoRow /\ snap[t].removed}
    /\ todo' = {x \in Pair : Live(snap, x[1], x[2])}
    /\ pc' = "delete"
    /\ missed' = FALSE
    /\ UNCHANGED <<table, req, snap, changed, dirty, forgot, clean, bounds>>

(* Mutation: only the namespace of the service is scanned. *)
GetMasterRoutes ==
    /\ pc = "list"
    /\ doomed' = {r \in routes : Home[r[1]] = Master /\ ~HostServed(snap, r[2])}
    /\ purging' = {t \in Tenant : snap[t] # NoRow /\ snap[t].removed}
    /\ todo' = {x \in Pair : Live(snap, x[1], x[2])}
    /\ pc' = "delete"
    /\ missed' = FALSE
    /\ UNCHANGED <<table, req, snap, changed, dirty, forgot, clean, bounds>>

GetManageableRoutes ==
    /\ pc = "list"
    /\ doomed' = {r \in routes : Home[r[1]] \in Scanned(snap) /\ ~HostServed(snap, r[2])}
    /\ purging' = {t \in Tenant : snap[t] # NoRow /\ snap[t].removed}
    /\ todo' = {x \in Pair : Live(snap, x[1], x[2])}
    /\ pc' = "delete"
    /\ missed' = FALSE
    /\ UNCHANGED <<table, req, snap, changed, dirty, forgot, clean, bounds>>

DeleteRoute(r) ==
    /\ pc = "delete"
    /\ r \in doomed
    /\ doomed' = doomed \ {r}
    /\ routes' = routes \ {r}
    /\ UNCHANGED <<db, bus, req, pc, snap, purging, todo, changed, history, bounds>>

DeleteRouteFails(r) ==
    /\ pc = "delete"
    /\ r \in doomed
    /\ Failing
    /\ doomed' = doomed \ {r}
    /\ clean' = FALSE
    /\ UNCHANGED <<table, req, pc, snap, purging, todo, changed, dirty, forgot, missed,
                   requests, crashes>>

DeletedAll ==
    /\ pc = "delete" /\ doomed = {}
    /\ pc' = "purge"
    /\ UNCHANGED <<table, req, snap, doomed, purging, todo, changed, history, bounds>>

PurgeTenant(t) ==
    /\ pc = "purge"
    /\ t \in purging
    /\ purging' = purging \ {t}
    /\ db' = [db EXCEPT ![t] = NoRow]
    /\ UNCHANGED <<routes, bus, req, pc, snap, doomed, todo, changed, history, bounds>>

PurgeFails(t) ==
    /\ pc = "purge"
    /\ t \in purging
    /\ Failing
    /\ purging' = purging \ {t}
    /\ UNCHANGED <<table, req, pc, snap, doomed, todo, changed, history, requests, crashes>>

PurgedAll ==
    /\ pc = "purge" /\ purging = {}
    /\ pc' = "create"
    /\ UNCHANGED <<table, req, snap, doomed, purging, todo, changed, history, bounds>>

(* Mutation: only the tenant's own routes are looked at. *)
CreateOwnRoute(t, a) ==
    /\ pc = "create"
    /\ <<t, a>> \in todo
    /\ todo' = todo \ {<<t, a>>}
    /\ routes' = routes \cup {<<t, Lower[a]>>}
    /\ changed' = IF <<t, a>> \in routes THEN changed ELSE changed \cup {t}
    /\ UNCHANGED <<db, bus, req, pc, snap, doomed, purging, history, bounds>>

(* The lookup in the cache and the creation that follows.  The cluster     *)
(* refuses a second route of the same name, which the set absorbs.         *)
CreateRoute(t, a) ==
    /\ pc = "create"
    /\ <<t, a>> \in todo
    /\ todo' = todo \ {<<t, a>>}
    /\ \/ HostPresent(Home[t], a) /\ UNCHANGED <<routes, changed>>
       \/ /\ ~HostPresent(Home[t], a)
          /\ routes' = routes \cup {<<t, Lower[a]>>}
          /\ changed' = changed \cup {t}
    /\ UNCHANGED <<db, bus, req, pc, snap, doomed, purging, history, bounds>>

(* The service is not found, its routes cannot be read, or the creation    *)
(* is refused; the last case still counts as a change of the tenant.       *)
CreateRouteFails(t, a) ==
    /\ pc = "create"
    /\ <<t, a>> \in todo
    /\ Failing
    /\ todo' = todo \ {<<t, a>>}
    /\ \/ UNCHANGED changed
       \/ ~HostPresent(Home[t], a) /\ changed' = changed \cup {t}
    /\ clean' = FALSE
    /\ UNCHANGED <<table, req, pc, snap, doomed, purging, dirty, forgot, missed, requests, crashes>>

CreatedAll ==
    /\ pc = "create" /\ todo = {}
    /\ pc' = "notify"
    /\ UNCHANGED <<table, req, snap, doomed, purging, todo, changed, history, bounds>>

(* Mutation: the pass empties the bus when it is through. *)
NotifyAndDrain ==
    /\ pc = "notify"
    /\ Leave
    /\ bus' = 0
    /\ UNCHANGED <<db, routes, req, history, bounds>>

Notify ==
    /\ pc = "notify"
    /\ Leave
    /\ UNCHANGED <<table, req, history, bounds>>

-----------------------------------------------------------------------------
(* A managed route disappears from the cluster by other hands. *)
RouteLost(r) ==
    /\ r \in routes
    /\ Failing
    /\ routes' = routes \ {r}
    /\ clean' = FALSE
    /\ UNCHANGED <<db, bus, req, pass, dirty, forgot, missed, requests, crashes>>

(* The process dies: the bus, the pass and the requests are gone, the      *)
(* table and the cluster stay.                                             *)
Crash ==
    /\ crashes < MaxCrashes
    /\ crashes' = crashes + 1
    /\ bus' = 0
    /\ req' = [p \in Request |-> IdleRequest]
    /\ Leave
    /\ missed' = TRUE
    /\ UNCHANGED <<db, routes, dirty, forgot, clean, requests, faults>>

-----------------------------------------------------------------------------
StartRequest ==
    \/ \E p \in Request, t \in Tenant :
           Put(p, t) \/ \E op \in StatusOps \cup DeleteOps : Ask(p, t, op)
    \/ \E t \in Tenant : RegisterTenant(t) \/ ForgetTenant(t)

RequestStep(p) ==
    Find(p) \/ Select(p) \/ Update(p) \/ Insert(p) \/ Announce(p) \/ Answer(p)

RequestFails(p) == FindFails(p) \/ UpsertFails(p)

PassStep ==
    \/ Receive \/ FindAll \/ GetManageableRoutes \/ DeletedAll \/ PurgedAll
    \/ CreatedAll \/ Notify
    \/ \E r \in Route : DeleteRoute(r)
    \/ \E t \in Tenant : PurgeTenant(t)
    \/ \E x \in Pair : CreateRoute(x[1], x[2])

PassFails ==
    \/ GiveUp
    \/ \E r \in Route : DeleteRouteFails(r)
    \/ \E t \in Tenant : PurgeFails(t)
    \/ \E x \in Pair : CreateRouteFails(x[1], x[2])

Next ==
    \/ StartRequest
    \/ \E p \in Request : RequestStep(p) \/ RequestFails(p)
    \/ AutoSync
    \/ PassStep
    \/ PassFails
    \/ \E r \in Route : RouteLost(r)
    \/ Crash

Spec == Init /\ [][Next]_vars

(* A goroutine that can run does run: each request, the pass, and the      *)
(* timer, which time.Tick fires forever.  Nothing forces a request to come.*)
Fairness ==
    /\ \A p \in Request : WF_vars(RequestStep(p))
    /\ WF_vars(PassStep)
    /\ WF_vars(AutoSync)

FairSpec == Spec /\ Fairness
-----------------------------------------------------------------------------
(* Properties. *)

(* The types of the table, the cluster, the bus, the requests and the      *)
(* locals of the pass.                                                     *)
TypeOK ==
    /\ db \in [Tenant -> Row \cup {NoRow}]
    /\ routes \subseteq Route
    /\ bus \in 0..BusCap
    /\ req \in [Request -> [pc : {"idle", "find", "select", "update", "insert", "sync", "done"},
                            op : Ops \cup {"none"},
                            tenant : Tenant \cup {NoTenant},
                            data : Row \cup {NoRow}]]
    /\ pc \in {"wait", "load", "list", "delete", "purge", "create", "notify"}
    /\ snap \in [Tenant -> Row \cup {NoRow}]
    /\ doomed \subseteq Route
    /\ purging \subseteq Tenant
    /\ todo \subseteq Pair
    /\ changed \subseteq Tenant
    /\ dirty \subseteq Tenant /\ forgot \subseteq Tenant
    /\ missed \in BOOLEAN /\ clean \in BOOLEAN
    /\ requests \in Nat /\ faults \in Nat /\ crashes \in Nat

AboutToAnnounce(t) == \E p \in Request : req[p].pc = "sync" /\ req[p].tenant = t

(* A row upserted since the last snapshot is never forgotten: its request  *)
(* has still to signal, a signal waits on the bus (another one's, when the *)
(* bus was full and this one was dropped), the pass is about to read the   *)
(* table, or the last pass was given up or died and the timer must help.   *)
NoLostSync ==
    \A t \in dirty :
        \/ AboutToAnnounce(t)
        \/ bus > 0
        \/ pc = "load"
        \/ pc = "wait" /\ missed

(* A tenant marked removed has no addresses left, whatever is done to it   *)
(* between the marking and the purge, so the purge takes no routes' rows.  *)
RemovedRowsAreEmpty ==
    \A t \in Tenant : db[t] # NoRow /\ db[t].removed => db[t].hosts = {}

(* A namespace never holds two routes for one host, also when two tenants  *)
(* claim it: the pass looks the host up afresh before each creation.       *)
HostOncePerNamespace ==
    \A r, s \in routes : Home[r[1]] = Home[s[1]] /\ r[2] = s[2] => r = s

(* A pass in which no call failed leaves the namespaces it scanned exactly *)
(* as its snapshot asks: no route of a host nobody active has, and every   *)
(* address of an active tenant routed in that tenant's namespace.          *)
PassReconciles ==
    pc = "notify" /\ clean =>
        /\ \A r \in routes : Home[r[1]] \in Scanned(snap) => HostServed(snap, r[2])
        /\ \A t \in Tenant, a \in Address :
               Live(snap, t, a) => HostPresent(Home[t], Lower[a])

(* The pass works on a snapshot and never looks again, yet what it does to *)
(* a route is what the table asks at that moment, except for tenants whose *)
(* row was written since: it takes a route down only if every active       *)
(* tenant with that host was upserted meanwhile, and creates a route only  *)
(* for a tenant that still wants it, was upserted or was forgotten.        *)
RouteChangesJustified ==
    [][/\ \A r \in routes \ routes' : r \in doomed \ doomed' =>
             \A t \in Tenant, a \in Address :
                 Live(db, t, a) /\ Lower[a] = r[2] => t \in dirty
       /\ \A r \in routes' \ routes :
             \/ \E a \in Address : Live(db, r[1], a) /\ Lower[a] = r[2]
             \/ r[1] \in dirty \cup forgot]_vars

(* However its calls interleave with requests, failures and crashes, a     *)
(* pass is one step of the abstract reconciler: what the cluster serves,   *)
(* less what the pass has still to take down and with what it has still to *)
(* put up, is what it finally serves.                                      *)
Stage ==
    CASE pc = "list" -> "looked"
      [] pc \in {"delete", "purge", "create", "notify"} -> "reconciled"
      [] OTHER -> "idle"

Serving ==
    {<<Home[r[1]], r[2]>> : r \in routes \ doomed}
        \cup {<<Home[x[1]], Lower[x[2]]>> : x \in todo}

Promise == INSTANCE Reconciler WITH
    table <- db, view <- snap, stage <- Stage, served <- Serving

ReconcilesInOneStep == Promise!Spec

(* Once requests stop and calls stop failing, the cluster settles in the   *)
(* state the table asks for and marked rows are gone, whatever passes were *)
(* given up, signals dropped or crashes suffered on the way.               *)
Reconciled ==
    /\ \A t \in Tenant, a \in Address : Live(db, t, a) => HostPresent(Home[t], Lower[a])
    /\ \A r \in routes : Home[r[1]] \in Scanned(db) => HostServed(db, r[2])
    /\ \A t \in Tenant : db[t] # NoRow => ~db[t].removed
Converges == <>[]Reconciled

-----------------------------------------------------------------------------
(* The inductive invariant behind the safety properties. *)

(* A request that holds a tenant, an operation or a row holds a real one. *)
RequestsWellFormed ==
    \A p \in Request :
        /\ req[p].pc # "idle" => req[p].tenant \in Tenant
        /\ req[p].pc = "find" => req[p].op \in StatusOps \cup DeleteOps
        /\ req[p].pc \in {"select", "update", "insert"} => req[p].data \in Row

(* What a request is about to write keeps RemovedRowsAreEmpty, and so does *)
(* the snapshot.                                                           *)
RemovedDataIsEmpty ==
    /\ \A p \in Request :
           req[p].data # NoRow /\ req[p].data.removed => req[p].data.hosts = {}
    /\ \A t \in Tenant : snap[t] # NoRow /\ snap[t].removed => snap[t].hosts = {}

InPass == pc \in {"list", "delete", "purge", "create", "notify"}

(* Snapshot and table agree on who is live, but for the rows written since.*)
SnapshotCurrent ==
    InPass =>
        \A t \in Tenant, a \in Address :
            /\ Live(db, t, a) => Live(snap, t, a) \/ t \in dirty
            /\ Live(snap, t, a) => Live(db, t, a) \/ t \in dirty \cup forgot

(* What the pass still has to do follows from its snapshot. *)
WorkFromSnapshot ==
    /\ pc \in {"wait", "load", "list"} => doomed = {} /\ purging = {} /\ todo = {}
    /\ \A r \in doomed : ~HostServed(snap, r[2])
    /\ \A t \in purging : snap[t] # NoRow /\ snap[t].removed
    /\ \A x \in todo : Live(snap, x[1], x[2])

(* The hosts of routes are lower case, whatever case schemes use. *)
HostsLowerCase == \A r \in routes : Lower[r[2]] = r[2]

(* In a pass without failures, what is left to do is still listed. *)
RemainderListed ==
    /\ clean /\ pc \in {"delete", "purge", "create", "notify"} =>
          \A r \in routes :
              Home[r[1]] \in Scanned(snap) => HostServed(snap, r[2]) \/ r \in doomed
    /\ pc \in {"purge", "create", "notify"} => doomed = {}
    /\ pc \in {"delete", "purge"} =>
          \A t \in Tenant, a \in Address : Live(snap, t, a) => <<t, a>> \in todo
    /\ clean /\ pc \in {"create", "notify"} =>
          \A t \in Tenant, a \in Address :
              Live(snap, t, a) => <<t, a>> \in todo \/ HostPresent(Home[t], Lower[a])
    /\ pc = "notify" => todo = {}

IInv ==
    /\ RequestsWellFormed
    /\ NoLostSync
    /\ RemovedRowsAreEmpty
    /\ RemovedDataIsEmpty
    /\ SnapshotCurrent
    /\ WorkFromSnapshot
    /\ HostsLowerCase
    /\ RemainderListed

-----------------------------------------------------------------------------
(* What the documentation says, and the code does not do.                 *)

(* "Use PUT request to create or update routes scheme for tenant": a row   *)
(* the pass purges is still marked removed, not one a PUT created anew.    *)
PurgeOnlyRemoved ==
    [][\A t \in purging \ purging' :
           db[t] # NoRow /\ db'[t] = NoRow => db[t].removed]_vars

(* "Scheme for tenant was deleted without problems": a deletion that is    *)
(* answered with success without a write found no scheme to delete.        *)
UnwrittenDeletionFoundNothing ==
    [][\A p \in Request :
           req[p].pc = "find" /\ req'[p].pc = "done" => db[req[p].tenant] = NoRow]_vars

(* "If true URLs must be present in cloud project, otherwise URLs must be  *)
(* deleted": a tenant that is deactivated or deleted loses its routes, or  *)
(* is active again.                                                        *)
Inactive(t) == db[t] = NoRow \/ ~db[t].active
InactiveLosesRoutes ==
    \A t \in Tenant : Inactive(t) ~> (~Inactive(t) \/ \A r \in routes : r[1] # t)
=============================================================================
