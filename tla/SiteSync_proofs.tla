-------------------------- MODULE SiteSync_proofs --------------------------
(***************************************************************************)
(* What SiteSync promises, for all tenants, addresses, namespaces, request *)
(* slots, bus capacities and bounds.                                       *)
(***************************************************************************)
EXTENDS SiteSync, TLAPS

USE ConstantsAssumption

(* Type correctness, with the shape of the requests it needs. *)
Typed == TypeOK /\ RequestsWellFormed

\* An empty table and an idle pass have their types.
LEMMA InitTyped == Init => Typed
<1> SUFFICES ASSUME Init PROVE Typed
    OBVIOUS
<1>1. TypeOK
    <2>1. req \in [Request -> [pc : {"idle", "find", "select", "update", "insert", "sync", "done"},
                              op : Ops \cup {"none"},
                              tenant : Tenant \cup {NoTenant},
                              data : Row \cup {NoRow}]]
        BY DEF Init, IdleRequest
    <2>2. db \in [Tenant -> Row \cup {NoRow}] /\ snap \in [Tenant -> Row \cup {NoRow}]
        BY DEF Init, Empty
    <2>3. bus \in 0..BusCap
        BY DEF Init
    <2> QED BY <2>1, <2>2, <2>3 DEF Init, TypeOK
<1>2. RequestsWellFormed
    BY DEF Init, RequestsWellFormed, IdleRequest
<1> QED BY <1>1, <1>2 DEF Typed

\* Requests that begin, and rows that are forgotten, keep the types.
LEMMA StartTyped ==
    ASSUME Typed, StartRequest PROVE Typed'
<1>1. ASSUME NEW p \in Request, NEW t \in Tenant, Put(p, t)
      PROVE  Typed'
    <2> PICK b \in Schemes[t] :
            Begin(p, t, "put", "select",
                  [active |-> b.active, removed |-> FALSE, hosts |-> b.hosts])
        BY <1>1 DEF Put
    <2>1. [active |-> b.active, removed |-> FALSE, hosts |-> b.hosts] \in Row
        BY DEF Row, Body
    <2>2. req' = [req EXCEPT ![p] = [pc |-> "select", op |-> "put", tenant |-> t,
                       data |-> [active |-> b.active, removed |-> FALSE, hosts |-> b.hosts]]]
        BY DEF Begin
    <2>3. requests' \in Nat
        BY DEF Begin, Typed, TypeOK
    <2>4. UNCHANGED <<db, routes, bus, pc, snap, doomed, purging, todo, changed, dirty, forgot,
                      missed, clean, faults, crashes>>
        BY DEF Begin, table, pass, history
    <2> QED BY <2>1, <2>2, <2>3, <2>4 DEF Typed, TypeOK, RequestsWellFormed, Ops
<1>2. ASSUME NEW p \in Request, NEW t \in Tenant, NEW op \in StatusOps \cup DeleteOps,
             Ask(p, t, op)
      PROVE  Typed'
    BY <1>2 DEF Ask, Begin, Typed, TypeOK, RequestsWellFormed, Ops, table, pass, history
<1>3. ASSUME NEW t \in Tenant, RegisterTenant(t)
      PROVE  Typed'
    BY <1>3 DEF RegisterTenant, Typed, TypeOK, RequestsWellFormed, Row, pass, history
<1>4. ASSUME NEW t \in Tenant, ForgetTenant(t)
      PROVE  Typed'
    BY <1>4 DEF ForgetTenant, Typed, TypeOK, RequestsWellFormed, pass
<1> QED BY <1>1, <1>2, <1>3, <1>4 DEF StartRequest

\* What an operation makes of a row is a row.
LEMMA EditedIsRow ==
    ASSUME NEW op \in StatusOps \cup DeleteOps, NEW row \in Row
    PROVE  /\ Edited(op, row) \in Row
           /\ (row.removed => row.hosts = {}) =>
                  (Edited(op, row).removed => Edited(op, row).hosts = {})
BY DEF Edited, StatusOps, DeleteOps, Row

\* The statements of requests keep the types.
LEMMA RequestTyped ==
    ASSUME Typed, NEW p \in Request, RequestStep(p) \/ RequestFails(p) PROVE Typed'
<1> USE DEF Typed, TypeOK, RequestsWellFormed, table, pass, history, bounds, Goto, Finish,
            IdleRequest
<1>1. CASE Find(p)
    <2>1. req[p].tenant \in Tenant /\ req[p].op \in StatusOps \cup DeleteOps
        BY <1>1 DEF Find
    <2>2. ASSUME db[req[p].tenant] # NoRow
          PROVE  Edited(req[p].op, db[req[p].tenant]) \in Row
        BY <2>1, <2>2, EditedIsRow
    <2> QED BY <1>1, <2>1, <2>2 DEF Find, NotFound
<1>2. CASE Select(p)
    BY <1>2 DEF Select
<1>3. CASE Update(p)
    BY <1>3 DEF Update, Write
<1>4. CASE Insert(p)
    BY <1>4 DEF Insert, Write
<1>5. CASE Announce(p)
    BY <1>5 DEF Announce, Signal
<1>6. CASE Answer(p)
    BY <1>6 DEF Answer
<1>7. CASE FindFails(p)
    BY <1>7 DEF FindFails, NotFound, Failing
<1>8. CASE UpsertFails(p)
    BY <1>8 DEF UpsertFails, Failing
<1> QED BY <1>1, <1>2, <1>3, <1>4, <1>5, <1>6, <1>7, <1>8 DEF RequestStep, RequestFails

\* The steps of the pass keep the types.
LEMMA PassTyped ==
    ASSUME Typed, PassStep \/ PassFails PROVE Typed'
<1> USE DEF Typed, TypeOK, RequestsWellFormed, table, pass, history, bounds, Leave, Empty,
            Failing
<1>1. CASE Receive BY <1>1 DEF Receive
<1>2. CASE FindAll BY <1>2 DEF FindAll
<1>3. CASE GetManageableRoutes BY <1>3 DEF GetManageableRoutes
<1>4. CASE DeletedAll BY <1>4 DEF DeletedAll
<1>5. CASE PurgedAll BY <1>5 DEF PurgedAll
<1>6. CASE CreatedAll BY <1>6 DEF CreatedAll
<1>7. CASE Notify BY <1>7 DEF Notify
<1>8. ASSUME NEW r \in Route, DeleteRoute(r) \/ DeleteRouteFails(r) PROVE Typed'
    <2>1. CASE DeleteRoute(r) BY <2>1 DEF DeleteRoute
    <2>2. CASE DeleteRouteFails(r)
        <3>0. clean' \in BOOLEAN
            BY <2>2 DEF DeleteRouteFails
        <3>1. doomed' \subseteq Route /\ faults' \in Nat
            BY <2>2 DEF DeleteRouteFails
        <3>2. UNCHANGED <<db, routes, bus, req, pc, snap, purging, todo, changed, dirty, forgot,
                          missed, requests, crashes>>
            BY <2>2 DEF DeleteRouteFails
        <3> QED BY <3>0, <3>1, <3>2
    <2> QED BY <1>8, <2>1, <2>2
<1>9. ASSUME NEW t \in Tenant, PurgeTenant(t) \/ PurgeFails(t) PROVE Typed'
    BY <1>9 DEF PurgeTenant, PurgeFails
<1>10. ASSUME NEW x \in Pair, CreateRoute(x[1], x[2]) \/ CreateRouteFails(x[1], x[2])
       PROVE  Typed'
    <2> x[1] \in Tenant /\ Lower[x[2]] \in Address
        BY DEF Pair
    <2>1. CASE CreateRoute(x[1], x[2])
        <3>1. routes' \subseteq Route /\ todo' \subseteq Pair /\ changed' \subseteq Tenant
            BY <2>1 DEF CreateRoute, Route
        <3>2. UNCHANGED <<db, bus, req, pc, snap, doomed, purging, dirty, forgot, missed, clean,
                          requests, faults, crashes>>
            BY <2>1 DEF CreateRoute
        <3> QED BY <3>1, <3>2
    <2>2. CASE CreateRouteFails(x[1], x[2])
        <3>0. clean' \in BOOLEAN
            BY <2>2 DEF CreateRouteFails
        <3>1. todo' \subseteq Pair /\ changed' \subseteq Tenant /\ faults' \in Nat
            BY <2>2 DEF CreateRouteFails
        <3>2. UNCHANGED <<db, routes, bus, req, pc, snap, doomed, purging, dirty, forgot, missed,
                          requests, crashes>>
            BY <2>2 DEF CreateRouteFails
        <3> QED BY <3>0, <3>1, <3>2
    <2> QED BY <1>10, <2>1, <2>2
<1>11. CASE GiveUp BY <1>11 DEF GiveUp
<1> QED BY <1>1, <1>2, <1>3, <1>4, <1>5, <1>6, <1>7, <1>8, <1>9, <1>10, <1>11
        DEF PassStep, PassFails

\* Every step keeps the types.
LEMMA TypedStep ==
    Typed /\ [Next]_vars => Typed'
<1> SUFFICES ASSUME Typed, [Next]_vars PROVE Typed'
    OBVIOUS
<1>1. CASE AutoSync
    BY <1>1 DEF AutoSync, Signal, Typed, TypeOK, RequestsWellFormed, pass, history, bounds
<1>2. ASSUME NEW r \in Route, RouteLost(r) PROVE Typed'
    <2>1. routes' \subseteq Route
        BY <1>2 DEF RouteLost, Typed, TypeOK
    <2>2. clean' \in BOOLEAN
        BY <1>2 DEF RouteLost
    <2>3. faults' \in Nat
        BY <1>2 DEF RouteLost, Failing, Typed, TypeOK
    <2>4. UNCHANGED <<db, bus, req, pc, snap, doomed, purging, todo, changed, dirty, forgot,
                      missed, requests, crashes>>
        BY <1>2 DEF RouteLost, pass
    <2> QED BY <2>1, <2>2, <2>3, <2>4 DEF Typed, TypeOK, RequestsWellFormed
<1>3. CASE Crash
    BY <1>3 DEF Crash, Leave, IdleRequest, Empty, Ops, Typed, TypeOK, RequestsWellFormed
<1>4. CASE UNCHANGED vars
    BY <1>4 DEF vars, table, pass, history, bounds, Typed, TypeOK, RequestsWellFormed
<1> QED BY <1>1, <1>2, <1>3, <1>4, StartTyped, RequestTyped, PassTyped DEF Next

(* TypeOK is an invariant. *)
THEOREM TypeCorrect == Spec => []TypeOK
<1>1. Typed => TypeOK
    BY DEF Typed
<1> QED BY <1>1, InitTyped, TypedStep, PTL DEF Spec
-----------------------------------------------------------------------------
(* Which actions write the table, the routes and the snapshot. *)

Stores(p) == (Update(p) \/ Insert(p)) /\ Write(p)

\* Which steps change the table, and how.
LEMMA TableWriters ==
    ASSUME [Next]_vars
    PROVE  \/ UNCHANGED <<db, dirty, forgot>>
           \/ \E p \in Request : Stores(p)
           \/ \E t \in Tenant : RegisterTenant(t) \/ ForgetTenant(t) \/ PurgeTenant(t)
           \/ FindAll
<1> USE DEF table, pass, history, bounds
<1>1. CASE StartRequest
    BY <1>1 DEF StartRequest, Put, Ask, Begin
<1>2. ASSUME NEW p \in Request, RequestStep(p) \/ RequestFails(p)
      PROVE  UNCHANGED <<db, dirty, forgot>> \/ Stores(p)
    BY <1>2 DEF RequestStep, RequestFails, Stores, Find, Select, Update, Insert, Announce,
                Answer, FindFails, UpsertFails
<1>3. CASE PassStep
    BY <1>3 DEF PassStep, Receive, GetManageableRoutes, DeletedAll, PurgedAll, CreatedAll,
                Notify, DeleteRoute, CreateRoute
<1>4. CASE PassFails
    BY <1>4 DEF PassFails, GiveUp, DeleteRouteFails, PurgeFails, CreateRouteFails
<1>5. CASE AutoSync \/ Crash \/ \E r \in Route : RouteLost(r)
    BY <1>5 DEF AutoSync, Crash, RouteLost
<1>6. CASE UNCHANGED vars
    BY <1>6 DEF vars
<1> QED BY <1>1, <1>2, <1>3, <1>4, <1>5, <1>6 DEF Next

\* Which steps change the routes, and how.
LEMMA RouteWriters ==
    ASSUME [Next]_vars
    PROVE  \/ routes' \subseteq routes
           \/ \E x \in Pair : CreateRoute(x[1], x[2])
<1> USE DEF table, pass, history, bounds
<1>1. CASE StartRequest
    BY <1>1 DEF StartRequest, Put, Ask, Begin, RegisterTenant, ForgetTenant
<1>2. ASSUME NEW p \in Request, RequestStep(p) \/ RequestFails(p)
      PROVE  UNCHANGED routes
    BY <1>2 DEF RequestStep, RequestFails, Find, Select, Update, Insert, Announce, Answer,
                FindFails, UpsertFails
<1>3. CASE PassStep
    BY <1>3 DEF PassStep, Receive, FindAll, GetManageableRoutes, DeletedAll, PurgedAll,
                CreatedAll, Notify, DeleteRoute, PurgeTenant
<1>4. CASE PassFails
    BY <1>4 DEF PassFails, GiveUp, DeleteRouteFails, PurgeFails, CreateRouteFails
<1>5. CASE AutoSync \/ Crash \/ \E r \in Route : RouteLost(r)
    BY <1>5 DEF AutoSync, Crash, RouteLost
<1>6. CASE UNCHANGED vars
    BY <1>6 DEF vars
<1> QED BY <1>1, <1>2, <1>3, <1>4, <1>5, <1>6 DEF Next

-----------------------------------------------------------------------------
(* No signal is lost. *)

\* Every step keeps NoLostSync.
LEMMA NoLostSyncStep ==
    Typed /\ NoLostSync /\ [Next]_vars => NoLostSync'
<1> SUFFICES ASSUME Typed, NoLostSync, [Next]_vars PROVE NoLostSync'
    OBVIOUS
<1>d. dirty' \subseteq Tenant
    BY TypedStep DEF Typed, TypeOK
<1> SUFFICES ASSUME NEW t \in Tenant, t \in dirty'
             PROVE  \/ AboutToAnnounce(t)'
                    \/ bus' > 0
                    \/ pc' = "load"
                    \/ pc' = "wait" /\ missed'
    BY <1>d DEF NoLostSync
<1> USE DEF table, pass, history, bounds
<1>b. bus \in Nat
    BY DEF Typed, TypeOK
<1>h. ASSUME t \in dirty
      PROVE  AboutToAnnounce(t) \/ bus > 0 \/ pc = "load" \/ (pc = "wait" /\ missed)
    BY <1>h DEF NoLostSync
<1>r. req \in [Request -> [pc : {"idle", "find", "select", "update", "insert", "sync", "done"},
                          op : Ops \cup {"none"},
                          tenant : Tenant \cup {NoTenant},
                          data : Row \cup {NoRow}]]
    BY DEF Typed, TypeOK
<1>1. ASSUME t \in dirty, UNCHANGED <<pc, missed>>, bus' >= bus, bus' \in Nat,
             NEW p \in Request, req[p].pc # "sync",
             \A q \in Request \ {p} : req'[q] = req[q]
      PROVE  AboutToAnnounce(t)' \/ bus' > 0 \/ pc' = "load" \/ (pc' = "wait" /\ missed')
    BY <1>1, <1>h, <1>b DEF AboutToAnnounce
<1>2. ASSUME t \in dirty, UNCHANGED <<pc, missed, req>>, bus' >= bus, bus' \in Nat
      PROVE  AboutToAnnounce(t)' \/ bus' > 0 \/ pc' = "load" \/ (pc' = "wait" /\ missed')
    BY <1>2, <1>h, <1>b DEF AboutToAnnounce
<1>3. CASE StartRequest
    <2>1. ASSUME NEW p \in Request, NEW u \in Tenant, NEW op, NEW label, NEW data,
                 Begin(p, u, op, label, data)
          PROVE  AboutToAnnounce(t)' \/ bus' > 0 \/ pc' = "load" \/ (pc' = "wait" /\ missed')
        BY <2>1, <1>1, <1>b, <1>r DEF Begin
    <2>2. ASSUME NEW u \in Tenant, RegisterTenant(u) \/ ForgetTenant(u)
          PROVE  AboutToAnnounce(t)' \/ bus' > 0 \/ pc' = "load" \/ (pc' = "wait" /\ missed')
        BY <2>2, <1>2, <1>b DEF RegisterTenant, ForgetTenant
    <2> QED BY <1>3, <2>1, <2>2 DEF StartRequest, Put, Ask
<1>4. ASSUME NEW p \in Request, RequestStep(p) \/ RequestFails(p)
      PROVE  AboutToAnnounce(t)' \/ bus' > 0 \/ pc' = "load" \/ (pc' = "wait" /\ missed')
    <2> USE DEF Goto, Finish
    <2>1. CASE Stores(p)
        <3>1. dirty' = dirty \cup {req[p].tenant} /\ UNCHANGED <<bus, pc, missed>>
            BY <2>1 DEF Stores, Update, Insert, Write
        <3>2. req' = [req EXCEPT ![p].pc = "sync"] /\ req[p].pc # "sync"
            BY <2>1 DEF Stores, Update, Insert, Write
        <3>3. CASE t = req[p].tenant
            BY <3>2, <3>3, <1>r DEF AboutToAnnounce
        <3>4. CASE t \in dirty
            BY <3>1, <3>2, <3>4, <1>1, <1>b, <1>r
        <3> QED BY <3>1, <3>3, <3>4
    <2>2. CASE Announce(p)
        <3>1. bus' > 0
            BY <2>2, <1>b DEF Announce, Signal
        <3> QED BY <3>1
    <2>3. CASE Find(p) \/ Select(p) \/ Answer(p) \/ FindFails(p) \/ UpsertFails(p)
        <3>1. /\ UNCHANGED <<bus, pc, missed, dirty>>
              /\ req[p].pc # "sync"
              /\ \A q \in Request \ {p} : req'[q] = req[q]
            BY <2>3, <1>r DEF Find, Select, Answer, FindFails, UpsertFails, NotFound
        <3> QED BY <3>1, <1>1, <1>b
    <2>4. CASE (Update(p) \/ Insert(p)) /\ ~Write(p)
        <3>1. /\ UNCHANGED <<bus, pc, missed, dirty>>
              /\ req[p].pc # "sync"
              /\ \A q \in Request \ {p} : req'[q] = req[q]
            BY <2>4, <1>r DEF Update, Insert
        <3> QED BY <3>1, <1>1, <1>b
    <2> QED BY <1>4, <2>1, <2>2, <2>3, <2>4 DEF RequestStep, RequestFails, Stores
<1>5. CASE PassStep
    <2>1. CASE Receive
        BY <2>1 DEF Receive
    <2>2. CASE FindAll
        BY <2>2 DEF FindAll
    <2>3. CASE PassStep /\ ~Receive /\ ~FindAll
        <3>1. pc \notin {"wait", "load"} /\ UNCHANGED <<bus, req, dirty>>
            BY <2>3 DEF PassStep, GetManageableRoutes, DeletedAll, PurgedAll, CreatedAll, Notify,
                        DeleteRoute, PurgeTenant, CreateRoute
        <3> QED BY <3>1, <1>h DEF AboutToAnnounce
    <2> QED BY <1>5, <2>1, <2>2, <2>3
<1>6. CASE PassFails
    <2>1. CASE GiveUp
        BY <2>1 DEF GiveUp, Leave
    <2>2. CASE PassFails /\ ~GiveUp
        <3>1. UNCHANGED <<bus, req, dirty, pc, missed>>
            BY <2>2 DEF PassFails, DeleteRouteFails, PurgeFails, CreateRouteFails
        <3> QED BY <3>1, <1>2, <1>b
    <2> QED BY <1>6, <2>1, <2>2
<1>7. CASE AutoSync
    <2>1. bus' > 0
        BY <1>7, <1>b DEF AutoSync, Signal
    <2> QED BY <2>1
<1>8. CASE Crash
    BY <1>8 DEF Crash, Leave
<1>9. CASE UNCHANGED vars \/ \E r \in Route : RouteLost(r)
    <2>1. UNCHANGED <<bus, req, dirty, pc, missed>>
        BY <1>9 DEF vars, RouteLost
    <2> QED BY <2>1, <1>2, <1>b
<1> QED BY <1>3, <1>4, <1>5, <1>6, <1>7, <1>8, <1>9 DEF Next

(* A change that was stored and announced is never forgotten: every signal *)
(* that is dropped is covered by one on the bus, and every signal that is  *)
(* consumed is followed by a read of the table, unless that pass fails.    *)
THEOREM NoSyncIsLost == Spec => []NoLostSync
<1>1. Init => NoLostSync
    BY DEF Init, NoLostSync
<1> QED BY <1>1, InitTyped, TypedStep, NoLostSyncStep, PTL DEF Spec
-----------------------------------------------------------------------------
(* Rows marked removed stay empty. *)

Emptied(row) == row # NoRow /\ row.removed => row.hosts = {}

\* A row that a request carries is empty when it is marked.
LEMMA RequestDataEmptied ==
    ASSUME Typed, RemovedRowsAreEmpty, RemovedDataIsEmpty, [Next]_vars, NEW q \in Request
    PROVE  Emptied(req'[q].data)
<1> USE DEF table, pass, history, bounds, Emptied
<1>q. Emptied(req[q].data)
    BY DEF RemovedDataIsEmpty
<1>r. req \in [Request -> [pc : {"idle", "find", "select", "update", "insert", "sync", "done"},
                          op : Ops \cup {"none"},
                          tenant : Tenant \cup {NoTenant},
                          data : Row \cup {NoRow}]]
    BY DEF Typed, TypeOK
<1>1. ASSUME NEW p \in Request, NEW t \in Tenant, Put(p, t)
      PROVE  Emptied(req'[q].data)
    BY <1>1, <1>q, <1>r DEF Put, Begin
<1>2. ASSUME NEW p \in Request, NEW t \in Tenant, NEW op, Ask(p, t, op)
      PROVE  Emptied(req'[q].data)
    BY <1>2, <1>q, <1>r DEF Ask, Begin
<1>3. ASSUME NEW p \in Request, Find(p)
      PROVE  Emptied(req'[q].data)
    <2>1. req[p].tenant \in Tenant /\ req[p].op \in StatusOps \cup DeleteOps
        BY <1>3 DEF Find, Typed, RequestsWellFormed
    <2> DEFINE row == db[req[p].tenant]
    <2>2. row # NoRow => row \in Row /\ Emptied(row)
        BY <2>1 DEF Typed, TypeOK, RemovedRowsAreEmpty
    <2>3. row # NoRow => Emptied(Edited(req[p].op, row))
        BY <2>1, <2>2, EditedIsRow
    <2> HIDE DEF row
    <2>4. \/ req'[q].data = req[q].data
          \/ req'[q].data = NoRow
          \/ row # NoRow /\ req'[q].data = Edited(req[p].op, row)
        BY <1>3, <1>r DEF Find, NotFound, Goto, Finish, IdleRequest, row
    <2> QED BY <2>3, <2>4, <1>q
<1>4. ASSUME NEW p \in Request, RequestStep(p) \/ RequestFails(p), ~Find(p)
      PROVE  Emptied(req'[q].data)
    <2>1. req' = [req EXCEPT ![p] = IdleRequest] \/ \E label : Goto(p, label)
        BY <1>4 DEF RequestStep, RequestFails, Select, Update, Insert, Announce, Answer,
                    FindFails, UpsertFails, NotFound, Finish, Write, Goto
    <2>2. req'[q].data = req[q].data \/ req'[q].data = NoRow
        BY <2>1, <1>r DEF Goto, IdleRequest
    <2> QED BY <2>2, <1>q
<1>5. CASE PassStep
    <2>1. UNCHANGED req
        BY <1>5 DEF PassStep, Receive, FindAll, GetManageableRoutes, DeletedAll, PurgedAll,
                    CreatedAll, Notify, DeleteRoute, PurgeTenant, CreateRoute
    <2> QED BY <2>1, <1>q
<1>6. CASE PassFails
    <2>1. UNCHANGED req
        BY <1>6 DEF PassFails, GiveUp, DeleteRouteFails, PurgeFails, CreateRouteFails
    <2> QED BY <2>1, <1>q
<1>7. CASE UNCHANGED vars \/ AutoSync \/ (\E r \in Route : RouteLost(r))
           \/ \E t \in Tenant : RegisterTenant(t) \/ ForgetTenant(t)
    <2>1. UNCHANGED req
        BY <1>7 DEF vars, AutoSync, RouteLost, RegisterTenant, ForgetTenant
    <2> QED BY <2>1, <1>q
<1>8. CASE Crash
    BY <1>8 DEF Crash, IdleRequest
<1> QED BY <1>1, <1>2, <1>3, <1>4, <1>5, <1>6, <1>7, <1>8 DEF Next, StartRequest

\* Only FindAll changes the snapshot.
LEMMA SnapshotWriters ==
    ASSUME [Next]_vars
    PROVE  UNCHANGED snap \/ snap' = Empty \/ FindAll
<1> USE DEF table, pass, history, bounds
<1>1. CASE StartRequest
    BY <1>1 DEF StartRequest, Put, Ask, Begin, RegisterTenant, ForgetTenant
<1>2. ASSUME NEW p \in Request, RequestStep(p) \/ RequestFails(p)
      PROVE  UNCHANGED snap
    BY <1>2 DEF RequestStep, RequestFails, Find, Select, Update, Insert, Announce, Answer,
                FindFails, UpsertFails
<1>3. CASE PassStep
    BY <1>3 DEF PassStep, Receive, GetManageableRoutes, DeletedAll, PurgedAll,
                CreatedAll, Notify, Leave, DeleteRoute, PurgeTenant, CreateRoute
<1>4. CASE PassFails
    BY <1>4 DEF PassFails, GiveUp, Leave, DeleteRouteFails, PurgeFails, CreateRouteFails
<1>5. CASE AutoSync \/ Crash \/ \E r \in Route : RouteLost(r)
    BY <1>5 DEF AutoSync, Crash, Leave, RouteLost
<1>6. CASE UNCHANGED vars
    BY <1>6 DEF vars
<1> QED BY <1>1, <1>2, <1>3, <1>4, <1>5, <1>6 DEF Next

\* Every step keeps marked rows empty, in the table as under way.
LEMMA RemovedStep ==
    Typed /\ RemovedRowsAreEmpty /\ RemovedDataIsEmpty /\ [Next]_vars
        => RemovedRowsAreEmpty' /\ RemovedDataIsEmpty'
<1> SUFFICES ASSUME Typed, RemovedRowsAreEmpty, RemovedDataIsEmpty, [Next]_vars
             PROVE  RemovedRowsAreEmpty' /\ RemovedDataIsEmpty'
    OBVIOUS
<1>1. ASSUME NEW t \in Tenant
      PROVE  Emptied(db'[t])
    <2>0. Emptied(db[t]) /\ db \in [Tenant -> Row \cup {NoRow}]
        BY DEF RemovedRowsAreEmpty, Emptied, Typed, TypeOK
    <2>1. ASSUME NEW p \in Request, Stores(p) PROVE Emptied(db'[t])
        BY <2>0, <2>1 DEF Stores, Write, Emptied, RemovedDataIsEmpty
    <2>2. ASSUME NEW u \in Tenant, RegisterTenant(u) \/ ForgetTenant(u) \/ PurgeTenant(u)
          PROVE  Emptied(db'[t])
        BY <2>0, <2>2 DEF RegisterTenant, ForgetTenant, PurgeTenant, Emptied
    <2>3. CASE UNCHANGED db \/ FindAll
        BY <2>0, <2>3 DEF FindAll, table
    <2> QED BY <2>1, <2>2, <2>3, TableWriters
<1>2. ASSUME NEW t \in Tenant
      PROVE  Emptied(snap'[t])
    <2>1. CASE FindAll
        BY <2>1 DEF FindAll, RemovedRowsAreEmpty, Emptied
    <2>2. CASE UNCHANGED snap \/ snap' = Empty
        BY <2>2 DEF Empty, RemovedDataIsEmpty, Emptied
    <2> QED BY <2>1, <2>2, SnapshotWriters
<1> QED BY <1>1, <1>2, RequestDataEmptied DEF Emptied, RemovedRowsAreEmpty, RemovedDataIsEmpty

Marked == Typed /\ RemovedRowsAreEmpty /\ RemovedDataIsEmpty

\* Marked rows are empty throughout.
LEMMA MarkedInvariant == Spec => []Marked
<1>1. Init => Marked
    BY InitTyped DEF Init, Marked, RemovedRowsAreEmpty, RemovedDataIsEmpty, Empty, IdleRequest
<1>2. Marked /\ [Next]_vars => Marked'
    BY TypedStep, RemovedStep DEF Marked
<1> QED BY <1>1, <1>2, PTL DEF Spec

(* No interleaving of requests gives an address back to a tenant that is   *)
(* still marked removed: what the purge takes away has no routes.          *)
THEOREM RemovedStaysEmpty == Spec => []RemovedRowsAreEmpty
<1>1. Marked => RemovedRowsAreEmpty
    BY DEF Marked
<1> QED BY <1>1, MarkedInvariant, PTL
-----------------------------------------------------------------------------
(* What the pass does to routes is what the table asks. *)

(* How the pass moves: to the table, into its work, out of it, and while   *)
(* it works its snapshot stands and its lists shrink.                      *)
LEMMA PassMoves ==
    ASSUME [Next]_vars
    PROVE  \/ FindAll
           \/ Receive
           \/ Leave
           \/ GetManageableRoutes
           \/ /\ UNCHANGED snap
              /\ InPass' => InPass
              /\ pc' \in {"wait", "load", "list"} => UNCHANGED pc
              /\ doomed' \subseteq doomed /\ purging' \subseteq purging /\ todo' \subseteq todo
<1> USE DEF table, pass, history, bounds
<1>1. CASE StartRequest
    BY <1>1 DEF StartRequest, Put, Ask, Begin, RegisterTenant, ForgetTenant, InPass
<1>2. ASSUME NEW p \in Request, RequestStep(p) \/ RequestFails(p)
      PROVE  UNCHANGED pass
    BY <1>2 DEF RequestStep, RequestFails, Find, Select, Update, Insert, Announce, Answer,
                FindFails, UpsertFails
<1>3. CASE PassStep
    BY <1>3 DEF PassStep, DeletedAll, PurgedAll, CreatedAll, Notify, DeleteRoute,
                PurgeTenant, CreateRoute, InPass
<1>4. CASE PassFails
    BY <1>4 DEF PassFails, GiveUp, DeleteRouteFails, PurgeFails, CreateRouteFails, InPass
<1>5. CASE AutoSync \/ Crash \/ \E r \in Route : RouteLost(r)
    BY <1>5 DEF AutoSync, Crash, RouteLost, InPass
<1>6. CASE UNCHANGED vars
    BY <1>6 DEF vars, InPass
<1> QED BY <1>1, <1>2, <1>3, <1>4, <1>5, <1>6 DEF Next, InPass

\* What is left to do follows from the snapshot, whatever is done.
LEMMA WorkStep ==
    WorkFromSnapshot /\ [Next]_vars => WorkFromSnapshot'
<1> SUFFICES ASSUME WorkFromSnapshot, [Next]_vars PROVE WorkFromSnapshot'
    OBVIOUS
<1>1. CASE FindAll
    BY <1>1 DEF FindAll, WorkFromSnapshot
<1>2. CASE Receive
    BY <1>2 DEF Receive, WorkFromSnapshot
<1>3. CASE Leave
    BY <1>3 DEF Leave, WorkFromSnapshot
<1>4. CASE GetManageableRoutes
    BY <1>4 DEF GetManageableRoutes, WorkFromSnapshot, HostServed, Live
<1>5. CASE /\ UNCHANGED snap
           /\ pc' \in {"wait", "load", "list"} => UNCHANGED pc
           /\ doomed' \subseteq doomed /\ purging' \subseteq purging /\ todo' \subseteq todo
    BY <1>5 DEF WorkFromSnapshot, HostServed, Live
<1> QED BY <1>1, <1>2, <1>3, <1>4, <1>5, PassMoves

\* Snapshot and table agree but for rows written since.
LEMMA CurrentStep ==
    Marked /\ WorkFromSnapshot /\ SnapshotCurrent /\ [Next]_vars => SnapshotCurrent'
<1> SUFFICES ASSUME Marked, WorkFromSnapshot, SnapshotCurrent, [Next]_vars, InPass',
                    NEW t \in Tenant, NEW a \in Address
             PROVE  /\ Live(db', t, a) => Live(snap', t, a) \/ t \in dirty'
                    /\ Live(snap', t, a) => Live(db', t, a) \/ t \in dirty' \cup forgot'
    BY DEF SnapshotCurrent, Live
<1>1. CASE FindAll
    BY <1>1 DEF FindAll, table, Live
<1>2. CASE Receive \/ Leave
    BY <1>2 DEF Receive, Leave, InPass
<1>3. CASE ~FindAll /\ InPass /\ UNCHANGED snap
    <2>0. /\ Live(db, t, a) => Live(snap', t, a) \/ t \in dirty
          /\ Live(snap', t, a) => Live(db, t, a) \/ t \in dirty \cup forgot
          /\ db \in [Tenant -> Row \cup {NoRow}]
        BY <1>3 DEF SnapshotCurrent, Live, Marked, Typed, TypeOK
    <2>1. CASE UNCHANGED <<db, dirty, forgot>>
        BY <2>0, <2>1
    <2>2. ASSUME NEW p \in Request, Stores(p)
          PROVE  \/ t \in dirty'
                 \/ db'[t] = db[t] /\ dirty \subseteq dirty' /\ forgot' = forgot
        BY <2>0, <2>2 DEF Stores, Update, Insert, Write
    <2>3. ASSUME NEW u \in Tenant, RegisterTenant(u)
          PROVE  /\ Live(db', t, a) <=> Live(db, t, a)
                 /\ dirty' = dirty /\ forgot' = forgot
        BY <2>0, <2>3 DEF RegisterTenant, Live, history
    <2>4. ASSUME NEW u \in Tenant, ForgetTenant(u)
          PROVE  /\ Live(db', t, a) => Live(db, t, a)
                 /\ t \in forgot' \/ (Live(db', t, a) <=> Live(db, t, a))
                 /\ dirty' = dirty /\ forgot \subseteq forgot'
        BY <2>0, <2>4 DEF ForgetTenant, Live
    <2>5. ASSUME NEW u \in Tenant, PurgeTenant(u)
          PROVE  /\ Live(db', t, a) => Live(db, t, a)
                 /\ ~Live(snap', t, a) \/ (Live(db', t, a) <=> Live(db, t, a))
                 /\ dirty' = dirty /\ forgot' = forgot
        <3>1. snap[u] # NoRow /\ snap[u].hosts = {}
            BY <2>5 DEF PurgeTenant, WorkFromSnapshot, Marked, RemovedDataIsEmpty
        <3> QED BY <3>1, <2>0, <2>5, <1>3 DEF PurgeTenant, Live, history
    <2> QED BY <1>3, <2>0, <2>1, <2>2, <2>3, <2>4, <2>5, TableWriters DEF Live
<1>4. CASE GetManageableRoutes
    <2>1. ~FindAll /\ InPass /\ UNCHANGED snap
        BY <1>4 DEF GetManageableRoutes, FindAll, InPass
    <2> QED BY <2>1, <1>3
<1> QED BY <1>1, <1>2, <1>3, <1>4, PassMoves

Settling == Marked /\ WorkFromSnapshot /\ SnapshotCurrent

\* Both hold throughout.
LEMMA SettlingInvariant == Spec => []Settling
<1>1. Init => WorkFromSnapshot /\ SnapshotCurrent
    BY DEF Init, WorkFromSnapshot, SnapshotCurrent, InPass
<1>2. Marked /\ WorkFromSnapshot /\ SnapshotCurrent /\ Marked' /\ [Next]_vars
          => WorkFromSnapshot' /\ SnapshotCurrent'
    BY WorkStep, CurrentStep
<1> QED BY <1>1, <1>2, MarkedInvariant, PTL DEF Settling, Spec

(* Although the pass never looks at the table again, it takes down no      *)
(* route and puts up no route that the table, at that moment, does not ask *)
(* for, unless the tenant's row was written after the snapshot.            *)
THEOREM RouteChangesAreJustified == Spec => RouteChangesJustified
<1> DEFINE Justified ==
      /\ \A r \in routes \ routes' : r \in doomed \ doomed' =>
             \A t \in Tenant, a \in Address :
                 Live(db, t, a) /\ Lower[a] = r[2] => t \in dirty
      /\ \A r \in routes' \ routes :
             \/ \E a \in Address : Live(db, r[1], a) /\ Lower[a] = r[2]
             \/ r[1] \in dirty \cup forgot
<1>1. ASSUME Settling, [Next]_vars PROVE Justified
    <2>1. ASSUME NEW r \in doomed, NEW t \in Tenant, NEW a \in Address,
                 Live(db, t, a), Lower[a] = r[2]
          PROVE  t \in dirty
        <3>1. InPass
            BY <1>1 DEF Settling, WorkFromSnapshot, Marked, Typed, TypeOK, InPass
        <3>2. ~Live(snap, t, a)
            BY <1>1, <2>1 DEF Settling, WorkFromSnapshot, HostServed
        <3> QED BY <1>1, <2>1, <3>1, <3>2 DEF Settling, SnapshotCurrent
    <2>2. ASSUME NEW r \in routes' \ routes
          PROVE  \/ \E a \in Address : Live(db, r[1], a) /\ Lower[a] = r[2]
                 \/ r[1] \in dirty \cup forgot
        <3>1. PICK x \in Pair : CreateRoute(x[1], x[2])
            BY <1>1, RouteWriters
        <3>2. /\ InPass /\ r = <<x[1], Lower[x[2]]>> /\ x = <<x[1], x[2]>>
              /\ x[1] \in Tenant /\ x[2] \in Address /\ <<x[1], x[2]>> \in todo
            BY <3>1 DEF CreateRoute, InPass, Pair
        <3>3. Live(snap, x[1], x[2])
            BY <1>1, <3>2 DEF Settling, WorkFromSnapshot
        <3> QED BY <1>1, <3>2, <3>3 DEF Settling, SnapshotCurrent
    <2> QED BY <2>1, <2>2
<1>2. Settling /\ [Next]_vars => [Justified]_vars
    BY <1>1
<1> HIDE DEF Justified
<1>3. Spec => [][Justified]_vars
    BY <1>2, SettlingInvariant, PTL DEF Spec
<1> QED BY <1>3 DEF RouteChangesJustified, Justified
-----------------------------------------------------------------------------
(* Routes of one host. *)

Lowered == Typed /\ HostsLowerCase

\* Hosts of routes and of the work left are in lower case throughout.
LEMMA LoweredInvariant == Spec => []Lowered
<1>1. Init => HostsLowerCase
    BY DEF Init, HostsLowerCase
<1>2. ASSUME HostsLowerCase, [Next]_vars PROVE HostsLowerCase'
    <2>1. ASSUME NEW x \in Pair, CreateRoute(x[1], x[2])
          PROVE  HostsLowerCase'
        BY <1>2, <2>1 DEF CreateRoute, HostsLowerCase, Pair
    <2> QED BY <1>2, <2>1, RouteWriters DEF HostsLowerCase
<1> QED BY <1>1, <1>2, InitTyped, TypedStep, PTL DEF Lowered, Spec

(* When schemes are written in lower case, no namespace ever holds two     *)
(* routes for one host, however many tenants claim it.                     *)
THEOREM OneRoutePerHost ==
    ASSUME \A a \in Address : Lower[a] = a
    PROVE  Spec => []HostOncePerNamespace
<1>1. Init => HostOncePerNamespace
    BY DEF Init, HostOncePerNamespace
<1>2. ASSUME HostOncePerNamespace, [Next]_vars PROVE HostOncePerNamespace'
    <2>1. ASSUME NEW x \in Pair, CreateRoute(x[1], x[2])
          PROVE  HostOncePerNamespace'
        BY <1>2, <2>1 DEF CreateRoute, HostPresent, HostOncePerNamespace, Pair
    <2> QED BY <1>2, <2>1, RouteWriters DEF HostOncePerNamespace
<1> QED BY <1>1, <1>2, PTL DEF Spec

-----------------------------------------------------------------------------
(* A pass without failures reaches what its snapshot asks. *)

\* Every step keeps RemainderListed.
LEMMA RemainderStep ==
    Lowered /\ WorkFromSnapshot /\ RemainderListed /\ [Next]_vars => RemainderListed'
<1> SUFFICES ASSUME Lowered, WorkFromSnapshot, RemainderListed, [Next]_vars
             PROVE  RemainderListed'
    OBVIOUS
<1> USE DEF table, pass, history, bounds
<1>0. ASSUME UNCHANGED <<routes, pc, snap, doomed, todo, clean>>
      PROVE  RemainderListed'
    BY <1>0 DEF RemainderListed, HostPresent, HostServed, Scanned, Live
<1>1. CASE StartRequest
    BY <1>1, <1>0 DEF StartRequest, Put, Ask, Begin, RegisterTenant, ForgetTenant
<1>2. ASSUME NEW p \in Request, RequestStep(p) \/ RequestFails(p)
      PROVE  RemainderListed'
    BY <1>2, <1>0 DEF RequestStep, RequestFails, Find, Select, Update, Insert, Announce, Answer,
                FindFails, UpsertFails
<1>3. CASE AutoSync \/ UNCHANGED vars
    BY <1>3, <1>0 DEF AutoSync, vars
<1>4. ASSUME pc' \in {"wait", "load", "list"}
      PROVE  RemainderListed'
    BY <1>4 DEF RemainderListed
<1>5. CASE Receive \/ FindAll \/ GiveUp \/ Notify \/ Crash
    BY <1>5, <1>4 DEF Receive, FindAll, GiveUp, Notify, Crash, Leave
<1>6. CASE GetManageableRoutes
    <2>1. /\ UNCHANGED <<routes, snap>> /\ pc' = "delete"
          /\ doomed' = {r \in routes : Home[r[1]] \in Scanned(snap) /\ ~HostServed(snap, r[2])}
          /\ todo' = {x \in Pair : Live(snap, x[1], x[2])}
        BY <1>6 DEF GetManageableRoutes
    <2> QED BY <2>1 DEF RemainderListed, HostServed, Scanned, Live, Pair
<1>7. ASSUME NEW r \in Route, DeleteRoute(r)
      PROVE  RemainderListed'
    BY <1>7 DEF DeleteRoute, RemainderListed, HostServed, Scanned, Live
<1>8. CASE DeletedAll
    BY <1>8 DEF DeletedAll, RemainderListed, HostServed, Scanned, Live
<1>9. ASSUME NEW t \in Tenant, PurgeTenant(t) \/ PurgeFails(t)
      PROVE  RemainderListed'
    BY <1>9, <1>0 DEF PurgeTenant, PurgeFails
<1>10. CASE PurgedAll
    BY <1>10 DEF PurgedAll, RemainderListed, HostServed, Scanned, Live
<1>11. CASE CreatedAll
    BY <1>11 DEF CreatedAll, RemainderListed, HostServed, HostPresent, Scanned, Live
<1>12. ASSUME NEW x \in Pair, CreateRoute(x[1], x[2])
       PROVE  RemainderListed'
    <2>1. /\ pc = "create" /\ UNCHANGED <<pc, snap, doomed, clean>>
          /\ todo' = todo \ {<<x[1], x[2]>>} /\ <<x[1], x[2]>> \in todo
          /\ x[1] \in Tenant /\ x[2] \in Address
        BY <1>12 DEF CreateRoute, Pair
    <2>2. /\ routes \subseteq routes'
          /\ \A r \in routes' \ routes : r = <<x[1], Lower[x[2]]>>
        BY <1>12 DEF CreateRoute
    <2>3. HostServed(snap, Lower[x[2]])
        BY <2>1 DEF WorkFromSnapshot, HostServed
    <2>4. HostPresent(Home[x[1]], Lower[x[2]])'
        <3>1. CASE HostPresent(Home[x[1]], x[2]) /\ UNCHANGED routes
            <4> PICK r \in routes : Home[r[1]] = Home[x[1]] /\ r[2] = x[2]
                BY <3>1 DEF HostPresent
            <4>1. Lower[x[2]] = x[2]
                BY DEF Lowered, HostsLowerCase
            <4> QED BY <3>1, <4>1 DEF HostPresent
        <3>2. CASE routes' = routes \cup {<<x[1], Lower[x[2]]>>}
            <4> DEFINE r == <<x[1], Lower[x[2]]>>
            <4>1. r \in routes' /\ r[1] = x[1] /\ r[2] = Lower[x[2]]
                BY <3>2
            <4> HIDE DEF r
            <4> QED BY <4>1 DEF HostPresent
        <3> QED BY <1>12, <3>1, <3>2 DEF CreateRoute
    <2>5. ASSUME NEW ns, NEW h, HostPresent(ns, h) PROVE HostPresent(ns, h)'
        BY <2>2, <2>5 DEF HostPresent
    <2>6. clean' =>
             \A r \in routes' :
                 Home[r[1]] \in Scanned(snap)' => HostServed(snap', r[2]) \/ r \in doomed'
        BY <2>1, <2>2, <2>3 DEF RemainderListed, Scanned, HostServed, Live
    <2>7. clean' =>
             \A t \in Tenant, a \in Address :
                 Live(snap', t, a) => <<t, a>> \in todo' \/ HostPresent(Home[t], Lower[a])'
        BY <2>1, <2>4, <2>5 DEF RemainderListed, Live
    <2> QED BY <2>1, <2>6, <2>7 DEF RemainderListed
<1>13. ASSUME ~clean', pc' = pc, UNCHANGED snap, doomed' \subseteq doomed,
              pc \in {"delete", "purge"} => UNCHANGED todo, todo' \subseteq todo
       PROVE  RemainderListed'
    BY <1>13 DEF RemainderListed, Live
<1>14. CASE \/ \E r \in Route : RouteLost(r) \/ DeleteRouteFails(r)
            \/ \E x \in Pair : CreateRouteFails(x[1], x[2])
    BY <1>14, <1>13 DEF RouteLost, DeleteRouteFails, CreateRouteFails
<1> QED BY <1>1, <1>2, <1>3, <1>5, <1>6, <1>7, <1>8, <1>9, <1>10, <1>11, <1>12, <1>14
        DEF Next, PassStep, PassFails

\* What is not yet right in a clean pass is listed throughout.
LEMMA RemainderInvariant == Spec => []RemainderListed
<1>1. Init => RemainderListed
    BY DEF Init, RemainderListed
<1>2. Settling /\ Lowered /\ RemainderListed /\ [Next]_vars => RemainderListed'
    BY RemainderStep DEF Settling
<1> QED BY <1>1, <1>2, SettlingInvariant, LoweredInvariant, PTL DEF Spec

(* A pass in which nothing failed ends with exactly the routes its         *)
(* snapshot asks for in the namespaces it scanned.                         *)
THEOREM PassReconcilesAlways == Spec => []PassReconciles
<1>1. RemainderListed => PassReconciles
    BY DEF RemainderListed, PassReconciles
<1> QED BY <1>1, RemainderInvariant, PTL
-----------------------------------------------------------------------------
(* A pass is one step of the abstract reconciler. *)

(* The routes a pass still has to delete lie in namespaces it scanned. *)
DoomedScanned == \A r \in doomed : Home[r[1]] \in Scanned(snap)

Working == Settling /\ Lowered /\ RemainderListed /\ DoomedScanned

\* What the reconciler's record of the state is made of holds throughout.
LEMMA WorkingInvariant == Spec => []Working
<1>1. Init => DoomedScanned
    BY DEF Init, DoomedScanned
<1>2. ASSUME DoomedScanned, WorkFromSnapshot, [Next]_vars PROVE DoomedScanned'
    <2>1. CASE FindAll
        BY <1>2, <2>1 DEF FindAll, WorkFromSnapshot, DoomedScanned
    <2>2. CASE Receive
        BY <1>2, <2>2 DEF Receive, DoomedScanned, Scanned
    <2>3. CASE Leave
        BY <2>3 DEF Leave, DoomedScanned
    <2>4. CASE GetManageableRoutes
        BY <2>4 DEF GetManageableRoutes, DoomedScanned, Scanned
    <2>5. CASE UNCHANGED snap /\ doomed' \subseteq doomed
        BY <1>2, <2>5 DEF DoomedScanned, Scanned
    <2> QED BY <1>2, <2>1, <2>2, <2>3, <2>4, <2>5, PassMoves
<1>3. Settling /\ DoomedScanned /\ [Next]_vars => DoomedScanned'
    BY <1>2 DEF Settling
<1> QED BY <1>1, <1>3, SettlingInvariant, LoweredInvariant, RemainderInvariant, PTL
        DEF Working, Spec

RoutePlace(r) == <<Home[r[1]], r[2]>>
PairPlace(x) == <<Home[x[1]], Lower[x[2]]>>

\* What a pass has still to take down is stale, as the reconciler sees it.
LEMMA DoomedIsStale ==
    ASSUME Working, NEW r \in doomed
    PROVE  Stage = "reconciled" /\ Promise!Stale(snap, RoutePlace(r))
<1>1. pc \in {"delete", "purge", "create", "notify"}
    BY DEF Working, Settling, WorkFromSnapshot, Lowered, Typed, TypeOK
<1>2. Home[r[1]] \in Scanned(snap) /\ ~HostServed(snap, r[2])
    BY DEF Working, Settling, WorkFromSnapshot, DoomedScanned
<1> QED BY <1>1, <1>2 DEF Stage, Promise!Stale, Promise!Wants, RoutePlace, Scanned, HostServed,
                          Live

\* What a pass has still to put up is asked for, as the reconciler sees it.
LEMMA TodoIsAsked ==
    ASSUME Working, NEW x \in todo
    PROVE  Stage = "reconciled" /\ PairPlace(x) \in Promise!Asked(snap)
<1>1. pc \in {"delete", "purge", "create", "notify"}
    BY DEF Working, Settling, WorkFromSnapshot, Lowered, Typed, TypeOK
<1>2. x \in Tenant \X Address /\ Live(snap, x[1], x[2])
    BY DEF Working, Settling, WorkFromSnapshot, Lowered, Typed, TypeOK, Pair
<1> QED BY <1>1, <1>2 DEF Stage, Promise!Asked, Promise!Wants, PairPlace, Live

\* Which places are served, in terms of routes and of the pairs left.
LEMMA ServingIs ==
    \A s : s \in Serving <=> \/ \E r \in routes \ doomed : s = RoutePlace(r)
                             \/ \E x \in todo : s = PairPlace(x)
BY DEF Serving, RoutePlace, PairPlace

\* The same after a step.
LEMMA ServingIsNext ==
    \A s : s \in Serving' <=> \/ \E r \in routes' \ doomed' : s = RoutePlace(r)
                              \/ \E x \in todo' : s = PairPlace(x)
BY DEF Serving, RoutePlace, PairPlace

\* Places served are places.
LEMMA ServingIsPlaces == ASSUME Typed PROVE Serving \subseteq Promise!Place
<1>1. ASSUME NEW r \in Route PROVE RoutePlace(r) \in Promise!Place
    BY DEF RoutePlace, Promise!Place, Route
<1>2. ASSUME NEW x \in Pair PROVE PairPlace(x) \in Promise!Place
    BY DEF PairPlace, Promise!Place, Pair
<1> QED BY <1>1, <1>2, ServingIs DEF Typed, TypeOK

\* An empty table and an idle pass are the reconciler's.
LEMMA InitReconciler == Init => Promise!Init
<1> SUFFICES ASSUME Init PROVE Promise!Init
    OBVIOUS
<1>1. Serving = {}
    BY ServingIs DEF Init
<1>2. Stage = "idle"
    BY DEF Init, Stage
<1>3. Promise!Empty = Empty
    BY DEF Promise!Empty, Empty
<1> QED BY <1>1, <1>2, <1>3 DEF Init, Promise!Init

Promised == Promise!Next \/ UNCHANGED Promise!vars

\* A step that leaves the cluster and the pass alone writes rows at most.
LEMMA TableReconciler ==
    ASSUME Working, RemovedRowsAreEmpty', Typed', [Next]_vars,
           UNCHANGED <<routes, pc, snap, doomed, todo, clean, missed>>
    PROVE  Promised
<1>1. UNCHANGED <<Serving, Stage>>
    BY DEF Serving, Stage
<1>2. ASSUME NEW t \in Tenant, db' = [db EXCEPT ![t] = db'[t]], db' # db
      PROVE  Promised
    <2>1. CASE db'[t] = NoRow
        BY <1>1, <1>2, <2>1 DEF Promise!DropRow, Promise!Next, Promised
    <2>2. CASE db'[t] # NoRow
        <3>1. db'[t] \in Promise!Row /\ (db'[t].removed => db'[t].hosts = {})
            BY <2>2 DEF Typed, TypeOK, Promise!Row, Row, RemovedRowsAreEmpty
        <3>2. Promise!WriteRow(t)
            BY <1>1, <1>2, <3>1 DEF Promise!WriteRow
        <3> QED BY <3>2 DEF Promise!Next, Promised
    <2> QED BY <2>1, <2>2
<1>3. CASE UNCHANGED db
    BY <1>1, <1>3 DEF Promise!vars, Promised
<1>4. db \in [Tenant -> Row \cup {NoRow}]
    BY DEF Working, Lowered, Typed, TypeOK
<1>5. ASSUME NEW p \in Request, Stores(p)
      PROVE  \E t \in Tenant : db' = [db EXCEPT ![t] = db'[t]]
    <2>1. req[p].tenant \in Tenant
        BY <1>5 DEF Stores, Update, Insert, Working, Lowered, Typed, RequestsWellFormed
    <2> QED BY <1>4, <1>5, <2>1 DEF Stores, Write
<1>6. ASSUME NEW t \in Tenant, RegisterTenant(t) \/ ForgetTenant(t) \/ PurgeTenant(t)
      PROVE  db' = [db EXCEPT ![t] = db'[t]]
    BY <1>4, <1>6 DEF RegisterTenant, ForgetTenant, PurgeTenant
<1>7. ~FindAll
    BY DEF FindAll
<1> QED BY <1>2, <1>3, <1>5, <1>6, <1>7, TableWriters

\* Looking at the table.
LEMMA LookReconciler ==
    ASSUME Working, FindAll PROVE Promised
<1>1. UNCHANGED Serving
    BY DEF FindAll, Serving, table
<1>2. Stage = "idle" /\ Stage' = "looked"
    BY DEF FindAll, Stage
<1>3. Promise!Look
    BY <1>1, <1>2 DEF FindAll, Promise!Look, table
<1> QED BY <1>3 DEF Promise!Next, Promised

\* Listing the routes is the reconciliation: from then on the outcome is decided.
LEMMA ListReconciler ==
    ASSUME Working, GetManageableRoutes PROVE Promised
<1>1. Stage = "looked" /\ Stage' = "reconciled"
    BY DEF GetManageableRoutes, Stage
<1>2. doomed = {} /\ todo = {}
    BY DEF GetManageableRoutes, Working, Settling, WorkFromSnapshot
<1>3. /\ routes' = routes
      /\ doomed' = {r \in routes : Home[r[1]] \in Scanned(snap) /\ ~HostServed(snap, r[2])}
      /\ todo' = {x \in Pair : Live(snap, x[1], x[2])}
    BY DEF GetManageableRoutes, table
<1>4. ASSUME NEW r \in routes
      PROVE  r \in doomed' <=> Promise!Stale(snap, RoutePlace(r))
    BY <1>3 DEF Promise!Stale, Promise!Wants, RoutePlace, Scanned, HostServed, Live
<1>5. ASSUME NEW s
      PROVE  s \in Promise!Asked(snap) <=> \E x \in todo' : s = PairPlace(x)
    BY <1>3 DEF Promise!Asked, Promise!Wants, PairPlace, Live, Pair
<1>6. Serving' = {s \in Serving : ~Promise!Stale(snap, s)} \cup Promise!Asked(snap)
    <2>1. ASSUME NEW s
          PROVE  s \in Serving' <=> (s \in Serving /\ ~Promise!Stale(snap, s))
                                    \/ s \in Promise!Asked(snap)
        <3>1. s \in Serving <=> \E r \in routes : s = RoutePlace(r)
            BY <1>2, ServingIs
        <3>2. s \in Serving' <=> \/ \E r \in routes : r \notin doomed' /\ s = RoutePlace(r)
                                 \/ \E x \in todo' : s = PairPlace(x)
            BY <1>3, ServingIsNext
        <3> QED BY <1>4, <1>5, <3>1, <3>2
    <2> QED BY <2>1
<1>7. Promise!Reconcile
    BY <1>1, <1>6 DEF GetManageableRoutes, Promise!Reconcile, table
<1> QED BY <1>7 DEF Promise!Next, Promised

\* A deletion does what was decided, or a stale host stays.
LEMMA DeletionReconciler ==
    ASSUME Working, NEW r \in Route, DeleteRoute(r) \/ DeleteRouteFails(r) PROVE Promised
<1>1. /\ r \in doomed /\ doomed' = doomed \ {r}
      /\ UNCHANGED <<db, snap, pc, todo, missed>>
    BY DEF DeleteRoute, DeleteRouteFails, table, history
<1>2. UNCHANGED Stage
    BY <1>1 DEF Stage
<1>3. CASE DeleteRoute(r)
    <2>1. routes' \ doomed' = routes \ doomed /\ UNCHANGED clean
        BY <1>1, <1>3 DEF DeleteRoute, history
    <2>2. UNCHANGED Serving
        BY <1>1, <2>1 DEF Serving
    <2> QED BY <1>1, <1>2, <2>1, <2>2 DEF Promise!vars, Promised
<1>4. CASE DeleteRouteFails(r)
    <2>1. routes' = routes /\ clean' = FALSE
        BY <1>4 DEF DeleteRouteFails, table
    <2>2. Serving' = Serving \cup {RoutePlace(r)} \/ Serving' = Serving
        <3>1. CASE r \in routes
            <4>1. \A s : s \in Serving' <=> s \in Serving \/ s = RoutePlace(r)
                BY <1>1, <2>1, <3>1, ServingIs, ServingIsNext
            <4> QED BY <4>1
        <3>2. CASE r \notin routes
            BY <1>1, <2>1, <3>2 DEF Serving
        <3> QED BY <3>1, <3>2
    <2>3. RoutePlace(r) \in Promise!Place
        BY DEF RoutePlace, Route, Promise!Place
    <2>4. Stage = "reconciled" /\ Promise!Stale(snap, RoutePlace(r))
        BY <1>1, DoomedIsStale
    <2>5. CASE Serving' = Serving \cup {RoutePlace(r)}
        <3>1. Promise!Keep(RoutePlace(r))
            BY <1>1, <1>2, <2>1, <2>4, <2>5 DEF Promise!Keep
        <3> QED BY <2>3, <3>1 DEF Promise!Next, Promised
    <2>6. CASE Serving' = Serving
        <3>1. Promise!Lose(RoutePlace(r))
            BY <1>1, <1>2, <2>1, <2>6 DEF Promise!Lose
        <3> QED BY <2>3, <3>1 DEF Promise!Next, Promised
    <2> QED BY <2>2, <2>5, <2>6
<1> QED BY <1>3, <1>4

\* A creation does what was decided, or the host is not served.
LEMMA CreationReconciler ==
    ASSUME Working, NEW x \in Pair, CreateRoute(x[1], x[2]) \/ CreateRouteFails(x[1], x[2])
    PROVE  Promised
<1>1. /\ x \in todo /\ todo' = todo \ {x} /\ pc = "create"
      /\ UNCHANGED <<db, snap, pc, doomed, missed>>
    BY DEF CreateRoute, CreateRouteFails, table, history, Pair
<1>2. UNCHANGED Stage /\ doomed = {}
    BY <1>1 DEF Stage, Working, RemainderListed
<1>3. CASE CreateRoute(x[1], x[2])
    <2>1. UNCHANGED clean
        BY <1>3 DEF CreateRoute, history
    <2>2. \E r \in routes' : PairPlace(x) = RoutePlace(r)
        <3>1. CASE HostPresent(Home[x[1]], x[2]) /\ UNCHANGED routes
            <4> PICK r \in routes : Home[r[1]] = Home[x[1]] /\ r[2] = x[2]
                BY <3>1 DEF HostPresent
            <4>1. Lower[x[2]] = x[2]
                BY DEF Working, Lowered, HostsLowerCase
            <4> QED BY <3>1, <4>1 DEF PairPlace, RoutePlace
        <3>2. CASE routes' = routes \cup {<<x[1], Lower[x[2]]>>}
            <4> DEFINE r == <<x[1], Lower[x[2]]>>
            <4>1. r \in routes' /\ r[1] = x[1] /\ r[2] = Lower[x[2]]
                BY <3>2
            <4> HIDE DEF r
            <4> QED BY <4>1 DEF PairPlace, RoutePlace
        <3> QED BY <1>3, <3>1, <3>2 DEF CreateRoute
    <2>3. /\ routes \subseteq routes'
          /\ \A r \in routes' \ routes : RoutePlace(r) = PairPlace(x)
        BY <1>3 DEF CreateRoute, RoutePlace, PairPlace
    <2>4. \A s : s \in Serving' <=> s \in Serving
        BY <1>1, <1>2, <2>2, <2>3, ServingIs, ServingIsNext
    <2>5. UNCHANGED Serving
        BY <2>4 DEF Serving
    <2> QED BY <1>1, <1>2, <2>1, <2>5 DEF Promise!vars, Promised
<1>4. CASE CreateRouteFails(x[1], x[2])
    <2>1. routes' = routes /\ clean' = FALSE
        BY <1>4 DEF CreateRouteFails, table
    <2>2. \A s : s \in Serving <=> s \in Serving' \/ s = PairPlace(x)
        BY <1>1, <1>2, <2>1, ServingIs, ServingIsNext
    <2>3. Serving' = Serving \/ Serving' = Serving \ {PairPlace(x)}
        <3>1. CASE PairPlace(x) \in Serving'
            BY <2>2, <3>1 DEF Serving
        <3>2. CASE PairPlace(x) \notin Serving'
            BY <2>2, <3>2
        <3> QED BY <3>1, <3>2
    <2>4. PairPlace(x) \in Promise!Place
        BY DEF PairPlace, Pair, Promise!Place
    <2>5. Promise!Lose(PairPlace(x))
        BY <1>1, <1>2, <2>1, <2>3 DEF Promise!Lose
    <2> QED BY <2>4, <2>5 DEF Promise!Next, Promised
<1> QED BY <1>3, <1>4

\* Leaving the work undone is an interruption.
LEMMA InterruptReconciler ==
    ASSUME Working, Typed', Leave, UNCHANGED <<db, routes, clean>>, missed' = TRUE
    PROVE  Promised
<1>1. Stage' = "idle" /\ snap' = Promise!Empty
    BY DEF Leave, Stage, Promise!Empty, Empty
<1>2. \A s : s \in Serving' <=> \E r \in routes : s = RoutePlace(r)
    BY ServingIsNext DEF Leave
<1>3. ASSUME NEW s \in Serving' \ Serving
      PROVE  Stage = "reconciled" /\ Promise!Stale(snap, s)
    <2> PICK r \in routes : s = RoutePlace(r)
        BY <1>2
    <2>1. r \in doomed
        BY ServingIs
    <2> QED BY <2>1, DoomedIsStale
<1>4. ASSUME NEW s \in Serving \ Serving'
      PROVE  Stage = "reconciled" /\ s \in Promise!Asked(snap)
    <2>1. PICK x \in todo : s = PairPlace(x)
        BY <1>2, ServingIs
    <2> QED BY <2>1, TodoIsAsked
<1>5. Serving' \subseteq Promise!Place
    <2>1. ASSUME NEW r \in routes PROVE RoutePlace(r) \in Promise!Place
        BY DEF RoutePlace, Promise!Place, Working, Lowered, Typed, TypeOK, Route
    <2> QED BY <1>2, <2>1
<1>6. Promise!Interrupt
    BY <1>1, <1>3, <1>4, <1>5 DEF Promise!Interrupt
<1> QED BY <1>6 DEF Promise!Next, Promised

\* Notifying ends a pass that has nothing left to do.
LEMMA RestReconciler ==
    ASSUME Working, Notify PROVE Promised
<1>1. Stage = "reconciled" /\ Stage' = "idle" /\ snap' = Promise!Empty
    BY DEF Notify, Leave, Stage, Promise!Empty, Empty
<1>2. doomed = {} /\ todo = {} /\ doomed' = {} /\ todo' = {} /\ routes' = routes
    BY DEF Notify, Leave, table, Working, RemainderListed
<1>3. UNCHANGED Serving
    BY <1>2 DEF Serving
<1>4. Promise!Rest
    BY <1>1, <1>3 DEF Notify, Promise!Rest, table, history
<1> QED BY <1>4 DEF Promise!Next, Promised

\* A route that disappears by other hands is a host no longer served.
LEMMA LostReconciler ==
    ASSUME Working, NEW r \in Route, RouteLost(r) PROVE Promised
<1>1. /\ routes' = routes \ {r} /\ clean' = FALSE
      /\ UNCHANGED <<db, pc, snap, doomed, todo, missed>>
    BY DEF RouteLost, pass
<1>2. UNCHANGED Stage
    BY <1>1 DEF Stage
<1>3. /\ \A s : s \in Serving' => s \in Serving
      /\ \A s : s \in Serving => s \in Serving' \/ s = RoutePlace(r)
    BY <1>1, ServingIs, ServingIsNext
<1>4. Serving' \in {Serving, Serving \ {RoutePlace(r)}}
    <2>1. CASE RoutePlace(r) \in Serving'
        <3>1. \A s : s \in Serving' <=> s \in Serving
            BY <1>3, <2>1
        <3>2. Serving' = Serving
            BY <3>1 DEF Serving
        <3> QED BY <3>2
    <2>2. CASE RoutePlace(r) \notin Serving'
        <3>1. \A s : s \in Serving' <=> s \in Serving \ {RoutePlace(r)}
            BY <1>3, <2>2
        <3>2. Serving' = Serving \ {RoutePlace(r)}
            BY <3>1
        <3> QED BY <3>2
    <2> QED BY <2>1, <2>2
<1>5. RoutePlace(r) \in Promise!Place
    BY DEF RoutePlace, Route, Promise!Place
<1>6. Promise!Lose(RoutePlace(r))
    BY <1>1, <1>2, <1>4 DEF Promise!Lose
<1> QED BY <1>5, <1>6 DEF Promise!Next, Promised

\* What a pass goes through between its calls changes nothing.
LEMMA MovesReconciler ==
    ASSUME Receive \/ DeletedAll \/ PurgedAll \/ CreatedAll
    PROVE  Promised
<1>1. UNCHANGED Stage
    BY DEF Receive, DeletedAll, PurgedAll, CreatedAll, Stage
<1>2. UNCHANGED <<db, routes, snap, doomed, todo, clean, missed>>
    BY DEF Receive, DeletedAll, PurgedAll, CreatedAll, table, history
<1>3. UNCHANGED Serving
    BY <1>2 DEF Serving
<1> QED BY <1>1, <1>2, <1>3 DEF Promise!vars, Promised

\* Every step is one of the reconciler, or changes nothing it can see.
LEMMA NextReconciler ==
    Working /\ Working' /\ Marked' /\ [Next]_vars => [Promise!Next]_(Promise!vars)
<1> SUFFICES ASSUME Working, Working', Marked', [Next]_vars PROVE Promised
    BY DEF Promised
<1> USE DEF table, pass, history, bounds
<1>0. Typed' /\ RemovedRowsAreEmpty'
    BY DEF Marked
<1>1. ASSUME UNCHANGED <<routes, pc, snap, doomed, todo, clean, missed>> PROVE Promised
    BY <1>0, <1>1, TableReconciler
<1>2. CASE StartRequest
    BY <1>1, <1>2 DEF StartRequest, Put, Ask, Begin, RegisterTenant, ForgetTenant
<1>3. ASSUME NEW p \in Request, RequestStep(p) \/ RequestFails(p)
      PROVE  Promised
    BY <1>1, <1>3 DEF RequestStep, RequestFails, Find, Select, Update, Insert, Announce, Answer,
                      FindFails, UpsertFails
<1>4. CASE AutoSync \/ UNCHANGED vars
    BY <1>1, <1>4 DEF AutoSync, vars
<1>5. CASE PassStep
    <2>1. ASSUME NEW t \in Tenant, PurgeTenant(t) PROVE Promised
        BY <1>1, <2>1 DEF PurgeTenant
    <2> QED BY <1>5, <2>1, LookReconciler, ListReconciler, DeletionReconciler,
               CreationReconciler, RestReconciler, MovesReconciler
            DEF PassStep
<1>6. CASE PassFails
    <2>1. ASSUME NEW t \in Tenant, PurgeFails(t) PROVE Promised
        BY <1>1, <2>1 DEF PurgeFails
    <2>2. CASE GiveUp
        BY <1>0, <2>2, InterruptReconciler DEF GiveUp
    <2> QED BY <1>6, <2>1, <2>2, DeletionReconciler, CreationReconciler DEF PassFails
<1>7. CASE Crash
    BY <1>0, <1>7, InterruptReconciler DEF Crash
<1> QED BY <1>2, <1>3, <1>4, <1>5, <1>6, <1>7, LostReconciler DEF Next

(* A pass, spread over many calls that requests, failures and crashes      *)
(* interleave with, is one step of the abstract reconciler: what the       *)
(* cluster finally serves is decided by the table as it was read, at the   *)
(* moment the routes are listed, and only recorded failures undo it.       *)
THEOREM PassIsOneStep == Spec => ReconcilesInOneStep
<1>1. Working => Marked
    BY DEF Working, Settling
<1> QED BY <1>1, InitReconciler, NextReconciler, WorkingInvariant, PTL
        DEF Spec, ReconcilesInOneStep, Promise!Spec
=============================================================================
