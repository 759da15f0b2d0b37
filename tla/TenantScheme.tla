---------------------------- MODULE TenantScheme ----------------------------
(***************************************************************************)
(* The life of one tenant's row as requests shape it, one request at a     *)
(* time (SiteSync interleaves them): PUT and status changes normalise the  *)
(* row, a deletion of the routes writes it as it is, restoring a tenant    *)
(* without sites generates them.  Meanwhile general routes, configmaps and *)
(* services of the cluster come and go.  Reading handlers are the views of *)
(* SchemeOps; the properties relate what they answer to what was asked.    *)
(***************************************************************************)
EXTENDS SchemeOps

CONSTANTS
    Bodies,          \* rows a PUT may bring
    GeneralRoutes,   \* general routes there may be: namespace, service, host, id
    ParentMaps       \* parents the configmaps of namespaces may name;
                     \* "missing" when there is no configmap

ASSUME SchemeAssumption ==
    /\ Home \in Namespace
    /\ DOMAIN ServiceId \subseteq STRING /\ Public \in [Namespace -> SUBSET DOMAIN ServiceId]
    /\ Names \in Seq(STRING) /\ Len(Names) > 1 /\ Names[1] # Names[2]
    /\ {"", PlatformZone} \subseteq STRING
    /\ GeneralRoutes \subseteq RouteType
    /\ \A body \in Bodies : IsRow(body)
    /\ "missing" \notin Namespace
    /\ ParentMaps \subseteq [Namespace -> Namespace \union {"missing", ""}]

VARIABLES
    stored,     \* the row: a set of at most one
    general,    \* general routes in the cluster
    parent,     \* the parent each namespace's baseline-version configmap names
    taken,      \* names of services in the own namespace
    request     \* the last request: what was asked, on which row, the answer

vars == <<stored, general, parent, taken, request>>
cluster == <<general, parent, taken>>

NoRequest == [op |-> "none", asked |-> {}, ok |-> TRUE]

Init ==
    /\ stored = {}
    /\ general \in SUBSET GeneralRoutes
    /\ parent \in ParentMaps
    /\ taken \in SUBSET {Names[1]}
    /\ request = NoRequest

Outcomes(row) == Normalised(row, stored, general, parent, taken)

\* Synchronizer.Upsert: an error leaves the table alone.
Upsert(op, row) ==
    /\ \/ \E new \in Outcomes(row) : stored' = {new}
       \/ Outcomes(row) = {} /\ UNCHANGED stored
    /\ request' = [op |-> op, asked |-> {row}, ok |-> Outcomes(row) # {}]
    /\ UNCHANGED cluster

Put(body) == Upsert("put", body)

\* ChangeTenantStatus: the whole row goes through Upsert again.
ChangeTenantStatus(active) ==
    \E row \in stored : Upsert("status", [row EXCEPT !.active = active])

InsertWithoutSites ==
    \E row \in stored :
        /\ stored' = stored \union {[row EXCEPT !.sites = <<>>]}
        /\ request' = [op |-> "delete", asked |-> {}, ok |-> TRUE]
        /\ UNCHANGED cluster

\* DeleteRoutes writes past Upsert.
DeleteRoutes ==
    \E row \in stored :
        /\ stored' = {[row EXCEPT !.sites = <<>>]}
        /\ request' = [op |-> "delete", asked |-> {}, ok |-> TRUE]
        /\ UNCHANGED cluster

\* RestoreTenantAlias and CreateTenantRoute: default sites when there are
\* none, then the status; each of the two writes may fail.
RestoreTenantAlias ==
    \E row \in stored :
        LET around == RoutesIn(general, Around(row.namespaces))
            drafts == IF row.sites # <<>> THEN {row}
                      ELSE {[row EXCEPT !.sites = sites] : sites \in DefaultSites(row, around)}
            mids == IF row.sites # <<>> THEN {row} ELSE UNION {Outcomes(d) : d \in drafts}
            After(mid) == Normalised([mid EXCEPT !.active = TRUE], {mid}, general, parent, taken)
        IN /\ IF mids = {} THEN UNCHANGED stored
              ELSE \E mid \in mids :
                      \/ \E new \in After(mid) : stored' = {new}
                      \/ After(mid) = {} /\ stored' = {mid}
           /\ request' = [op |-> "restore", asked |-> {},
                          ok |-> \E mid \in mids : After(mid) # {}]
           /\ UNCHANGED cluster

\* The cluster changes: a general route, a configmap, a service.
ClusterChanges ==
    /\ \/ \E r \in GeneralRoutes :
             /\ general' = IF r \in general THEN general \ {r} ELSE general \union {r}
             /\ UNCHANGED <<parent, taken>>
       \/ parent' \in ParentMaps /\ UNCHANGED <<general, taken>>
       \/ taken' = {Names[1]} \ taken /\ UNCHANGED <<general, parent>>
    /\ request' = NoRequest
    /\ UNCHANGED stored

Next ==
    \/ \E body \in Bodies : Put(body)
    \/ \E active \in BOOLEAN : ChangeTenantStatus(active)
    \/ DeleteRoutes \/ RestoreTenantAlias \/ ClusterChanges

Spec == Init /\ [][Next]_vars

-----------------------------------------------------------------------------
(* Properties.                                                             *)

TypeOK ==
    /\ Cardinality(stored) <= 1
    /\ general \subseteq GeneralRoutes
    /\ parent \in ParentMaps
    /\ \A row \in stored : IsRow(row)

GeneralAround(row) == RoutesIn(general, Around(row.namespaces))

\* No list of the scheme holds more than one general host.
FewGeneral(row) ==
    \A x \in DOMAIN row.sites : \A s \in DOMAIN row.sites[x] :
        Cardinality({i \in DOMAIN row.sites[x][s] :
                        row.sites[x][s][i] \in HostsOfRoutes(GeneralAround(row))}) <= 1

Upserted == request.op \in {"put", "status"} /\ request.ok

\* The row asked for keeps its own sites: nothing has them generated anew.
SitesKept(row) == row.active \/ Default \notin DOMAIN row.sites

\* The shopping service is stored over a service that has the row's service name.
StoredOver(asked, service) ==
    \E x \in SitesWith(Shopping, asked.sites) : service \in DOMAIN asked.sites[x] \ {Shopping}

(* The removal of general hosts never costs a tenant a host of its own, as *)
(* long as no list holds two general ones: the shifting of the array under *)
(* the loop duplicates entries and leaves general ones, but skips none.    *)
(* With two, <<G1, A, G2>> say, the service may go with an own host in it. *)
(* Only a service called like the row's service name may lose its hosts.   *)
OwnHostsKept ==
    Upserted =>
        \A asked \in request.asked, new \in stored :
            FewGeneral(asked) /\ SitesKept(asked) /\ ~StoredOver(asked, new.service)
            => HostsOf(asked.sites) \ HostsOfRoutes(GeneralAround(asked))
                   \subseteq HostsOf(new.sites)

(* An upsert never adds a host nobody asked for and nothing generates.     *)
NoForeignHost ==
    Upserted =>
        \A asked \in request.asked, new \in stored :
            SitesKept(asked) => HostsOf(new.sites) \subseteq HostsOf(asked.sites)

(* Taking the own namespace out of the list in place, and storing the list *)
(* afterwards, loses no namespace: the scan of the synchronization and the *)
(* realms see the same ones as asked for.                                  *)
NamespacesKept ==
    Upserted =>
        \A asked \in request.asked, new \in stored :
            Around(new.namespaces) = Around(asked.namespaces)

\* Where the shopping service may be once default addresses are generated.
ShoppingPlaces(row) ==
    SitesWith(Shopping, row.sites)
        \union {x \in {Default} : ~SitesKept(row) /\ Shopping \in PublicIn(Around(row.namespaces))}

(* What an upsert stored is a fixed point: while the cluster stays as it   *)
(* is, setting the status the row has changes nothing (lists with two      *)
(* general hosts or the own namespace twice, and two sites with a shopping *)
(* service, given or generated, take more rounds).                         *)
NormalisedOnce ==
    [][request.op \in {"put", "status"} /\ request.ok /\ request'.op = "status"
         /\ request'.ok
         /\ (\A a \in request.asked :
                 /\ FewGeneral(a)
                 /\ \A x, y \in ShoppingPlaces(a) : x = y
                 /\ Cardinality({i \in DOMAIN a.namespaces : a.namespaces[i] = Home}) <= 1)
         /\ request'.asked = stored
       => stored' = stored]_vars

(* The shopping service is stored under the row's service name, with its   *)
(* addresses, and a name that was made up belongs to no service.           *)
ShoppingRenamed ==
    [][request'.op \in {"put", "status"} /\ request'.ok /\ cluster' = cluster
       => \A asked \in request'.asked, new \in stored' :
            (\E x \in DOMAIN asked.sites : SitesWith(Shopping, asked.sites) = {x})
            /\ SitesKept(asked)
            /\ new.service # Shopping
            /\ SitesWith(Shopping, FilterGeneralRoutes(asked.sites,
                   HostsOfRoutes(GeneralAround(asked)))) # {}
            => /\ SitesWith(Shopping, new.sites) = {}
               /\ SitesWith(new.service, new.sites) # {}
               /\ new.service \in {asked.service} \union {o.service : o \in stored}
                  \/ new.service \notin taken]_vars

(* Tenants in front of what everybody has: a service for which an active   *)
(* tenant has hosts is shown with one of them, unless a general route has  *)
(* an id of its own.                                                       *)
TenantRouteFirst ==
    \A row \in stored : \A x \in DOMAIN row.sites :
        row.active =>
            \A r \in AnnotatedRoutes(row, x, {g \in GeneralAround(row) : g.id = ""}) :
                /\ r.service \in DOMAIN row.sites[x] /\ r.service # row.service
                /\ row.sites[x][r.service] # <<>>
                => r.host \in ElementsOf(row.sites[x][r.service])

(* Every address an active tenant's users are shown belongs to its realm:  *)
(* the identity provider may redirect to it.                               *)
ShownHostsAreInRealm ==
    \A row \in stored : \A x \in DOMAIN row.sites :
        row.active =>
            {r.host : r \in AnnotatedRoutes(row, x, GeneralAround(row))}
                \subseteq RealmHosts(row, GeneralAround(row))

(* A host of the scheme is found on a site that has it, the default one    *)
(* whenever that has it, whether general routes are merged or not.         *)
HostFindsItsSite ==
    \A row \in stored : \A merged \in MergedSchemes(row, GeneralAround(row)) :
        \A h \in HostsOf(row.sites) :
            /\ SitesOfHost(merged, h) # {}
            /\ \A x \in SitesOfHost(merged, h) :
                   h \in HostsOf([y \in {Default} \intersect DOMAIN row.sites |-> row.sites[y]])
                   => x = Default

(* src/README.md, Deactivate tenant: "Force site management to delete      *)
(* routes from cloud project".  A row a PUT just stored can be deactivated.*)
StoredCanBeDeactivated ==
    Upserted => \A row \in stored : Outcomes([row EXCEPT !.active = FALSE]) # {}
=============================================================================
