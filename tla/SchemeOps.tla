----------------------------- MODULE SchemeOps -----------------------------
(***************************************************************************)
(* What the synchronizer computes from a tenant's scheme, as operators:    *)
(* the normalisation of a scheme before it is stored, the generation of    *)
(* default addresses, and the views that handlers answer with.             *)
(*                                                                         *)
(* A scheme maps sites to services to lists of hosts (partial functions,   *)
(* as the Go maps are).  An address counts by its host alone; a host is a  *)
(* name and a zone, so that generated hosts are prefix and domain.  Where  *)
(* the code takes the first of something it got from a map, the operator   *)
(* gives the set of what it may take.                                      *)
(***************************************************************************)
EXTENDS Naturals, Sequences, FiniteSets

CONSTANTS
    Namespace, Home,     \* namespaces; the one the service runs in
    Public,              \* Public[n]: services annotated with an alias prefix
    ServiceId,           \* ServiceId[s]: the id a service is annotated with, or ""
    Names,               \* service names in the order they are tried
    PlatformZone         \* the zone of hosts of tenants without a domain

Default == "default"
Shopping == "shopping-frontend"
Host(name, zone) == [name |-> name, zone |-> zone]
NoHost == Host("", "")

HostType == [name : STRING, zone : STRING]
RouteType == [ns : Namespace, service : STRING, host : HostType, id : STRING]
IsServices(services) == services \in [DOMAIN services -> Seq(HostType)]
IsScheme(sites) ==
    /\ sites = [x \in DOMAIN sites |-> sites[x]]
    /\ \A x \in DOMAIN sites : IsServices(sites[x])
IsRow(row) ==
    /\ row \in [sites : {row.sites}, active : BOOLEAN, namespaces : Seq(Namespace),
                domain : STRING, service : STRING, name : STRING]
    /\ IsScheme(row.sites)

ElementsOf(s) == {s[i] : i \in DOMAIN s}
Without(f, k) == [x \in DOMAIN f \ {k} |-> f[x]]
With(f, k, v) == [x \in DOMAIN f \union {k} |-> IF x = k THEN v ELSE f[x]]
Over(f, g) == [x \in DOMAIN f \union DOMAIN g |-> IF x \in DOMAIN f THEN f[x] ELSE g[x]]
AppendIfMissing(s, e) == IF e \in ElementsOf(s) THEN s ELSE Append(s, e)

\* The namespaces of a tenant with the own one, as every operation takes them.
Around(namespaces) == ElementsOf(AppendIfMissing(namespaces, Home))

RoutesIn(routes, namespaces) == {r \in routes : r.ns \in namespaces}
HostsOfRoutes(routes) == {r.host : r \in routes}

HostsOf(sites) ==
    UNION {UNION {ElementsOf(sites[x][s]) : s \in DOMAIN sites[x]} : x \in DOMAIN sites}

-----------------------------------------------------------------------------
(* Elements are removed from a slice while it is iterated over: the loop   *)
(* keeps its length and reads the array, each removal shifts the array     *)
(* below the local length.  The owner of the slice keeps its length and    *)
(* sees the shifted array.                                                 *)

Shift(array, i, len) == [k \in DOMAIN array |-> IF k >= i /\ k < len THEN array[k + 1] ELSE array[k]]

Whole(list) == [array |-> list, len |-> Len(list), gone |-> FALSE]

Removal(st, i, bad, deleteLast) ==
    CASE st.array[i] \notin bad -> st
      [] st.array[i] \in bad /\ deleteLast /\ st.len = 1 -> [st EXCEPT !.gone = TRUE]
      [] OTHER -> IF i < st.len
                  THEN [st EXCEPT !.array = Shift(st.array, i, st.len), !.len = st.len - 1]
                  ELSE [st EXCEPT !.len = i - 1]

RemovalLoop(list, bad, deleteLast) ==
    LET step[i \in 0..Len(list)] ==
            IF i = 0 THEN Whole(list) ELSE Removal(step[i - 1], i, bad, deleteLast)
    IN step[Len(list)]

FilterFirstOnly(services, general) ==
    [s \in {x \in DOMAIN services :
               services[x] = <<>> \/ services[x][1] \notin general} |-> services[s]]

\* filterGeneralRoutes: a service whose one address is general goes.
FilterServices(services, general) ==
    LET out == [s \in DOMAIN services |-> RemovalLoop(services[s], general, TRUE)]
    IN [s \in {x \in DOMAIN services : ~out[x].gone} |-> out[s].array]

FilterGeneralRoutes(sites, general) ==
    [x \in DOMAIN sites |-> FilterServices(sites[x], general)]

-----------------------------------------------------------------------------
(* getCompositeNamespaceForTenant.                                         *)

OthersRemoved(namespaces) == RemovalLoop(namespaces, Namespace \ {Home}, FALSE)
HomeRemoved(namespaces) == RemovalLoop(namespaces, {Home}, FALSE)

DropFirst(namespaces) == IF namespaces = <<>> THEN <<>> ELSE Tail(namespaces)

NamespacesAfter(namespaces) == HomeRemoved(namespaces).array

\* Two namespaces or more must form a chain from the own one, each with a
\* configmap that names its parent; one alone is taken for a child.
Chain(children, parent) ==
    \E order \in [1..Cardinality(children) -> children] :
        /\ ElementsOf(order) = children
        /\ \A i \in DOMAIN order : parent[order[i]] = IF i = 1 THEN Home ELSE order[i - 1]

HierarchyBuilt(namespaces, parent) ==
    LET rest == HomeRemoved(namespaces) IN
    rest.len > 1 => Chain({rest.array[i] : i \in 1..rest.len}, parent)

-----------------------------------------------------------------------------
(* Generated addresses.                                                    *)

PublicIn(namespaces) == UNION {Public[n] : n \in namespaces}

\* Without a domain the host of a general route is taken, whichever comes
\* first, or nothing.
GeneratedHosts(service, domain, routes) ==
    IF domain # "" THEN {Host(service, domain)}
    ELSE LET found == {r \in routes : r.service = service}
         IN IF found = {} THEN {NoHost} ELSE HostsOfRoutes(found)

Generated(domain, namespaces, routes) ==
    LET services == PublicIn(namespaces) IN
    {f \in [services -> {<<h>> : h \in UNION {GeneratedHosts(s, domain, routes) : s \in services}}] :
        \A s \in services : f[s][1] \in GeneratedHosts(s, domain, routes)}

ShoppingRoute(domain, tenant) ==
    <<IF domain # "" THEN Host("", domain) ELSE Host(tenant, PlatformZone)>>

NewUrlsWhateverStatus(row, stored, routes) ==
    IF stored = {} THEN {row.sites}
    ELSE {With(row.sites, Default, services) :
             services \in Generated(row.domain, Around(row.namespaces), routes)}

\* generateNewUrlsForServicesIfNecessary: an inactive tenant whose domain
\* changed gets its default site anew.
WithNewUrls(row, stored, routes) ==
    IF row.active \/ Default \notin DOMAIN row.sites \/ stored = {}
    THEN {row.sites}
    ELSE LET old == CHOOSE o \in stored : TRUE
             bases == IF old.domain = row.domain THEN {row.sites[Default]}
                      ELSE Generated(row.domain, Around(row.namespaces), routes)
             Shop(services) == IF Shopping \in DOMAIN services
                               THEN With(services, Shopping, ShoppingRoute(row.domain, row.name))
                               ELSE services
         IN IF old.domain = row.domain /\ old.name = row.name THEN {row.sites}
            ELSE {With(row.sites, Default, Shop(services)) : services \in bases}

-----------------------------------------------------------------------------
(* The shopping service is stored under a name of its own.                 *)

FirstName(taken) == Names[1]

UniqueName(taken) ==
    Names[CHOOSE i \in DOMAIN Names :
             Names[i] \notin taken /\ \A j \in 1..(i - 1) : Names[j] \in taken]

SitesWith(service, sites) == {x \in DOMAIN sites : service \in DOMAIN sites[x]}

ChangeServiceName(from, to, site, sites) ==
    [sites EXCEPT ![site] = With(Without(sites[site], from), to, sites[site][from])]

\* The name given, or the one stored before, or a new one.
ServiceNameFor(row, stored, taken) ==
    IF row.service # "" THEN row.service
    ELSE IF \E o \in stored : o.service # "" THEN (CHOOSE o \in stored : TRUE).service
    ELSE UniqueName(taken)

WithShoppingRenamed(row, stored, taken) ==
    LET named == [row EXCEPT !.service = ServiceNameFor(row, stored, taken)] IN
    IF SitesWith(Shopping, row.sites) = {} THEN {row}
    ELSE {[named EXCEPT !.sites = ChangeServiceName(Shopping, named.service, x, @)]
              : x \in SitesWith(Shopping, row.sites)}

\* Everything Upsert may store for row: nothing when the hierarchy of its
\* namespaces cannot be built.
Normalised(row, stored, routes, parent, taken) ==
    IF ~HierarchyBuilt(row.namespaces, parent) THEN {}
    ELSE LET placed == [row EXCEPT !.namespaces = NamespacesAfter(@)]
             around == RoutesIn(routes, Around(placed.namespaces))
             Filtered(sites) == FilterGeneralRoutes(sites, HostsOfRoutes(around))
         IN UNION {WithShoppingRenamed([placed EXCEPT !.sites = Filtered(sites)], stored, taken)
                       : sites \in WithNewUrls(placed, stored, around)}

-----------------------------------------------------------------------------
(* Views.                                                                  *)

\* MergeDatabaseSchemeWithGeneralRoutes: every site has the general services
\* and the tenant's over them.  Of two general routes one wins.
GeneralServices(routes) ==
    LET services == {r.service : r \in routes} IN
    {f \in [services -> {<<h>> : h \in HostsOfRoutes(routes)}] :
        \A s \in services : \E r \in routes : r.service = s /\ f[s] = <<r.host>>}

MergedSchemes(row, routes) ==
    {[x \in DOMAIN row.sites |-> Over(row.sites[x], services)] : services \in GeneralServices(routes)}

AnySiteOfHost(sites, host) ==
    {x \in DOMAIN sites : host \in HostsOf([y \in {x} |-> sites[x]])}

\* extractSiteByHost: the default site before any other.
SitesOfHost(sites, host) ==
    LET found == {x \in DOMAIN sites : host \in HostsOf([y \in {x} |-> sites[x]])} IN
    IF Default \in found THEN {Default} ELSE found

\* GetAnnotatedRoutes: the scheme of an inactive tenant is completed with
\* generated addresses, the shopping service is left out.
SchemesShown(row, site, routes) ==
    LET own == IF site \in DOMAIN row.sites THEN row.sites[site] ELSE <<>>
        shown == IF row.active THEN {own}
                 ELSE {Over(own, services) :
                          services \in Generated(row.domain, Around(row.namespaces), routes)}
    IN {Without(services, row.service) : services \in shown}

OwnRoutes(services) ==
    UNION {{[service |-> s, host |-> services[s][i], id |-> "", general |-> FALSE]
                : i \in DOMAIN services[s]} : s \in DOMAIN services}
GeneralRoutesOf(routes) ==
    {[service |-> r.service, host |-> r.host, id |-> r.id, general |-> TRUE] : r \in routes}

\* filterRoutes groups by the route's id or service, and takes one of the
\* highest priority: a general route has the lowest.
GroupOf(r) == IF r.id # "" THEN r.id ELSE r.service
NoPriority(r) == 0
Priority(r) == IF r.general THEN 0 ELSE 1

Leading(routes) ==
    {r \in routes : \A q \in routes : GroupOf(q) = GroupOf(r) => Priority(q) <= Priority(r)}

\* resolveField: the route's annotation, then the service's, then the name.
IdShown(r) ==
    IF r.id # "" THEN r.id
    ELSE IF ServiceId[r.service] # "" THEN ServiceId[r.service] ELSE r.service

\* The entries a site may be answered with: one per group, of those leading.
AnnotatedRoutes(row, site, routes) ==
    UNION {Leading(OwnRoutes(services) \union GeneralRoutesOf(routes))
               : services \in SchemesShown(row, site, routes)}

\* The default site that is generated when a tenant has no sites: the
\* annotated routes by the id they are shown under.
DefaultSites(row, routes) ==
    LET entries == AnnotatedRoutes(row, Default, routes)
        ids == {IdShown(r) : r \in entries}
    IN {[x \in {Default} |-> f] : f \in {g \in [ids -> {<<r.host>> : r \in entries}] :
           \A id \in ids : \E r \in entries : IdShown(r) = id /\ g[id] = <<r.host>>}}

RealmOwnHosts(row, routes) == HostsOf(row.sites)

\* GetRealm: hosts of the whole scheme and of general routes.
RealmHosts(row, routes) == HostsOf(row.sites) \union HostsOfRoutes(routes)
=============================================================================
