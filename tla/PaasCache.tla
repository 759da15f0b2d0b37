----------------------------- MODULE PaasCache -----------------------------
(***************************************************************************)
(* One of the three caches of PaasMediationClient (routes, services or     *)
(* configmaps: they have the same code, kind tells which one a behaviour   *)
(* is about).  A cache holds the objects of the namespaces somebody asked  *)
(* for.  It is filled by one loop, which takes messages from a bounded     *)
(* bus: an INIT signal makes it list the namespace anew, an event changes  *)
(* one object.  Websocket clients, one or more per namespace, put both on  *)
(* the bus.  Own calls to the cluster are written through as well.         *)
(*                                                                         *)
(* The cluster (paas-mediation) is external.  An object is known by its    *)
(* version: 0 when it is absent, otherwise the number of the change that   *)
(* made it.                                                                *)
(***************************************************************************)
EXTENDS Naturals, Sequences

CONSTANTS
    Namespace, Home,     \* namespaces; the one the service runs in
    Object, Required,    \* names of objects; those kept of configmaps
    Kinds,               \* the caches studied
    Reader,              \* threads that read the cache
    BusCap,              \* capacity of the bus: 50 in the code
    Polls,               \* attemptsInit + 1 looks at the cache before an error
    MaxClients,          \* bound on websocket clients
    MaxChanges,          \* bound on changes of the cluster
    MaxFaults            \* bound on lost connections, failed lists, lost answers

ASSUME NamesAssumption ==
    /\ Home \in Namespace
    /\ Required \subseteq Object
    /\ "INIT" \notin Object
    /\ Kinds \subseteq {"routes", "services", "configmaps"}
ASSUME BoundsAssumption ==
    /\ BusCap \in Nat \ {0} /\ Polls \in Nat \ {0} /\ MaxClients \in Nat \ {0}
    /\ MaxChanges \in Nat /\ MaxFaults \in Nat

VARIABLES
    kind,            \* which cache this behaviour is about
    cluster, past,   \* contents of namespaces: now, and all there have been
    conn, feed,      \* websocket clients, and the events each has not yet read
    bus,             \* cache.bus
    cached, cache,   \* the namespaces in the map, and their objects
    loop,            \* where the goroutine of syncingCache is
    write,           \* an own call that has still to be written through
    readers,         \* threads inside GetRoutes, GetServices, GetConfigMaps
    masked, raced,   \* history: namespaces emptied by a failed list, objects
                     \* overwritten with a version the cluster no longer had
    changes, faults  \* how much of each bound is used

world == <<kind, cluster, past, changes>>
wires == <<conn, feed>>
store == <<cached, cache, masked, raced>>
vars == <<world, wires, bus, store, loop, write, readers, faults>>

Client == 1..MaxClients
Blank == [o \in Object |-> 0]
Event(n, o, v) == [ns |-> n, obj |-> o, ver |-> v]
InitSignal(n) == Event(n, "INIT", 0)

\* Of configmaps only the two the service uses are listed and cached.
FilterRequired(o) == kind # "configmaps" \/ o \in Required
Listed(n) == [o \in Object |-> IF FilterRequired(o) THEN cluster[n][o] ELSE 0]

Failing == faults < MaxFaults /\ faults' = faults + 1

IdleLoop == [at |-> "idle", ns |-> Home, got |-> Blank, ok |-> TRUE, looks |-> 0]
NoWrite == [due |-> FALSE, msg |-> InitSignal(Home)]
NoPoll == [on |-> FALSE, ns |-> Home, looks |-> 0]
NoClient == [ns |-> Home, st |-> "none"]

-----------------------------------------------------------------------------
(* initCompositeCache: the own namespace is listed before anything runs; a *)
(* list that fails leaves it empty.                                        *)
Init ==
    /\ kind \in Kinds
    /\ cluster \in [Namespace -> [Object -> {0, 1}]]
    /\ past = [n \in Namespace |-> {Listed(n)}]
    /\ changes = 1
    /\ conn = [c \in Client |-> IF c = 1 THEN [ns |-> Home, st |-> "down"] ELSE NoClient]
    /\ feed = [c \in Client |-> <<>>]
    /\ bus = <<>>
    /\ cached = {Home}
    /\ \/ /\ cache = [n \in Namespace |-> IF n = Home THEN Listed(n) ELSE Blank]
          /\ masked = {} /\ faults = 0
       \/ /\ cache = [n \in Namespace |-> Blank]
          /\ masked = {Home} /\ faults = 1 /\ faults <= MaxFaults
    /\ raced = {}
    /\ loop = IdleLoop /\ write = NoWrite
    /\ readers = [r \in Reader |-> NoPoll]

-----------------------------------------------------------------------------
(* The cluster changes an object and sends an event to every open          *)
(* connection of its namespace.                                            *)

Open(c) == conn[c].st \in {"posting", "up"}

Publish(n, o, v) ==
    /\ changes < MaxChanges
    /\ changes' = changes + 1
    /\ cluster' = [cluster EXCEPT ![n][o] = v]
    /\ past' = [past EXCEPT ![n] =
                   IF FilterRequired(o) THEN @ \union {[Listed(n) EXCEPT ![o] = v]} ELSE @]
    /\ feed' = [c \in Client |-> IF Open(c) /\ conn[c].ns = n
                                 THEN Append(feed[c], Event(n, o, v)) ELSE feed[c]]

Fresh == changes + 1

ChangedByOthers(n, o, v) ==
    /\ Publish(n, o, v)
    /\ v = 0 => cluster[n][o] # 0
    /\ UNCHANGED <<kind, conn, bus, store, loop, write, readers, faults>>

-----------------------------------------------------------------------------
(* Own calls.  The answer is written through by a later step of the same   *)
(* thread; no answer, or one that cannot be decoded, writes nothing.       *)

Call(n, o, v) ==
    /\ kind # "configmaps"
    /\ ~write.due
    /\ Publish(n, o, v)
    /\ \/ write' = [due |-> TRUE, msg |-> Event(n, o, v)] /\ UNCHANGED faults
       \/ Failing /\ UNCHANGED write
    /\ UNCHANGED <<kind, conn, bus, store, loop, readers>>

CreateResource(n, o) == cluster[n][o] = 0 /\ Call(n, o, Fresh)
UpdateOrCreateResource(n, o) == Call(n, o, Fresh)
DeleteResource(n, o) == cluster[n][o] # 0 /\ Call(n, o, 0)

UpdateIgnoringDeletes(e) ==
    IF e.ns \in cached /\ FilterRequired(e.obj) /\ e.ver # 0
    THEN [cache EXCEPT ![e.ns][e.obj] = e.ver] ELSE cache

UpdateOwnNamespace(e) ==
    IF e.ns \in cached /\ FilterRequired(e.obj)
    THEN [cache EXCEPT ![Home][e.obj] = e.ver] ELSE cache

\* What updateRoutesCache and its two copies do with one object.
\* A namespace that is not cached is left alone.
UpdateCache(e) ==
    IF e.ns \in cached /\ FilterRequired(e.obj)
    THEN [cache EXCEPT ![e.ns][e.obj] = e.ver] ELSE cache

WriteThrough ==
    /\ write.due
    /\ cache' = UpdateCache(write.msg)
    /\ write' = NoWrite
    /\ LET e == write.msg IN
       raced' = IF e.ns \in cached /\ cluster[e.ns][e.obj] # e.ver
                THEN raced \union {<<e.ns, e.obj>>} ELSE raced
    /\ UNCHANGED <<world, wires, bus, cached, masked, loop, readers, faults>>

-----------------------------------------------------------------------------
(* Websocket clients.  A client that loses its connection dials again at   *)
(* once; what it had not read is gone.  After every connect it puts an     *)
(* INIT signal on the bus before any event, and waits while the bus is     *)
(* full.                                                                   *)

\* A refused dial changes nothing: it is a stuttering step.
Connect(c) ==
    /\ conn[c].st = "down"
    /\ conn' = [conn EXCEPT ![c].st = "posting"]
    /\ UNCHANGED <<world, feed, bus, store, loop, write, readers, faults>>

PostUnbounded(c) ==
    /\ conn[c].st = "posting"
    /\ conn' = [conn EXCEPT ![c].st = "up"]
    /\ bus' = Append(bus, InitSignal(conn[c].ns))
    /\ UNCHANGED <<world, feed, store, loop, write, readers, faults>>

PostNothing(c) ==
    /\ conn[c].st = "posting"
    /\ conn' = [conn EXCEPT ![c].st = "up"]
    /\ bus' = IF conn[c].ns \in cached THEN bus ELSE Append(bus, InitSignal(conn[c].ns))
    /\ Len(bus') <= BusCap
    /\ UNCHANGED <<world, feed, store, loop, write, readers, faults>>

PostInit(c) ==
    /\ conn[c].st = "posting"
    /\ Len(bus) < BusCap
    /\ conn' = [conn EXCEPT ![c].st = "up"]
    /\ bus' = Append(bus, InitSignal(conn[c].ns))
    /\ UNCHANGED <<world, feed, store, loop, write, readers, faults>>

Forward(c) ==
    /\ conn[c].st = "up"
    /\ feed[c] # <<>> /\ Len(bus) < BusCap
    /\ bus' = Append(bus, Head(feed[c]))
    /\ feed' = [feed EXCEPT ![c] = Tail(@)]
    /\ UNCHANGED <<world, conn, store, loop, write, readers, faults>>

ReadFails(c) ==
    /\ conn[c].st = "up"
    /\ Failing
    /\ conn' = [conn EXCEPT ![c].st = "down"]
    /\ feed' = [feed EXCEPT ![c] = <<>>]
    /\ UNCHANGED <<world, bus, store, loop, write, readers>>

\* CreateWebSocketClient: a new one each time, also for a namespace that has one.
NewClient(n) ==
    \E c \in Client :
        /\ conn[c].st = "none"
        /\ \A d \in Client : d < c => conn[d].st # "none"
        /\ conn' = [conn EXCEPT ![c] = [ns |-> n, st |-> "down"]]

-----------------------------------------------------------------------------
(* syncingCacheInternal: the one goroutine that takes from the bus.        *)

AfterUpdate == IF kind = "routes" THEN [IdleLoop EXCEPT !.at = "callback"] ELSE IdleLoop

TakeInit ==
    /\ loop.at = "idle" /\ bus # <<>> /\ Head(bus).obj = "INIT"
    /\ bus' = Tail(bus)
    /\ loop' = [IdleLoop EXCEPT !.at = "list", !.ns = Head(bus).ns]
    /\ UNCHANGED <<world, wires, store, write, readers, faults>>

\* updateConfigmapsCache goes on after "namespace not found", dereferences
\* nil and panics; the other two return.
TakeEvent ==
    /\ loop.at = "idle" /\ bus # <<>> /\ Head(bus).obj # "INIT"
    /\ bus' = Tail(bus)
    /\ cache' = UpdateCache(Head(bus))
    /\ loop' = IF kind = "configmaps" /\ Head(bus).ns \notin cached
               THEN [IdleLoop EXCEPT !.at = "panicked"] ELSE AfterUpdate
    /\ UNCHANGED <<world, wires, cached, masked, raced, write, readers, faults>>

ListNamespace ==
    /\ loop.at = "list"
    /\ loop' = [loop EXCEPT !.at = "install", !.got = Listed(loop.ns)]
    /\ UNCHANGED <<world, wires, bus, store, write, readers, faults>>

ListLeavesUncached ==
    /\ loop.at = "list"
    /\ Failing
    /\ loop' = AfterUpdate
    /\ UNCHANGED <<world, wires, bus, store, write, readers>>

\* After the last attempt performRequestWithRetry returns the outer, nil err:
\* an empty list.
ListFails ==
    /\ loop.at = "list"
    /\ Failing
    /\ loop' = [loop EXCEPT !.at = "install", !.got = Blank, !.ok = FALSE]
    /\ UNCHANGED <<world, wires, bus, store, write, readers>>

InstallKnown ==
    /\ loop.at = "install"
    /\ cache' = IF loop.ns \in cached THEN [cache EXCEPT ![loop.ns] = loop.got] ELSE cache
    /\ masked' = IF loop.ok THEN masked \ {loop.ns} ELSE masked \union {loop.ns}
    /\ loop' = AfterUpdate
    /\ UNCHANGED <<world, wires, bus, cached, raced, write, readers, faults>>

InstallNamespace ==
    /\ loop.at = "install"
    /\ cached' = cached \union {loop.ns}
    /\ cache' = [cache EXCEPT ![loop.ns] = loop.got]
    /\ masked' = IF loop.ok THEN masked \ {loop.ns} ELSE masked \union {loop.ns}
    /\ loop' = AfterUpdate
    /\ UNCHANGED <<world, wires, bus, raced, write, readers, faults>>

\* The callback of routes, SendRoutesToIDP, reads the namespaces of tenants,
\* in this goroutine; it ends at the first one it cannot have.
CallbackReadsCached ==
    /\ loop.at = "callback"
    /\ loop' = IdleLoop
    /\ UNCHANGED <<world, wires, bus, store, write, readers, faults>>

CallbackMisses(n) ==
    /\ loop.at = "callback" /\ n \notin cached
    /\ NewClient(n)
    /\ loop' = [IdleLoop EXCEPT !.at = "poll", !.ns = n]
    /\ UNCHANGED <<world, feed, bus, store, write, readers, faults>>

CallbackPolls ==
    /\ loop.at = "poll"
    /\ loop' = IF loop.ns \in cached \/ loop.looks + 1 = Polls THEN IdleLoop
               ELSE [loop EXCEPT !.looks = @ + 1]
    /\ UNCHANGED <<world, wires, bus, store, write, readers, faults>>

-----------------------------------------------------------------------------
(* GetRoutes, GetServices, GetConfigMaps in other threads.                 *)

ReadHits(r, n) ==
    /\ ~readers[r].on /\ n \in cached
    /\ UNCHANGED vars

ReadMisses(r, n) ==
    /\ ~readers[r].on /\ n \notin cached
    /\ NewClient(n)
    /\ readers' = [readers EXCEPT ![r] = [on |-> TRUE, ns |-> n, looks |-> 0]]
    /\ UNCHANGED <<world, feed, bus, store, loop, write, faults>>

ReadPolls(r) ==
    /\ readers[r].on
    /\ LET poll == readers[r] IN
       readers' = [readers EXCEPT ![r] =
                      IF poll.ns \in cached \/ poll.looks + 1 = Polls THEN NoPoll
                      ELSE [poll EXCEPT !.looks = poll.looks + 1]]
    /\ UNCHANGED <<world, wires, bus, store, loop, write, faults>>

-----------------------------------------------------------------------------
ClientStep(c) == Connect(c) \/ PostInit(c) \/ Forward(c)
LoopStep ==
    \/ TakeInit \/ TakeEvent \/ ListNamespace \/ InstallNamespace
    \/ CallbackReadsCached \/ CallbackPolls

Next ==
    \/ \E n \in Namespace, o \in Object :
          \/ ChangedByOthers(n, o, 0) \/ ChangedByOthers(n, o, Fresh)
          \/ CreateResource(n, o) \/ UpdateOrCreateResource(n, o) \/ DeleteResource(n, o)
    \/ WriteThrough
    \/ \E c \in Client : ClientStep(c) \/ ReadFails(c)
    \/ LoopStep \/ ListFails
    \/ \E n \in Namespace : CallbackMisses(n)
    \/ \E r \in Reader : ReadPolls(r) \/ \E n \in Namespace : ReadMisses(r, n) \/ ReadHits(r, n)

\* Goroutines of clients and of the loop are always scheduled; the server
\* accepts a dial in the end, and lists fail only finitely often (MaxFaults).
Fairness ==
    /\ \A c \in Client : WF_vars(ClientStep(c))
    /\ WF_vars(LoopStep)
    /\ WF_vars(WriteThrough)

Spec == Init /\ [][Next]_vars /\ Fairness

-----------------------------------------------------------------------------
(* Properties.                                                             *)

Content == [Object -> Nat]
Message == [ns : Namespace, obj : Object \union {"INIT"}, ver : Nat]

(* Every variable has its type; the bus never holds more than its capacity.*)
TypeOK ==
    /\ kind \in Kinds
    /\ cluster \in [Namespace -> Content] /\ changes \in Nat
    /\ past \in [Namespace -> SUBSET Content]
    /\ conn \in [Client -> [ns : Namespace, st : {"none", "down", "posting", "up"}]]
    /\ feed \in [Client -> Seq(Message)]
    /\ bus \in Seq(Message) /\ Len(bus) <= BusCap
    /\ cached \subseteq Namespace /\ cache \in [Namespace -> Content]
    /\ masked \subseteq Namespace /\ raced \subseteq Namespace \X Object
    /\ loop \in [at : {"idle", "list", "install", "callback", "poll", "panicked"},
                 ns : Namespace, got : Content, ok : BOOLEAN, looks : 0..Polls]
    /\ write \in [due : BOOLEAN, msg : Message]
    /\ readers \in [Reader -> [on : BOOLEAN, ns : Namespace, looks : 0..Polls]]
    /\ faults \in Nat

(* An event never finds its namespace missing: an INIT signal of the same  *)
(* namespace is taken before it.  So updateConfigmapsCache, which does not *)
(* return when the map is missing, never dereferences nil.                 *)
EventsFindNamespace == loop.at # "panicked"

Quiet ==
    /\ bus = <<>> /\ loop.at \in {"idle", "callback"} /\ ~write.due
    /\ \A c \in Client : conn[c].st \in {"none", "up"} /\ feed[c] = <<>>

Current(n) ==
    \A o \in Object : <<n, o>> \in raced \/ cache[n][o] = Listed(n)[o]

(* When connections are up and nothing is on its way, a cached namespace   *)
(* is what the cluster holds, unless its last list failed (and was taken   *)
(* for an empty one) or an own call was written through after a newer      *)
(* version had been seen.  Connections lost with unread events, clients    *)
(* that see the same event twice and lists that race events do no harm.    *)
DrainedIsCurrent == Quiet => \A n \in cached \ masked : Current(n)

(* The cache does what a mirror of the cluster promises.                   *)
Promise == INSTANCE Mirror WITH
    source <- [n \in Namespace |-> Listed(n)], shown <- cached, view <- cache
MirrorsTheCluster == Promise!Spec

(* A namespace somebody asked for is cached in the end, though the thread  *)
(* that asked may have got an error, and though the loop may be waiting    *)
(* for the namespace itself.                                               *)
AskedIsCached ==
    \A n \in Namespace :
        (\E c \in Client : conn[c].st # "none" /\ conn[c].ns = n) ~> n \in cached

(* The cache settles in what the cluster holds, with the same exceptions.  *)
CacheSettles ==
    \A n \in Namespace : <>[](n \in cached \ masked => Current(n))

(* A list that fails leaves the cache as it was: initRoutesMapInCache and  *)
(* its copies have a branch for it, "Error occurred while getting routes   *)
(* from paas-mediation".                                                   *)
FailedListChangesNothing ==
    [][\A n \in Namespace : masked' = masked \union {n} /\ n \notin masked
                            => cache'[n] = cache[n] /\ cached' = cached]_vars
=============================================================================
