-------------------------- MODULE PaasCache_proofs --------------------------
(***************************************************************************)
(* The caches of PaasMediationClient, for any number of namespaces,        *)
(* objects, websocket clients and readers, and any capacity of the bus:    *)
(* types, events that find their namespace, the mirror the cache           *)
(* implements, and what a drained cache holds.                             *)
(***************************************************************************)
EXTENDS PaasCache, QueueLemmas, TLAPS

USE NamesAssumption, BoundsAssumption

-----------------------------------------------------------------------------
(* The inductive invariant, in four parts.                                 *)

ObjectEvent == [ns : Namespace, obj : Object, ver : Nat]

\* Feeds hold events of objects, of the client's namespace, while it is open.
Feeds ==
    \A c \in Client :
        /\ feed[c] \in Seq(ObjectEvent)
        /\ \A i \in DOMAIN feed[c] : feed[c][i].ns = conn[c].ns
        /\ ~Open(c) => feed[c] = <<>>

\* Nobody looks Polls times without ending; a due write is of an object.
Shapes ==
    /\ loop.looks < Polls /\ \A r \in Reader : readers[r].looks < Polls
    /\ write.due => write.msg \in ObjectEvent
    /\ \A o \in Object : ~FilterRequired(o) =>
          loop.got[o] = 0 /\ \A n \in Namespace : cache[n][o] = 0

Types == TypeOK /\ Feeds /\ Shapes

Loading(n) == loop.at \in {"list", "install"} /\ loop.ns = n
Ready(n) == n \in cached \/ Loading(n)
HasClient(n) == \E c \in Client : conn[c].ns = n /\ conn[c].st # "none"
OnBus(n) == \E i \in DOMAIN bus : bus[i].ns = n
InitOf(e, n) == e.obj = "INIT" /\ e.ns = n

\* Until a namespace is about to be in the map, an INIT signal precedes its
\* events on the bus, and the events its connected clients may add.
Arrivals ==
    /\ loop.at # "panicked"
    /\ \A n \in Namespace : Ready(n) \/ OnBus(n) => HasClient(n)
    /\ \A n \in Namespace : ~Ready(n) =>
          /\ \A j \in DOMAIN bus : bus[j].ns = n =>
                InitOf(bus[j], n) \/ \E i \in DOMAIN bus : i < j /\ InitOf(bus[i], n)
          /\ \A c \in Client : conn[c].ns = n /\ conn[c].st = "up" =>
                \E i \in DOMAIN bus : InitOf(bus[i], n)

\* An event tells of a content its namespace has had, wherever it is underway.
Told(e) == FilterRequired(e.obj) => \E before \in past[e.ns] : before[e.obj] = e.ver
InQueue(s, e) == \E i \in DOMAIN s : s[i] = e
Underway(e) ==
    \/ write.due /\ write.msg = e
    \/ InQueue(bus, e)
    \/ \E c \in Client : InQueue(feed[c], e)

Truthful ==
    /\ \A n \in Namespace : Listed(n) \in past[n]
    /\ loop.at = "install" => loop.got \in past[loop.ns] \union {Blank}
    /\ \A e \in ObjectEvent : Underway(e) => Told(e)

\* The last message of a queue that changes what is known of an object.
About(e, n, o) == e.ns = n /\ e.obj \in {o, "INIT"}
NoneAbout(s, n, o) == \A i \in DOMAIN s : ~About(s[i], n, o)
LastAbout(s, n, o, e) ==
    \E i \in DOMAIN s : /\ s[i] = e /\ About(e, n, o)
                        /\ \A j \in DOMAIN s : j > i => ~About(s[j], n, o)

\* Every client of the namespace has forwarded all that it read of the object.
Forwarded(n, o) ==
    \A c \in Client : conn[c].ns = n /\ conn[c].st # "none" =>
        conn[c].st = "up" /\ NoneAbout(feed[c], n, o)

\* What was forwarded last is true of the cluster: on the bus, in the answer of
\* a list, or in the cache.
Tracked(n, o) ==
    /\ \A e \in ObjectEvent : LastAbout(bus, n, o, e) => e.ver = cluster[n][o]
    /\ NoneAbout(bus, n, o) =>
          /\ loop.at = "install" /\ loop.ns = n /\ loop.ok => loop.got[o] = cluster[n][o]
          /\ n \in cached \ masked /\ <<n, o>> \notin raced /\ ~Loading(n) =>
                cache[n][o] = cluster[n][o]

Tracks ==
    /\ \A c \in Client, o \in Object, e \in ObjectEvent :
          LastAbout(feed[c], conn[c].ns, o, e) => e.ver = cluster[conn[c].ns][o]
    /\ \A n \in Namespace, o \in Object :
          FilterRequired(o) /\ Forwarded(n, o) => Tracked(n, o)

CacheInv == Types /\ Arrivals /\ Truthful /\ Tracks

-----------------------------------------------------------------------------
(* Queues: who is the last to tell of an object.                           *)

\* An event at the end of a queue is the last word on its object.
LEMMA AboutAppended ==
    ASSUME NEW S, NEW s \in Seq(S), NEW e \in S, NEW t, t = Append(s, e), NEW n, NEW o
    PROVE  /\ About(e, n, o) => ~NoneAbout(t, n, o) /\ \A f : LastAbout(t, n, o, f) => f = e
           /\ ~About(e, n, o) =>
                 /\ NoneAbout(t, n, o) <=> NoneAbout(s, n, o)
                 /\ \A f : LastAbout(t, n, o, f) => LastAbout(s, n, o, f)
<1>1. /\ DOMAIN t = 1..Len(t) /\ DOMAIN s = 1..Len(s)
      /\ Len(t) \in DOMAIN t /\ t[Len(t)] = e
      /\ \A i \in DOMAIN s : i \in DOMAIN t /\ i < Len(t) /\ t[i] = s[i]
      /\ \A i \in DOMAIN t : i # Len(t) => i \in DOMAIN s /\ i < Len(t)
  BY Appended
<1>2. About(e, n, o) => ~NoneAbout(t, n, o) /\ \A f : LastAbout(t, n, o, f) => f = e
  BY <1>1 DEF NoneAbout, LastAbout
<1>3. ASSUME ~About(e, n, o)
      PROVE  /\ NoneAbout(t, n, o) <=> NoneAbout(s, n, o)
             /\ \A f : LastAbout(t, n, o, f) => LastAbout(s, n, o, f)
  BY <1>1, <1>3 DEF NoneAbout, LastAbout
<1> QED BY <1>2, <1>3

\* A message at the end of the bus is the last word on its object.
LEMMA AboutBusAppended ==
    ASSUME bus \in Seq(Message), NEW e \in Message, bus' = Append(bus, e), NEW n, NEW o
    PROVE  /\ About(e, n, o) => ~NoneAbout(bus', n, o) /\ \A f : LastAbout(bus', n, o, f) => f = e
           /\ ~About(e, n, o) =>
                 /\ NoneAbout(bus', n, o) <=> NoneAbout(bus, n, o)
                 /\ \A f : LastAbout(bus', n, o, f) => LastAbout(bus, n, o, f)
<1>1. /\ DOMAIN bus' = 1..Len(bus') /\ DOMAIN bus = 1..Len(bus) /\ Len(bus) \in Nat
      /\ Len(bus') \in DOMAIN bus' /\ bus'[Len(bus')] = e
      /\ \A i \in DOMAIN bus : i \in DOMAIN bus' /\ i < Len(bus') /\ bus'[i] = bus[i]
      /\ \A i \in DOMAIN bus' : i # Len(bus') => i \in DOMAIN bus /\ i < Len(bus')
  BY Appended
<1>2. About(e, n, o) => ~NoneAbout(bus', n, o) /\ \A f : LastAbout(bus', n, o, f) => f = e
  BY <1>1 DEF NoneAbout, LastAbout
<1>3. ASSUME ~About(e, n, o)
      PROVE  /\ NoneAbout(bus', n, o) <=> NoneAbout(bus, n, o)
             /\ \A f : LastAbout(bus', n, o, f) => LastAbout(bus, n, o, f)
  BY <1>1, <1>3 DEF NoneAbout, LastAbout
<1> QED BY <1>2, <1>3

\* Taking the first message leaves the last word on an object, unless it was that.
LEMMA AboutTaken ==
    ASSUME NEW S, NEW s \in Seq(S), s # <<>>, NEW t, t = Tail(s), NEW n, NEW o
    PROVE  /\ \A f : LastAbout(t, n, o, f) => LastAbout(s, n, o, f)
           /\ NoneAbout(t, n, o) => NoneAbout(s, n, o) \/ LastAbout(s, n, o, Head(s))
           /\ ~About(Head(s), n, o) /\ NoneAbout(t, n, o) => NoneAbout(s, n, o)
<1>1. /\ DOMAIN t = 1..Len(t) /\ DOMAIN s = 1..Len(s) /\ Len(t) \in Nat /\ Len(s) \in Nat
      /\ 1 \in DOMAIN s /\ s[1] = Head(s)
      /\ \A i \in DOMAIN t : i + 1 \in DOMAIN s /\ t[i] = s[i + 1]
      /\ \A i \in DOMAIN s : i # 1 => i - 1 \in DOMAIN t /\ t[i - 1] = s[i]
  BY Taken
<1>2. ASSUME NEW f, LastAbout(t, n, o, f) PROVE LastAbout(s, n, o, f)
  <2>1. PICK i \in DOMAIN t : /\ t[i] = f /\ About(f, n, o)
                              /\ \A j \in DOMAIN t : j > i => ~About(t[j], n, o)
    BY <1>2 DEF LastAbout
  <2>2. ASSUME NEW j \in DOMAIN s, j > i + 1 PROVE ~About(s[j], n, o)
    <3>1. j - 1 \in DOMAIN t /\ j - 1 > i /\ t[j - 1] = s[j]
      BY <1>1, <2>2
    <3> QED BY <3>1, <2>1
  <2> QED BY <1>1, <2>1, <2>2 DEF LastAbout
<1>3. ASSUME NoneAbout(t, n, o), NEW j \in DOMAIN s, j # 1 PROVE ~About(s[j], n, o)
  BY <1>1, <1>3 DEF NoneAbout
<1> QED BY <1>1, <1>2, <1>3 DEF NoneAbout, LastAbout

-----------------------------------------------------------------------------
(* Types.                                                                  *)

\* The values the goroutines begin and end with have their types.
LEMMA ConstantTypes ==
    /\ Blank \in Content /\ IdleLoop.got = Blank /\ IdleLoop.looks = 0
    /\ IdleLoop \in [at : {"idle", "list", "install", "callback", "poll", "panicked"},
                     ns : Namespace, got : Content, ok : BOOLEAN, looks : 0..Polls]
    /\ NoWrite \in [due : BOOLEAN, msg : Message] /\ ~NoWrite.due
    /\ NoPoll \in [on : BOOLEAN, ns : Namespace, looks : 0..Polls] /\ NoPoll.looks = 0
    /\ \A n \in Namespace : InitSignal(n) \in Message
    /\ ObjectEvent \subseteq Message
    /\ \A e \in ObjectEvent : e.obj # "INIT"
BY DEF Blank, Content, IdleLoop, NoWrite, NoPoll, InitSignal, Event, Message, ObjectEvent

\* A list shows objects of the cluster, or the required ones.
LEMMA ListedType ==
    ASSUME Types, NEW n \in Namespace
    PROVE  Listed(n) \in Content
BY DEF Types, TypeOK, Listed, Content

\* updateCache sets one object of a cached namespace.
LEMMA UpdateCacheDoes ==
    ASSUME Types, NEW e \in ObjectEvent
    PROVE  /\ UpdateCache(e) \in [Namespace -> Content]
           /\ \A n \in Namespace, o \in Object :
                 UpdateCache(e)[n][o] = IF /\ n = e.ns /\ o = e.obj
                                           /\ e.ns \in cached /\ FilterRequired(e.obj)
                                        THEN e.ver ELSE cache[n][o]
<1>1. e.ns \in Namespace /\ e.obj \in Object /\ e.ver \in Nat /\ cache \in [Namespace -> Content]
  BY DEF ObjectEvent, Types, TypeOK
<1>2. CASE e.ns \in cached /\ FilterRequired(e.obj)
  <2>1. UpdateCache(e) = [cache EXCEPT ![e.ns] = [cache[e.ns] EXCEPT ![e.obj] = e.ver]]
    BY <1>2 DEF UpdateCache
  <2> QED BY <1>1, <1>2, <2>1 DEF Content
<1>3. CASE ~(e.ns \in cached /\ FilterRequired(e.obj))
  BY <1>1, <1>3 DEF UpdateCache
<1> QED BY <1>2, <1>3

\* Before anything is cached the types hold.
LEMMA InitTypes == Init => Types
<1> SUFFICES ASSUME Init PROVE Types
  OBVIOUS
<1>1. /\ cluster \in [Namespace -> Content] /\ kind \in Kinds
      /\ \A n \in Namespace : Listed(n) \in Content
  BY DEF Init, Content, Listed
<1>2. cache \in [Namespace -> Content] /\ past \in [Namespace -> SUBSET Content]
  BY <1>1, ConstantTypes DEF Init
<1>3. \A o \in Object : ~FilterRequired(o) => \A n \in Namespace : cache[n][o] = 0
  <2>1. \A o \in Object : Blank[o] = 0
    BY DEF Blank
  <2>2. \A o \in Object : ~FilterRequired(o) => \A n \in Namespace : Listed(n)[o] = 0
    BY DEF Listed
  <2> QED BY <2>1, <2>2 DEF Init
<1>4. /\ conn \in [Client -> [ns : Namespace, st : {"none", "down", "posting", "up"}]]
      /\ feed = [c \in Client |-> <<>>]
      /\ bus = <<>> /\ Len(bus) <= BusCap /\ changes \in Nat /\ faults \in Nat
      /\ cached \subseteq Namespace /\ masked \subseteq Namespace /\ raced = {}
  BY DEF Init, NoClient
<1>5. Feeds /\ feed \in [Client -> Seq(Message)]
  BY <1>4 DEF Feeds
<1>6. loop = IdleLoop /\ write = NoWrite /\ readers = [r \in Reader |-> NoPoll]
  BY DEF Init
<1>7. Shapes
  BY <1>3, <1>6, ConstantTypes DEF Shapes, Blank
<1> QED BY <1>1, <1>2, <1>4, <1>5, <1>6, <1>7, ConstantTypes DEF Types, TypeOK

\* What a change of the cluster does to it and to the feeds.
LEMMA PublishDoes ==
    ASSUME Types, NEW n \in Namespace, NEW o \in Object, NEW v \in Nat, Publish(n, o, v),
           UNCHANGED <<kind, conn>>
    PROVE  /\ Event(n, o, v) \in ObjectEvent
           /\ cluster' \in [Namespace -> Content] /\ changes' \in Nat
           /\ cluster'[n][o] = v
           /\ \A m \in Namespace : m # n => cluster'[m] = cluster[m] /\ Listed(m)' = Listed(m)
           /\ \A p \in Object : p # o => cluster'[n][p] = cluster[n][p]
           /\ \A p \in Object : Listed(n)'[p] = IF FilterRequired(p) THEN cluster'[n][p] ELSE 0
           /\ \A p : FilterRequired(p)' <=> FilterRequired(p)
           /\ past' \in [Namespace -> SUBSET Content]
           /\ \A m \in Namespace : past[m] \subseteq past'[m] /\ (m # n => past'[m] = past[m])
           /\ FilterRequired(o) => past'[n] = past[n] \union {Listed(n)'}
           /\ ~FilterRequired(o) => past' = past /\ Listed(n)' = Listed(n)
           /\ feed' \in [Client -> Seq(Message)] /\ Feeds'
           /\ \A c \in Client :
                 /\ Open(c) /\ conn[c].ns = n => feed'[c] = Append(feed[c], Event(n, o, v))
                 /\ ~(Open(c) /\ conn[c].ns = n) => feed'[c] = feed[c]
<1> DEFINE e == Event(n, o, v)
<1>1. e \in ObjectEvent /\ e \in Message /\ e.ns = n
  BY ConstantTypes DEF Event, ObjectEvent
<1>2. /\ changes' = changes + 1
      /\ cluster' = [cluster EXCEPT ![n][o] = v]
      /\ past' = [past EXCEPT ![n] =
                     IF FilterRequired(o) THEN @ \union {[Listed(n) EXCEPT ![o] = v]} ELSE @]
      /\ feed' = [c \in Client |-> IF Open(c) /\ conn[c].ns = n THEN Append(feed[c], e) ELSE feed[c]]
  BY DEF Publish
<1> HIDE DEF e
<1>3. /\ cluster' \in [Namespace -> Content] /\ changes' \in Nat
      /\ cluster'[n][o] = v
      /\ \A m \in Namespace : m # n => cluster'[m] = cluster[m]
      /\ \A p \in Object : p # o => cluster'[n][p] = cluster[n][p]
  <2>1. cluster \in [Namespace -> Content] /\ changes \in Nat
    BY DEF Types, TypeOK
  <2>2. changes' \in Nat
    BY <1>2, <2>1
  <2>3. cluster' = [cluster EXCEPT ![n][o] = v]
    BY <1>2
  <2>4. cluster' = [cluster EXCEPT ![n] = [cluster[n] EXCEPT ![o] = v]]
    BY <2>3
  <2> QED BY <2>1, <2>2, <2>4 DEF Content
<1>4. \A p : FilterRequired(p)' <=> FilterRequired(p)
  BY DEF FilterRequired
<1>5. /\ \A m \in Namespace : m # n => Listed(m)' = Listed(m)
      /\ \A p \in Object : Listed(n)'[p] = IF FilterRequired(p) THEN cluster'[n][p] ELSE 0
      /\ ~FilterRequired(o) => Listed(n)' = Listed(n)
  BY <1>3, <1>4 DEF Listed
<1>6. FilterRequired(o) => Listed(n)' = [Listed(n) EXCEPT ![o] = v]
  BY <1>3, <1>4 DEF Listed
<1>7. Listed(n)' \in Content
  BY <1>3 DEF Listed, Content
<1>8. /\ past' \in [Namespace -> SUBSET Content]
      /\ \A m \in Namespace : past[m] \subseteq past'[m] /\ (m # n => past'[m] = past[m])
      /\ FilterRequired(o) => past'[n] = past[n] \union {Listed(n)'}
      /\ ~FilterRequired(o) => past' = past
  <2>1. past \in [Namespace -> SUBSET Content]
    BY DEF Types, TypeOK
  <2>2. CASE FilterRequired(o)
    BY <1>2, <1>6, <1>7, <2>1, <2>2
  <2>3. CASE ~FilterRequired(o)
    BY <1>2, <2>1, <2>3
  <2> QED BY <2>2, <2>3
<1>9. \A c \in Client :
         /\ Open(c) /\ conn[c].ns = n => feed'[c] = Append(feed[c], e)
         /\ ~(Open(c) /\ conn[c].ns = n) => feed'[c] = feed[c]
  BY <1>2
<1>10. feed' \in [Client -> Seq(Message)]
  BY <1>1, <1>2 DEF Types, TypeOK
<1>11. Feeds'
  <2> SUFFICES ASSUME NEW c \in Client
               PROVE  /\ feed'[c] \in Seq(ObjectEvent)
                      /\ \A i \in DOMAIN feed'[c] : feed'[c][i].ns = conn[c].ns
                      /\ ~Open(c) => feed'[c] = <<>>
    BY DEF Feeds, Open
  <2>1. /\ feed[c] \in Seq(ObjectEvent)
        /\ \A i \in DOMAIN feed[c] : feed[c][i].ns = conn[c].ns
        /\ ~Open(c) => feed[c] = <<>>
    BY DEF Types, Feeds
  <2>2. CASE Open(c) /\ conn[c].ns = n
    <3>1. feed'[c] = Append(feed[c], e)
      BY <2>2, <1>9
    <3> QED BY <2>1, <2>2, <3>1, <1>1, Appended
  <2>3. CASE ~(Open(c) /\ conn[c].ns = n)
    BY <2>1, <2>3, <1>9
  <2> QED BY <2>2, <2>3
<1> QED BY <1>1, <1>3, <1>4, <1>5, <1>8, <1>9, <1>10, <1>11 DEF e

\* The same, by groups of variables: an action keeps those it does not touch.
WorldOK ==
    /\ kind \in Kinds /\ cluster \in [Namespace -> Content] /\ changes \in Nat
    /\ past \in [Namespace -> SUBSET Content]
WiresOK ==
    /\ conn \in [Client -> [ns : Namespace, st : {"none", "down", "posting", "up"}]]
    /\ feed \in [Client -> Seq(Message)] /\ Feeds
BusOK == bus \in Seq(Message) /\ Len(bus) <= BusCap
StoreOK ==
    /\ cached \subseteq Namespace /\ cache \in [Namespace -> Content]
    /\ masked \subseteq Namespace /\ raced \subseteq Namespace \X Object
    /\ \A o \in Object : ~FilterRequired(o) => \A n \in Namespace : cache[n][o] = 0
LoopOK ==
    /\ loop \in [at : {"idle", "list", "install", "callback", "poll", "panicked"},
                 ns : Namespace, got : Content, ok : BOOLEAN, looks : 0..Polls]
    /\ loop.looks < Polls
    /\ \A o \in Object : ~FilterRequired(o) => loop.got[o] = 0
WriteOK ==
    /\ write \in [due : BOOLEAN, msg : Message]
    /\ write.due => write.msg \in ObjectEvent
ReadersOK ==
    /\ readers \in [Reader -> [on : BOOLEAN, ns : Namespace, looks : 0..Polls]]
    /\ \A r \in Reader : readers[r].looks < Polls

AllParts ==
    /\ WorldOK /\ WiresOK /\ BusOK /\ StoreOK /\ LoopOK /\ WriteOK /\ ReadersOK
    /\ faults \in Nat

\* The type of the state is that of its parts.
LEMMA TypeParts == (Types => AllParts) /\ (AllParts' => Types')
<1>1. Types => AllParts
  BY DEF Types, TypeOK, Shapes, WorldOK, WiresOK, BusOK, StoreOK, LoopOK, WriteOK, ReadersOK,
         AllParts
<1>2. AllParts' => Types'
  BY DEF Types, TypeOK, Shapes, WorldOK, WiresOK, BusOK, StoreOK, LoopOK, WriteOK, ReadersOK,
         AllParts
<1> QED BY <1>1, <1>2

\* A part that does not change keeps its type.
LEMMA PartsKept ==
    ASSUME Types
    PROVE  /\ UNCHANGED world => WorldOK'
           /\ UNCHANGED wires => WiresOK'
           /\ UNCHANGED bus => BusOK'
           /\ UNCHANGED store /\ UNCHANGED kind => StoreOK'
           /\ UNCHANGED <<loop, kind>> => LoopOK'
           /\ UNCHANGED write => WriteOK'
           /\ UNCHANGED readers => ReadersOK'
           /\ UNCHANGED faults \/ Failing => faults' \in Nat
<1>1. /\ WorldOK /\ WiresOK /\ BusOK /\ StoreOK /\ LoopOK /\ WriteOK /\ ReadersOK /\ faults \in Nat
  BY TypeParts DEF AllParts
<1>2. UNCHANGED kind => \A o : FilterRequired(o)' <=> FilterRequired(o)
  BY DEF FilterRequired
<1>3. UNCHANGED world => WorldOK'
  BY <1>1 DEF WorldOK, world
<1>4. UNCHANGED wires => WiresOK'
  BY <1>1 DEF WiresOK, wires, Feeds, Open
<1>5. UNCHANGED store /\ UNCHANGED kind => StoreOK'
  BY <1>1, <1>2 DEF StoreOK, store
<1>6. UNCHANGED <<loop, kind>> => LoopOK'
  BY <1>1, <1>2 DEF LoopOK
<1>7. UNCHANGED bus => BusOK'
  BY <1>1 DEF BusOK
<1>8. UNCHANGED write => WriteOK'
  BY <1>1 DEF WriteOK
<1>9. UNCHANGED readers => ReadersOK'
  BY <1>1 DEF ReadersOK
<1>10. UNCHANGED faults \/ Failing => faults' \in Nat
  BY <1>1 DEF Failing
<1> QED BY <1>3, <1>4, <1>5, <1>6, <1>7, <1>8, <1>9, <1>10

\* The loop and what it may become.
Place == {"idle", "list", "install", "callback", "poll", "panicked"}
FreshLoop == [at : Place, ns : Namespace, got : {Blank}, ok : {TRUE}, looks : {0}]

\* Records of the loop without anything listed or looked for.
LEMMA FreshLoopsAre ==
    /\ IdleLoop \in FreshLoop /\ AfterUpdate \in FreshLoop
    /\ \A at \in Place, n \in Namespace : [IdleLoop EXCEPT !.at = at, !.ns = n] \in FreshLoop
    /\ \A at \in Place : [IdleLoop EXCEPT !.at = at] \in FreshLoop
<1>1. /\ IdleLoop \in FreshLoop
      /\ \A at \in Place, n \in Namespace : [IdleLoop EXCEPT !.at = at, !.ns = n] \in FreshLoop
      /\ \A at \in Place : [IdleLoop EXCEPT !.at = at] \in FreshLoop
  BY DEF FreshLoop, IdleLoop, Place
<1>2. "callback" \in Place
  BY DEF Place
<1>3. CASE kind = "routes"
  BY <1>1, <1>2, <1>3 DEF AfterUpdate
<1>4. CASE kind # "routes"
  BY <1>1, <1>4 DEF AfterUpdate
<1> QED BY <1>1, <1>3, <1>4

\* The ways the loop's record changes keep its type.
LEMMA LoopSteps ==
    ASSUME Types, UNCHANGED kind,
           \/ loop' \in FreshLoop
           \/ loop' = [loop EXCEPT !.at = "install", !.got = Listed(loop.ns)]
           \/ loop' = [loop EXCEPT !.at = "install", !.got = Blank, !.ok = FALSE]
           \/ loop.looks + 1 # Polls /\ loop' = [loop EXCEPT !.looks = @ + 1]
    PROVE  LoopOK'
<1>1. LoopOK
  BY TypeParts DEF AllParts
<1>2. \A o : FilterRequired(o)' <=> FilterRequired(o)
  BY DEF FilterRequired
<1>3. /\ Listed(loop.ns) \in Content
      /\ \A o \in Object : ~FilterRequired(o) => Listed(loop.ns)[o] = 0
      /\ \A o \in Object : Blank[o] = 0
      /\ Blank \in Content
  BY <1>1, ListedType, ConstantTypes DEF LoopOK, Listed, Blank
<1>4. CASE loop' \in FreshLoop
  <2>1. PICK at \in Place, n \in Namespace :
          loop' = [at |-> at, ns |-> n, got |-> Blank, ok |-> TRUE, looks |-> 0]
    BY <1>4 DEF FreshLoop
  <2> QED BY <2>1, <1>3 DEF LoopOK, Place
<1>5. CASE loop' = [loop EXCEPT !.at = "install", !.got = Listed(loop.ns)]
  BY <1>1, <1>2, <1>3, <1>5 DEF LoopOK
<1>6. CASE loop' = [loop EXCEPT !.at = "install", !.got = Blank, !.ok = FALSE]
  <2>1. /\ loop' \in [at : {"idle", "list", "install", "callback", "poll", "panicked"},
                      ns : Namespace, got : Content, ok : BOOLEAN, looks : 0..Polls]
        /\ loop'.looks = loop.looks /\ loop'.got = Blank
    BY <1>1, <1>3, <1>6 DEF LoopOK
  <2> QED BY <1>1, <1>3, <2>1 DEF LoopOK
<1>7. CASE loop.looks + 1 # Polls /\ loop' = [loop EXCEPT !.looks = @ + 1]
  BY <1>1, <1>2, <1>7 DEF LoopOK
<1> QED BY <1>4, <1>5, <1>6, <1>7

\* A client that moves on keeps its namespace, and its feed while it is open.
LEMMA ConnSteps ==
    ASSUME Types, NEW c \in Client, NEW st \in {"down", "posting", "up"},
           conn' = [conn EXCEPT ![c].st = st],
           \/ UNCHANGED feed /\ (st = "down" => feed[c] = <<>>)
           \/ feed' = [feed EXCEPT ![c] = <<>>]
    PROVE  /\ WiresOK'
           /\ \A d \in Client : conn'[d].ns = conn[d].ns /\ (d # c => conn'[d] = conn[d])
           /\ conn'[c].st = st
           /\ \A d \in Client : d # c => feed'[d] = feed[d]
<1>1. WiresOK /\ Feeds
  BY TypeParts DEF AllParts, Types
<1>2. /\ conn' \in [Client -> [ns : Namespace, st : {"none", "down", "posting", "up"}]]
      /\ \A d \in Client : conn'[d].ns = conn[d].ns /\ (d # c => conn'[d] = conn[d])
      /\ conn'[c].st = st
  BY <1>1 DEF WiresOK
<1>3. /\ feed' \in [Client -> Seq(Message)]
      /\ \A d \in Client : d # c => feed'[d] = feed[d]
      /\ (feed'[c] = feed[c] /\ (st = "down" => feed[c] = <<>>)) \/ feed'[c] = <<>>
  <2>1. feed \in [Client -> Seq(Message)]
    BY <1>1 DEF WiresOK
  <2>2. CASE feed' = [feed EXCEPT ![c] = <<>>]
    BY <2>1, <2>2
  <2>3. CASE UNCHANGED feed /\ (st = "down" => feed[c] = <<>>)
    BY <2>1, <2>3
  <2> QED BY <2>2, <2>3
<1>4. ASSUME NEW d \in Client
      PROVE  /\ feed'[d] \in Seq(ObjectEvent)
             /\ \A i \in DOMAIN feed'[d] : feed'[d][i].ns = conn'[d].ns
             /\ ~Open(d)' => feed'[d] = <<>>
  <2>1. /\ feed[d] \in Seq(ObjectEvent) /\ \A i \in DOMAIN feed[d] : feed[d][i].ns = conn[d].ns
        /\ ~Open(d) => feed[d] = <<>>
    BY <1>1 DEF Feeds
  <2>2. CASE d # c
    BY <2>1, <2>2, <1>2, <1>3 DEF Open
  <2>3. CASE d = c
    <3>1. feed[c] # <<>> => st \in {"posting", "up"} \/ feed'[c] = <<>>
      BY <1>3
    <3> QED BY <2>1, <2>3, <3>1, <1>2, <1>3 DEF Open
  <2> QED BY <2>2, <2>3
<1> QED BY <1>2, <1>3, <1>4 DEF WiresOK, Feeds

\* A new client has read nothing.
LEMMA NewClientDoes ==
    ASSUME Types, NEW n \in Namespace, NewClient(n), UNCHANGED feed
    PROVE  /\ WiresOK'
           /\ \E c \in Client :
                 /\ conn[c].st = "none" /\ conn'[c] = [ns |-> n, st |-> "down"]
                 /\ \A d \in Client : d # c => conn'[d] = conn[d]
<1>1. WiresOK /\ Feeds
  BY TypeParts DEF AllParts, Types
<1>2. PICK c \in Client : conn[c].st = "none" /\ conn' = [conn EXCEPT ![c] = [ns |-> n, st |-> "down"]]
  BY DEF NewClient
<1>3. /\ conn' \in [Client -> [ns : Namespace, st : {"none", "down", "posting", "up"}]]
      /\ conn'[c] = [ns |-> n, st |-> "down"] /\ \A d \in Client : d # c => conn'[d] = conn[d]
  BY <1>1, <1>2 DEF WiresOK
<1>4. feed[c] = <<>>
  BY <1>1, <1>2 DEF Feeds, Open
<1>5. Feeds'
  BY <1>1, <1>3, <1>4 DEF Feeds, Open
<1> QED BY <1>1, <1>2, <1>3, <1>5 DEF WiresOK

\* What a client does when it forwards an event.
LEMMA ForwardDoes ==
    ASSUME Types, NEW c \in Client, Forward(c)
    PROVE  /\ WiresOK' /\ BusOK'
           /\ feed[c] \in Seq(ObjectEvent) /\ feed[c] # <<>> /\ Head(feed[c]) \in ObjectEvent
           /\ Head(feed[c]).ns = conn[c].ns /\ feed'[c] = Tail(feed[c])
           /\ \A d \in Client : d # c => feed'[d] = feed[d]
           /\ bus' = Append(bus, Head(feed[c]))
<1>1. WiresOK /\ Feeds /\ BusOK
  BY TypeParts DEF AllParts, Types
<1>2. /\ feed[c] # <<>> /\ Len(bus) < BusCap /\ conn' = conn
      /\ bus' = Append(bus, Head(feed[c]))
      /\ feed' = [feed EXCEPT ![c] = Tail(feed[c])]
  BY DEF Forward
<1>3. /\ feed'[c] = Tail(feed[c]) /\ \A d \in Client : d # c => feed'[d] = feed[d]
      /\ feed' \in [Client -> Seq(Message)]
  BY <1>1, <1>2 DEF WiresOK
<1>4. /\ feed[c] \in Seq(ObjectEvent) /\ \A i \in DOMAIN feed[c] : feed[c][i].ns = conn[c].ns
      /\ ~Open(c) => feed[c] = <<>>
  BY <1>1 DEF Feeds
<1>5. /\ feed'[c] \in Seq(ObjectEvent) /\ Head(feed[c]) \in ObjectEvent
      /\ Head(feed[c]).ns = conn[c].ns
      /\ \A i \in DOMAIN feed'[c] : feed'[c][i].ns = conn[c].ns
  BY <1>2, <1>3, <1>4, Taken
<1>6. Feeds'
  BY <1>1, <1>2, <1>3, <1>4, <1>5 DEF Feeds, Open
<1>7. bus' \in Seq(Message) /\ Len(bus') <= BusCap
  BY <1>1, <1>2, <1>5, ConstantTypes DEF BusOK
<1> QED BY <1>1, <1>2, <1>3, <1>4, <1>5, <1>6, <1>7 DEF WiresOK, BusOK

\* Names of the steps, by what they touch.
Publishing(n, o, v) == ChangedByOthers(n, o, v) \/ (Call(n, o, v) /\ kind # "configmaps")

\* Every step is of the cluster, an own call, a client, the loop, or a reader.
LEMMA NextCases ==
    ASSUME Next, Types
    PROVE  \/ \E n \in Namespace, o \in Object, v \in Nat : Publishing(n, o, v)
           \/ WriteThrough
           \/ \E c \in Client : Connect(c) \/ PostInit(c) \/ Forward(c) \/ ReadFails(c)
           \/ TakeInit \/ TakeEvent \/ ListNamespace \/ ListFails \/ InstallNamespace
           \/ CallbackReadsCached \/ CallbackPolls
           \/ \E n \in Namespace : CallbackMisses(n)
           \/ \E r \in Reader : ReadPolls(r) \/ \E n \in Namespace : ReadMisses(r, n)
           \/ UNCHANGED vars
<1>1. changes \in Nat /\ changes + 1 \in Nat
  BY DEF Types, TypeOK
<1>2. ASSUME NEW n \in Namespace, NEW o \in Object,
             \/ ChangedByOthers(n, o, 0) \/ ChangedByOthers(n, o, Fresh)
             \/ CreateResource(n, o) \/ UpdateOrCreateResource(n, o) \/ DeleteResource(n, o)
      PROVE  \E v \in Nat : Publishing(n, o, v)
  <2>1. \E v \in Nat : ChangedByOthers(n, o, v) \/ Call(n, o, v)
    BY <1>1, <1>2 DEF Fresh, CreateResource, UpdateOrCreateResource, DeleteResource
  <2> QED BY <2>1 DEF Publishing, Call
<1>3. ASSUME NEW r \in Reader, NEW n \in Namespace, ReadHits(r, n) PROVE UNCHANGED vars
  BY <1>3 DEF ReadHits
<1> QED BY <1>2, <1>3 DEF Next, ClientStep, LoopStep

\* Changes of the cluster keep the types.
LEMMA PublishingTypes ==
    ASSUME Types, NEW n \in Namespace, NEW o \in Object, NEW v \in Nat, Publishing(n, o, v)
    PROVE  Types'
<1>1. /\ Publish(n, o, v) /\ UNCHANGED <<kind, conn, bus, store, loop, readers>>
      /\ UNCHANGED faults \/ Failing
      /\ UNCHANGED write \/ write' = [due |-> TRUE, msg |-> Event(n, o, v)]
  BY DEF Publishing, ChangedByOthers, Call
<1>2. /\ WorldOK' /\ WiresOK'
      /\ Event(n, o, v) \in ObjectEvent
  BY <1>1, PublishDoes, TypeParts DEF AllParts, WorldOK, WiresOK
<1>3. WriteOK'
  <2>1. Event(n, o, v) \in Message
    BY <1>2, ConstantTypes
  <2>2. write' = [due |-> TRUE, msg |-> Event(n, o, v)] => WriteOK'
    BY <1>2, <2>1 DEF WriteOK
  <2> QED BY <1>1, <2>2, PartsKept
<1> QED BY <1>1, <1>2, <1>3, PartsKept, TypeParts DEF AllParts

\* Own calls and their write-through keep the types.
LEMMA WriteThroughTypes ==
    ASSUME Types, WriteThrough
    PROVE  Types'
<1>1. /\ write.due /\ cache' = UpdateCache(write.msg) /\ write' = NoWrite
      /\ UNCHANGED <<world, wires, bus, cached, masked, loop, readers, faults, kind>>
      /\ raced' = raced \/ raced' = raced \union {<<write.msg.ns, write.msg.obj>>}
  BY DEF WriteThrough, world
<1>2. StoreOK /\ WriteOK /\ write.msg \in ObjectEvent
  BY <1>1, TypeParts DEF AllParts, WriteOK
<1>3. WriteOK'
  BY <1>1, ConstantTypes DEF WriteOK
<1>4. StoreOK'
  <2>1. /\ cache' \in [Namespace -> Content]
        /\ \A o \in Object : ~FilterRequired(o) => \A n \in Namespace : cache'[n][o] = cache[n][o]
    BY <1>1, <1>2, UpdateCacheDoes
  <2>2. raced' \subseteq Namespace \X Object
    BY <1>1, <1>2 DEF StoreOK, ObjectEvent
  <2>3. \A o : FilterRequired(o)' <=> FilterRequired(o)
    BY <1>1 DEF FilterRequired
  <2> QED BY <1>1, <1>2, <2>1, <2>2, <2>3 DEF StoreOK
<1> QED BY <1>1, <1>3, <1>4, PartsKept, TypeParts DEF AllParts

\* Websocket clients keep the types, the bus within its capacity.
LEMMA ClientTypes ==
    ASSUME Types, NEW c \in Client, Connect(c) \/ PostInit(c) \/ Forward(c) \/ ReadFails(c)
    PROVE  Types'
<1>1. CASE Connect(c)
  <2>1. UNCHANGED <<world, kind, feed, bus, store, loop, write, readers, faults>>
    BY <1>1 DEF Connect, world
  <2>2. WiresOK'
    BY <1>1, ConnSteps DEF Connect
  <2> QED BY <2>1, <2>2, PartsKept, TypeParts DEF AllParts
<1>2. CASE PostInit(c)
  <2>1. UNCHANGED <<world, kind, feed, store, loop, write, readers, faults>>
    BY <1>2 DEF PostInit, world
  <2>2. WiresOK'
    BY <1>2, ConnSteps DEF PostInit
  <2>3. BusOK'
    <3>1. conn[c].ns \in Namespace /\ BusOK
      BY TypeParts DEF AllParts, WiresOK
    <3>2. InitSignal(conn[c].ns) \in Message
      BY <3>1, ConstantTypes
    <3> QED BY <1>2, <3>1, <3>2 DEF PostInit, BusOK
  <2> QED BY <2>1, <2>2, <2>3, PartsKept, TypeParts DEF AllParts
<1>3. CASE Forward(c)
  <2>1. UNCHANGED <<world, kind, store, loop, write, readers, faults>>
    BY <1>3 DEF Forward, world
  <2> QED BY <1>3, <2>1, ForwardDoes, PartsKept, TypeParts DEF AllParts
<1>4. CASE ReadFails(c)
  <2>1. UNCHANGED <<world, kind, bus, store, loop, write, readers>> /\ Failing
    BY <1>4 DEF ReadFails, world
  <2>2. WiresOK'
    BY <1>4, ConnSteps DEF ReadFails
  <2> QED BY <2>1, <2>2, PartsKept, TypeParts DEF AllParts
<1> QED BY <1>1, <1>2, <1>3, <1>4

\* Taking from the bus.
LEMMA BusTaken ==
    ASSUME Types, bus # <<>>, bus' = Tail(bus)
    PROVE  /\ BusOK' /\ Head(bus) \in Message
           /\ Head(bus).obj # "INIT" => Head(bus) \in ObjectEvent
<1>1. BusOK
  BY TypeParts DEF AllParts
<1>2. bus' \in Seq(Message) /\ Head(bus) \in Message /\ Len(bus') <= BusCap
  BY <1>1 DEF BusOK
<1> QED BY <1>2 DEF BusOK, Message, ObjectEvent

\* The loop keeps the types.
LEMMA LoopTypes ==
    ASSUME Types,
           \/ TakeInit \/ TakeEvent \/ ListNamespace \/ ListFails \/ InstallNamespace
           \/ CallbackReadsCached \/ CallbackPolls
    PROVE  Types'
<1>1. CASE TakeInit
  <2>1. UNCHANGED <<world, kind, wires, store, write, readers, faults>>
    BY <1>1 DEF TakeInit, world
  <2>2. BusOK' /\ Head(bus).ns \in Namespace
    BY <1>1, BusTaken DEF TakeInit, Message
  <2>3. loop' \in FreshLoop
    BY <1>1, <2>2, FreshLoopsAre DEF TakeInit, Place
  <2> QED BY <2>1, <2>2, <2>3, LoopSteps, PartsKept, TypeParts DEF AllParts
<1>2. CASE TakeEvent
  <2>1. UNCHANGED <<world, kind, wires, cached, masked, raced, write, readers, faults>>
    BY <1>2 DEF TakeEvent, world
  <2>2. BusOK' /\ Head(bus) \in ObjectEvent
    BY <1>2, BusTaken DEF TakeEvent
  <2>3. loop' \in FreshLoop
    BY <1>2, FreshLoopsAre DEF TakeEvent, Place
  <2>4. StoreOK'
    <3>1. /\ cache' \in [Namespace -> Content]
          /\ \A o \in Object : ~FilterRequired(o) => \A n \in Namespace : cache'[n][o] = cache[n][o]
      BY <1>2, <2>2, UpdateCacheDoes DEF TakeEvent
    <3>2. \A o : FilterRequired(o)' <=> FilterRequired(o)
      BY <2>1 DEF FilterRequired
    <3> QED BY <2>1, <3>1, <3>2, TypeParts DEF AllParts, StoreOK
  <2> QED BY <2>1, <2>2, <2>3, <2>4, LoopSteps, PartsKept, TypeParts DEF AllParts
<1>3. CASE ListNamespace \/ ListFails
  <2>1. UNCHANGED <<world, kind, wires, bus, store, write, readers>> /\ (UNCHANGED faults \/ Failing)
    BY <1>3 DEF ListNamespace, ListFails, world
  <2>2. LoopOK'
    BY <1>3, <2>1, LoopSteps DEF ListNamespace, ListFails
  <2> QED BY <2>1, <2>2, PartsKept, TypeParts DEF AllParts
<1>4. CASE InstallNamespace
  <2>1. UNCHANGED <<world, kind, wires, bus, raced, write, readers, faults>>
    BY <1>4 DEF InstallNamespace, world
  <2>2. LoopOK'
    BY <1>4, <2>1, LoopSteps, FreshLoopsAre DEF InstallNamespace
  <2>3. StoreOK'
    <3>1. StoreOK /\ LoopOK /\ loop.ns \in Namespace /\ loop.got \in Content
      BY TypeParts DEF AllParts, LoopOK
    <3>2. /\ cache' \in [Namespace -> Content]
          /\ \A n \in Namespace : cache'[n] = IF n = loop.ns THEN loop.got ELSE cache[n]
      BY <1>4, <3>1 DEF InstallNamespace, StoreOK
    <3>3. \A o : FilterRequired(o)' <=> FilterRequired(o)
      BY <2>1 DEF FilterRequired
    <3>4. cached' \subseteq Namespace /\ masked' \subseteq Namespace
      BY <1>4, <3>1 DEF InstallNamespace, StoreOK
    <3> QED BY <2>1, <3>1, <3>2, <3>3, <3>4 DEF StoreOK, LoopOK
  <2> QED BY <2>1, <2>2, <2>3, PartsKept, TypeParts DEF AllParts
<1>5. CASE CallbackReadsCached \/ CallbackPolls
  <2>1. UNCHANGED <<world, kind, wires, bus, store, write, readers, faults>>
    BY <1>5 DEF CallbackReadsCached, CallbackPolls, world
  <2>2. LoopOK'
    BY <1>5, <2>1, LoopSteps, FreshLoopsAre DEF CallbackReadsCached, CallbackPolls
  <2> QED BY <2>1, <2>2, PartsKept, TypeParts DEF AllParts
<1> QED BY <1>1, <1>2, <1>3, <1>4, <1>5

\* Readers keep the types.
LEMMA ReaderTypes ==
    ASSUME Types,
           \/ \E n \in Namespace : CallbackMisses(n)
           \/ \E r \in Reader : ReadPolls(r) \/ \E n \in Namespace : ReadMisses(r, n)
    PROVE  Types'
<1>1. ASSUME NEW n \in Namespace, CallbackMisses(n) PROVE Types'
  <2>1. UNCHANGED <<world, kind, feed, bus, store, write, readers, faults>>
    BY <1>1 DEF CallbackMisses, world
  <2>2. WiresOK'
    BY <1>1, <2>1, NewClientDoes DEF CallbackMisses
  <2>3. LoopOK'
    BY <1>1, <2>1, LoopSteps, FreshLoopsAre DEF CallbackMisses, Place
  <2> QED BY <2>1, <2>2, <2>3, PartsKept, TypeParts DEF AllParts
<1>2. ASSUME NEW r \in Reader, NEW n \in Namespace, ReadMisses(r, n) PROVE Types'
  <2>1. UNCHANGED <<world, kind, feed, bus, store, loop, write, faults>>
    BY <1>2 DEF ReadMisses, world
  <2>2. WiresOK'
    BY <1>2, <2>1, NewClientDoes DEF ReadMisses
  <2>3. ReadersOK'
    BY <1>2, TypeParts DEF AllParts, ReadMisses, ReadersOK
  <2> QED BY <2>1, <2>2, <2>3, PartsKept, TypeParts DEF AllParts
<1>3. ASSUME NEW r \in Reader, ReadPolls(r) PROVE Types'
  <2>1. UNCHANGED <<world, kind, wires, bus, store, loop, write, faults>>
    BY <1>3 DEF ReadPolls, world
  <2>2. ReadersOK'
    <3>1. ReadersOK /\ NoPoll \in [on : BOOLEAN, ns : Namespace, looks : 0..Polls] /\ NoPoll.looks = 0
      BY TypeParts, ConstantTypes DEF AllParts
    <3>3. CASE readers[r].ns \in cached \/ readers[r].looks + 1 = Polls
      BY <1>3, <3>1, <3>3 DEF ReadersOK, ReadPolls
    <3>4. CASE ~(readers[r].ns \in cached \/ readers[r].looks + 1 = Polls)
      <4>1. readers' = [readers EXCEPT ![r] = [readers[r] EXCEPT !.looks = readers[r].looks + 1]]
        BY <1>3, <3>4 DEF ReadPolls
      <4> QED BY <3>1, <3>4, <4>1 DEF ReadersOK
    <3> QED BY <3>3, <3>4
  <2> QED BY <2>1, <2>2, PartsKept, TypeParts DEF AllParts
<1> QED BY <1>1, <1>2, <1>3

\* Every step keeps the types.
LEMMA NextTypes == Types /\ [Next]_vars => Types'
<1>1. ASSUME Types, UNCHANGED vars PROVE Types'
  <2>1. UNCHANGED <<world, wires, bus, store, loop, write, readers, faults, kind>>
    BY <1>1 DEF vars, world
  <2> QED BY <1>1, <2>1, PartsKept, TypeParts DEF AllParts
<1> QED BY <1>1, NextCases, PublishingTypes, WriteThroughTypes, ClientTypes, LoopTypes, ReaderTypes

-----------------------------------------------------------------------------
(* Arrivals.                                                               *)

\* At the start nobody is connected and nothing is on the bus.
LEMMA InitArrivals == Init => Arrivals
<1> SUFFICES ASSUME Init PROVE Arrivals
  OBVIOUS
<1>1. /\ bus = <<>> /\ DOMAIN bus = {} /\ cached = {Home} /\ loop = IdleLoop
      /\ \A c \in Client : conn[c].st # "up"
      /\ 1 \in Client /\ conn[1].ns = Home /\ conn[1].st # "none"
  BY DEF Init, Client, NoClient
<1>2. HasClient(Home)
  BY <1>1 DEF HasClient
<1>3. \A n : Ready(n) => n = Home
  BY <1>1 DEF Ready, Loading, IdleLoop
<1> QED BY <1>1, <1>2, <1>3 DEF Arrivals, IdleLoop, OnBus

\* A client keeps its namespace while its record keeps it.
LEMMA ClientsStay ==
    ASSUME \A c \in Client : conn[c].st # "none" => conn'[c].ns = conn[c].ns /\ conn'[c].st # "none"
    PROVE  \A n : HasClient(n) => HasClient(n)'
BY DEF HasClient

\* A step that puts nothing on the bus and connects nobody.
LEMMA ArrivalsKept ==
    ASSUME Arrivals, UNCHANGED bus, loop'.at # "panicked",
           \A n : HasClient(n) => HasClient(n)',
           \A n : Ready(n) <=> Ready(n)',
           \A c \in Client : conn'[c].st = "up" => conn[c].st = "up" /\ conn'[c].ns = conn[c].ns
    PROVE  Arrivals'
BY DEF Arrivals, OnBus

\* A client posts INIT before any event of its namespace.
LEMMA ClientArrivals ==
    ASSUME Types, Arrivals, NEW c \in Client, Connect(c) \/ PostInit(c) \/ Forward(c) \/ ReadFails(c)
    PROVE  Arrivals'
<1>1. /\ UNCHANGED <<loop, cached>> /\ WiresOK /\ BusOK
      /\ \A n : Ready(n) <=> Ready(n)'
  BY TypeParts DEF AllParts, Connect, PostInit, Forward, ReadFails, Ready, Loading, store
<1>2. CASE Connect(c) \/ ReadFails(c)
  <2>1. /\ UNCHANGED bus
        /\ \A d \in Client : conn'[d].ns = conn[d].ns /\ (d # c => conn'[d] = conn[d])
        /\ conn'[c].st \in {"posting", "down"}
        /\ conn[c].st # "none"
    BY <1>2, ConnSteps DEF Connect, ReadFails
  <2>2. \A n : HasClient(n) => HasClient(n)'
    BY <2>1, ClientsStay
  <2> QED BY <1>1, <2>1, <2>2, ArrivalsKept DEF Arrivals
<1>3. CASE PostInit(c)
  <2> DEFINE e == InitSignal(conn[c].ns)
  <2>1. /\ bus' = Append(bus, e) /\ conn[c].st = "posting"
        /\ \A d \in Client : conn'[d].ns = conn[d].ns /\ (d # c => conn'[d] = conn[d])
        /\ conn'[c].st = "up"
        /\ conn[c].ns \in Namespace
    BY <1>1, <1>3, ConnSteps DEF PostInit, WiresOK
  <2>2. e.ns = conn[c].ns /\ InitOf(e, conn[c].ns) /\ e \in Message /\ bus \in Seq(Message)
    BY <1>1, <2>1, ConstantTypes DEF InitSignal, Event, InitOf, BusOK
  <2> HIDE DEF e
  <2>3. /\ DOMAIN bus' = 1..Len(bus') /\ DOMAIN bus = 1..Len(bus)
        /\ Len(bus') \in DOMAIN bus' /\ bus'[Len(bus')] = e
        /\ \A i \in DOMAIN bus : i \in DOMAIN bus' /\ i < Len(bus') /\ bus'[i] = bus[i]
        /\ \A i \in DOMAIN bus' : i # Len(bus') => i \in DOMAIN bus
    BY <2>1, <2>2, Appended
  <2>4. \A n : HasClient(n) => HasClient(n)'
    BY <2>1, ClientsStay
  <2>5. HasClient(conn[c].ns)
    BY <2>1 DEF HasClient
  <2>6. \A n \in Namespace : Ready(n)' \/ OnBus(n)' => HasClient(n)'
    BY <1>1, <2>2, <2>3, <2>4, <2>5 DEF Arrivals, OnBus
  <2>7. ASSUME NEW n \in Namespace, ~Ready(n)'
        PROVE  /\ \A j \in DOMAIN bus' : bus'[j].ns = n =>
                     InitOf(bus'[j], n) \/ \E i \in DOMAIN bus' : i < j /\ InitOf(bus'[i], n)
               /\ \A d \in Client : conn'[d].ns = n /\ conn'[d].st = "up" =>
                     \E i \in DOMAIN bus' : InitOf(bus'[i], n)
    <3>1. /\ \A j \in DOMAIN bus : bus[j].ns = n =>
                InitOf(bus[j], n) \/ \E i \in DOMAIN bus : i < j /\ InitOf(bus[i], n)
          /\ \A d \in Client : conn[d].ns = n /\ conn[d].st = "up" =>
                \E i \in DOMAIN bus : InitOf(bus[i], n)
      BY <1>1, <2>7 DEF Arrivals
    <3>2. \A j \in DOMAIN bus' : bus'[j].ns = n =>
             InitOf(bus'[j], n) \/ \E i \in DOMAIN bus' : i < j /\ InitOf(bus'[i], n)
      BY <2>2, <2>3, <3>1
    <3>3. \A d \in Client : conn'[d].ns = n /\ conn'[d].st = "up" =>
             \E i \in DOMAIN bus' : InitOf(bus'[i], n)
      BY <2>1, <2>2, <2>3, <3>1
    <3> QED BY <3>2, <3>3
  <2> QED BY <1>1, <2>4, <2>6, <2>7 DEF Arrivals
<1>4. CASE Forward(c)
  <2> DEFINE e == Head(feed[c])
  <2>1. /\ bus' = Append(bus, e) /\ conn[c].st = "up" /\ conn' = conn
        /\ e \in Message /\ e.ns = conn[c].ns /\ bus \in Seq(Message)
    BY <1>1, <1>4, ForwardDoes, ConstantTypes DEF Forward, BusOK
  <2> HIDE DEF e
  <2>3. /\ DOMAIN bus' = 1..Len(bus') /\ DOMAIN bus = 1..Len(bus)
        /\ Len(bus') \in DOMAIN bus' /\ bus'[Len(bus')] = e
        /\ \A i \in DOMAIN bus : i \in DOMAIN bus' /\ i < Len(bus') /\ bus'[i] = bus[i]
        /\ \A i \in DOMAIN bus' : i # Len(bus') => i \in DOMAIN bus
    BY <2>1, Appended
  <2>4. \A n : HasClient(n) <=> HasClient(n)'
    BY <2>1 DEF HasClient
  <2>5. HasClient(conn[c].ns)
    BY <2>1 DEF HasClient
  <2>6. \A n \in Namespace : Ready(n)' \/ OnBus(n)' => HasClient(n)'
    BY <1>1, <2>1, <2>3, <2>4, <2>5 DEF Arrivals, OnBus
  <2>7. ASSUME NEW n \in Namespace, ~Ready(n)'
        PROVE  /\ \A j \in DOMAIN bus' : bus'[j].ns = n =>
                     InitOf(bus'[j], n) \/ \E i \in DOMAIN bus' : i < j /\ InitOf(bus'[i], n)
               /\ \A d \in Client : conn'[d].ns = n /\ conn'[d].st = "up" =>
                     \E i \in DOMAIN bus' : InitOf(bus'[i], n)
    <3>1. /\ \A j \in DOMAIN bus : bus[j].ns = n =>
                InitOf(bus[j], n) \/ \E i \in DOMAIN bus : i < j /\ InitOf(bus[i], n)
          /\ \A d \in Client : conn[d].ns = n /\ conn[d].st = "up" =>
                \E i \in DOMAIN bus : InitOf(bus[i], n)
      BY <1>1, <2>7 DEF Arrivals
    <3>2. \A j \in DOMAIN bus' : bus'[j].ns = n =>
             InitOf(bus'[j], n) \/ \E i \in DOMAIN bus' : i < j /\ InitOf(bus'[i], n)
      BY <2>1, <2>3, <3>1
    <3>3. \A d \in Client : conn'[d].ns = n /\ conn'[d].st = "up" =>
             \E i \in DOMAIN bus' : InitOf(bus'[i], n)
      BY <2>1, <2>3, <3>1
    <3> QED BY <3>2, <3>3
  <2> QED BY <1>1, <2>4, <2>6, <2>7 DEF Arrivals
<1> QED BY <1>2, <1>3, <1>4

\* An event finds its namespace: nothing precedes the head of the bus.
LEMMA EventFindsNamespace ==
    ASSUME Types, Arrivals, TakeEvent
    PROVE  Head(bus).ns \in cached
<1>1. /\ bus \in Seq(Message) /\ bus # <<>> /\ Head(bus) \in ObjectEvent /\ loop.at = "idle"
  BY BusTaken, TypeParts DEF AllParts, BusOK, TakeEvent
<1>2. 1 \in DOMAIN bus /\ bus[1] = Head(bus) /\ \A i \in DOMAIN bus : ~(i < 1)
  BY <1>1
<1>3. Head(bus).ns \in Namespace /\ Head(bus).obj # "INIT"
  BY <1>1, ConstantTypes DEF ObjectEvent
<1> QED BY <1>1, <1>2, <1>3 DEF Arrivals, Ready, Loading, InitOf

\* Taking a message: an INIT that leaves the bus is in the loop's hands.
LEMMA TakeArrivals ==
    ASSUME Types, Arrivals, TakeInit \/ TakeEvent
    PROVE  Arrivals'
<1>1. /\ bus \in Seq(Message) /\ bus # <<>> /\ bus' = Tail(bus) /\ loop.at = "idle"
      /\ UNCHANGED <<conn, cached>> /\ Head(bus) \in Message
  BY BusTaken, TypeParts DEF AllParts, BusOK, TakeInit, TakeEvent, wires, store
<1>2. /\ 1 \in DOMAIN bus /\ bus[1] = Head(bus)
      /\ DOMAIN bus = 1..Len(bus) /\ Len(bus) \in Nat /\ DOMAIN bus' \subseteq Nat
      /\ \A i \in DOMAIN bus' : i + 1 \in DOMAIN bus /\ bus'[i] = bus[i + 1]
      /\ \A i \in DOMAIN bus : i # 1 => i - 1 \in DOMAIN bus' /\ bus'[i - 1] = bus[i]
  BY <1>1, Taken
<1>3. \A n : HasClient(n) <=> HasClient(n)'
  BY <1>1 DEF HasClient
<1>4. /\ loop'.at # "panicked"
      /\ \A n : Ready(n)' <=> Ready(n) \/ InitOf(Head(bus), n)
  <2>1. CASE TakeInit
    BY <1>1, <2>1 DEF TakeInit, Ready, Loading, InitOf, IdleLoop
  <2>2. CASE TakeEvent
    <3>1. loop' = AfterUpdate
      BY <2>2, EventFindsNamespace DEF TakeEvent
    <3>2. loop'.at \in {"idle", "callback"}
      BY <3>1 DEF AfterUpdate, IdleLoop
    <3> QED BY <1>1, <2>2, <3>2 DEF TakeEvent, Ready, Loading, InitOf
  <2> QED BY <2>1, <2>2
<1>5. \A n : OnBus(n)' \/ InitOf(Head(bus), n) => OnBus(n)
  BY <1>2 DEF OnBus, InitOf
<1>6. \A n \in Namespace : Ready(n)' \/ OnBus(n)' => HasClient(n)'
  BY <1>3, <1>4, <1>5 DEF Arrivals
<1>8. ASSUME NEW n \in Namespace, ~Ready(n)'
      PROVE  /\ \A j \in DOMAIN bus' : bus'[j].ns = n =>
                   InitOf(bus'[j], n) \/ \E i \in DOMAIN bus' : i < j /\ InitOf(bus'[i], n)
             /\ \A d \in Client : conn'[d].ns = n /\ conn'[d].st = "up" =>
                   \E i \in DOMAIN bus' : InitOf(bus'[i], n)
  <2>1. /\ \A j \in DOMAIN bus : bus[j].ns = n =>
              InitOf(bus[j], n) \/ \E i \in DOMAIN bus : i < j /\ InitOf(bus[i], n)
        /\ \A d \in Client : conn[d].ns = n /\ conn[d].st = "up" =>
              \E i \in DOMAIN bus : InitOf(bus[i], n)
    BY <1>4, <1>8 DEF Arrivals
  <2>2. ~InitOf(bus[1], n)
    BY <1>2, <1>4, <1>8
  <2>3. ASSUME NEW j \in DOMAIN bus', bus'[j].ns = n, ~InitOf(bus'[j], n)
        PROVE  \E i \in DOMAIN bus' : i < j /\ InitOf(bus'[i], n)
    <3>1. PICK i \in DOMAIN bus : i < j + 1 /\ InitOf(bus[i], n)
      BY <1>2, <2>1, <2>3
    <3>2. i # 1 /\ i - 1 \in DOMAIN bus' /\ i - 1 < j /\ bus'[i - 1] = bus[i]
      BY <1>2, <2>2, <3>1
    <3> QED BY <3>1, <3>2
  <2>4. ASSUME NEW d \in Client, conn'[d].ns = n, conn'[d].st = "up"
        PROVE  \E i \in DOMAIN bus' : InitOf(bus'[i], n)
    <3>1. PICK i \in DOMAIN bus : InitOf(bus[i], n)
      BY <1>1, <2>1, <2>4
    <3>2. i - 1 \in DOMAIN bus' /\ bus'[i - 1] = bus[i]
      BY <1>2, <2>2, <3>1
    <3> QED BY <3>1, <3>2
  <2> QED BY <2>3, <2>4
<1> QED BY <1>4, <1>6, <1>8 DEF Arrivals

\* The other steps of the loop and the readers keep Arrivals.
LEMMA OtherArrivals ==
    ASSUME Types, Arrivals,
           \/ \E n \in Namespace, o \in Object, v \in Nat : Publishing(n, o, v)
           \/ WriteThrough
           \/ ListNamespace \/ ListFails \/ InstallNamespace \/ CallbackReadsCached \/ CallbackPolls
           \/ \E n \in Namespace : CallbackMisses(n)
           \/ \E r \in Reader : ReadPolls(r) \/ \E n \in Namespace : ReadMisses(r, n)
           \/ UNCHANGED vars
    PROVE  Arrivals'
<1>1. CASE \/ \E n \in Namespace, o \in Object, v \in Nat : Publishing(n, o, v)
           \/ WriteThrough \/ UNCHANGED vars
           \/ \E r \in Reader : ReadPolls(r)
  <2>1. UNCHANGED <<conn, bus, cached, loop>>
    BY <1>1 DEF Publishing, ChangedByOthers, Call, WriteThrough, ReadPolls, vars, wires, store
  <2>2. \A n : (HasClient(n) <=> HasClient(n)') /\ (Ready(n) <=> Ready(n)')
    BY <2>1 DEF HasClient, Ready, Loading
  <2> QED BY <2>1, <2>2, ArrivalsKept DEF Arrivals
<1>2. CASE \E r \in Reader, n \in Namespace : ReadMisses(r, n)
  <2>1. PICK n \in Namespace : NewClient(n) /\ UNCHANGED <<feed, bus, cached, loop>>
    BY <1>2 DEF ReadMisses, store
  <2>2. PICK c \in Client :
          /\ conn[c].st = "none" /\ conn'[c] = [ns |-> n, st |-> "down"]
          /\ \A d \in Client : d # c => conn'[d] = conn[d]
    BY <2>1, NewClientDoes
  <2>3. \A m : HasClient(m) => HasClient(m)'
    BY <2>2, ClientsStay
  <2>4. \A m : Ready(m) <=> Ready(m)'
    BY <2>1 DEF Ready, Loading
  <2> QED BY <2>1, <2>2, <2>3, <2>4, ArrivalsKept DEF Arrivals
<1>3. CASE \E n \in Namespace : CallbackMisses(n)
  <2>1. PICK n \in Namespace : /\ NewClient(n) /\ UNCHANGED <<feed, bus, cached>>
                               /\ loop.at = "callback" /\ loop'.at = "poll"
    BY <1>3 DEF CallbackMisses, store, IdleLoop
  <2>2. PICK c \in Client :
          /\ conn[c].st = "none" /\ conn'[c] = [ns |-> n, st |-> "down"]
          /\ \A d \in Client : d # c => conn'[d] = conn[d]
    BY <2>1, NewClientDoes
  <2>3. \A m : HasClient(m) => HasClient(m)'
    BY <2>2, ClientsStay
  <2>4. \A m : Ready(m) <=> Ready(m)'
    BY <2>1 DEF Ready, Loading
  <2> QED BY <2>1, <2>2, <2>3, <2>4, ArrivalsKept
<1>4. CASE ListNamespace \/ ListFails \/ InstallNamespace \/ CallbackReadsCached \/ CallbackPolls
  <2>1. LoopOK /\ UNCHANGED <<bus, conn>>
    BY <1>4, TypeParts DEF AllParts, ListNamespace, ListFails, InstallNamespace, CallbackReadsCached,
                           CallbackPolls, wires
  <2>2. loop'.at # "panicked" /\ \A n : Ready(n) <=> Ready(n)'
    <3>1. CASE ListNamespace \/ ListFails
      BY <2>1, <3>1 DEF ListNamespace, ListFails, Ready, Loading, store, LoopOK
    <3>2. CASE InstallNamespace
      <4>1. loop'.at \in {"idle", "callback"}
        BY <3>2 DEF InstallNamespace, AfterUpdate, IdleLoop
      <4> QED BY <3>2, <4>1 DEF InstallNamespace, Ready, Loading
    <3>3. CASE CallbackReadsCached \/ CallbackPolls
      BY <2>1, <3>3 DEF CallbackReadsCached, CallbackPolls, Ready, Loading, store, LoopOK, IdleLoop
    <3> QED BY <1>4, <3>1, <3>2, <3>3
  <2>3. \A n : HasClient(n) <=> HasClient(n)'
    BY <2>1 DEF HasClient
  <2>4. \A c \in Client : conn'[c] = conn[c]
    BY <2>1
  <2> QED BY <2>1, <2>2, <2>3, <2>4, ArrivalsKept
<1> QED BY <1>1, <1>2, <1>3, <1>4

\* Every step keeps Arrivals.
LEMMA NextArrivals == Types /\ Arrivals /\ [Next]_vars => Arrivals'
BY NextCases, ClientArrivals, TakeArrivals, OtherArrivals

-----------------------------------------------------------------------------
(* Truth.                                                                  *)

\* At the start nothing has been told but what the cluster holds.
LEMMA InitTruthful == Init => Truthful
<1> SUFFICES ASSUME Init PROVE Truthful
  OBVIOUS
<1>1. /\ past = [n \in Namespace |-> {Listed(n)}] /\ loop.at = "idle" /\ ~write.due
      /\ DOMAIN bus = {} /\ \A c \in Client : DOMAIN feed[c] = {}
  BY DEF Init, IdleLoop, NoWrite
<1>2. \A n \in Namespace : Listed(n) \in past[n]
  BY <1>1
<1>3. \A e \in ObjectEvent : ~Underway(e)
  BY <1>1 DEF Underway, InQueue
<1> QED BY <1>1, <1>2, <1>3 DEF Truthful

\* A queue that grows by one event, or loses its first, holds nothing else.
LEMMA QueuesHold ==
    ASSUME NEW S, NEW s \in Seq(S)
    PROVE  /\ \A x \in S : \A f : InQueue(Append(s, x), f) => f = x \/ InQueue(s, f)
           /\ s # <<>> => /\ InQueue(s, Head(s))
                          /\ \A f : InQueue(Tail(s), f) => InQueue(s, f)
<1>1. ASSUME NEW x \in S, NEW f, InQueue(Append(s, x), f) PROVE f = x \/ InQueue(s, f)
  <2> DEFINE t == Append(s, x)
  <2>1. t \in Seq(S) /\ t = Append(s, x)
    OBVIOUS
  <2> HIDE DEF t
  <2>2. /\ t[Len(t)] = x /\ \A i \in DOMAIN s : t[i] = s[i]
        /\ \A i \in DOMAIN t : i # Len(t) => i \in DOMAIN s
    BY <2>1, Appended
  <2>3. InQueue(t, f)
    BY <1>1, <2>1
  <2> QED BY <2>2, <2>3 DEF InQueue
<1>2. ASSUME s # <<>>
      PROVE  InQueue(s, Head(s)) /\ \A f : InQueue(Tail(s), f) => InQueue(s, f)
  <2> DEFINE t == Tail(s)
  <2>1. t = Tail(s)
    OBVIOUS
  <2> HIDE DEF t
  <2>2. /\ 1 \in DOMAIN s /\ s[1] = Head(s)
        /\ \A i \in DOMAIN t : i + 1 \in DOMAIN s /\ t[i] = s[i + 1]
    BY <1>2, <2>1, Taken
  <2>3. InQueue(s, Head(s)) /\ \A f : InQueue(t, f) => InQueue(s, f)
    BY <2>2 DEF InQueue
  <2> QED BY <2>1, <2>3
<1> QED BY <1>1, <1>2

\* What the cluster has held stays among what it has held.
LEMMA ToldStays ==
    ASSUME UNCHANGED kind, \A m \in Namespace : past[m] \subseteq past'[m]
    PROVE  \A e \in ObjectEvent : Told(e) => Told(e)'
BY DEF Told, FilterRequired, ObjectEvent

\* A change of the cluster joins its past with the event that tells it.
LEMMA PublishingTruthful ==
    ASSUME Types, Truthful, NEW n \in Namespace, NEW o \in Object, NEW v \in Nat, Publishing(n, o, v)
    PROVE  Truthful'
<1> DEFINE e == Event(n, o, v)
<1>1. /\ Publish(n, o, v) /\ UNCHANGED <<kind, conn, bus, loop>>
      /\ UNCHANGED write \/ write' = [due |-> TRUE, msg |-> e]
  BY DEF Publishing, ChangedByOthers, Call
<1>2. e.ns = n /\ e.obj = o /\ e.ver = v
  BY DEF Event
<1> HIDE DEF e
<1>3. /\ e \in ObjectEvent /\ cluster'[n][o] = v
      /\ \A m \in Namespace : m # n => Listed(m)' = Listed(m)
      /\ \A p \in Object : Listed(n)'[p] = IF FilterRequired(p) THEN cluster'[n][p] ELSE 0
      /\ \A p : FilterRequired(p)' <=> FilterRequired(p)
      /\ \A m \in Namespace : past[m] \subseteq past'[m] /\ (m # n => past'[m] = past[m])
      /\ FilterRequired(o) => past'[n] = past[n] \union {Listed(n)'}
      /\ ~FilterRequired(o) => past' = past /\ Listed(n)' = Listed(n)
      /\ \A c \in Client : feed'[c] = feed[c] \/ feed'[c] = Append(feed[c], e)
  BY <1>1, PublishDoes DEF e
<1>4. \A f \in ObjectEvent : Told(f) => Told(f)'
  BY <1>1, <1>3, ToldStays
<1>5. Told(e)'
  BY <1>2, <1>3 DEF Told
<1>6. \A f \in ObjectEvent : Underway(f)' => f = e \/ Underway(f)
  <2>1. \A c \in Client : feed[c] \in Seq(ObjectEvent)
    BY DEF Types, Feeds
  <2>2. \A c \in Client, f \in ObjectEvent : InQueue(feed'[c], f) => f = e \/ InQueue(feed[c], f)
    <3> SUFFICES ASSUME NEW c \in Client
                 PROVE  \A f \in ObjectEvent : InQueue(feed'[c], f) => f = e \/ InQueue(feed[c], f)
      OBVIOUS
    <3>1. \A f : InQueue(Append(feed[c], e), f) => f = e \/ InQueue(feed[c], f)
      BY <1>3, <2>1, QueuesHold
    <3> QED BY <3>1, <1>3
  <2> QED BY <1>1, <2>2 DEF Underway, InQueue
<1>7. \A m \in Namespace : Listed(m)' \in past'[m]
  BY <1>3 DEF Truthful
<1>8. loop'.at = "install" => loop'.got \in past'[loop'.ns] \union {Blank}
  BY <1>1, <1>3, TypeParts DEF AllParts, Truthful, LoopOK
<1> QED BY <1>4, <1>5, <1>6, <1>7, <1>8 DEF Truthful

\* A step of the service tells nothing new.
LEMMA ServiceTellsNothing ==
    ASSUME Types,
           \/ WriteThrough
           \/ \E c \in Client : Connect(c) \/ PostInit(c) \/ Forward(c) \/ ReadFails(c)
           \/ TakeInit \/ TakeEvent \/ ListNamespace \/ ListFails \/ InstallNamespace
           \/ CallbackReadsCached \/ CallbackPolls
           \/ \E n \in Namespace : CallbackMisses(n)
           \/ \E r \in Reader : ReadPolls(r) \/ \E n \in Namespace : ReadMisses(r, n)
           \/ UNCHANGED vars
    PROVE  /\ UNCHANGED <<kind, cluster, past>>
           /\ \A e \in ObjectEvent : Underway(e)' => Underway(e)
<1>1. UNCHANGED <<kind, cluster, past>>
  BY DEF WriteThrough, Connect, PostInit, Forward, ReadFails, TakeInit, TakeEvent, ListNamespace,
         ListFails, InstallNamespace, CallbackReadsCached, CallbackPolls, CallbackMisses, ReadPolls,
         ReadMisses, vars, world
<1>2. CASE WriteThrough
  BY <1>1, <1>2, ConstantTypes DEF WriteThrough, Underway, InQueue, wires
<1>3. ASSUME NEW c \in Client, Connect(c) \/ PostInit(c) \/ Forward(c) \/ ReadFails(c)
      PROVE  \A e \in ObjectEvent : Underway(e)' => Underway(e)
  <2>1. /\ UNCHANGED write /\ bus \in Seq(Message) /\ conn[c].ns \in Namespace
        /\ feed \in [Client -> Seq(Message)]
    BY <1>3, TypeParts DEF AllParts, BusOK, WiresOK, Connect, PostInit, Forward, ReadFails
  <2>2. CASE Connect(c)
    BY <2>1, <2>2 DEF Connect, Underway, InQueue
  <2>3. CASE PostInit(c)
    <3>1. bus' = Append(bus, InitSignal(conn[c].ns)) /\ UNCHANGED feed
      BY <2>3 DEF PostInit
    <3>2. /\ InitSignal(conn[c].ns) \in Message
          /\ \A e \in ObjectEvent : e # InitSignal(conn[c].ns)
      BY <2>1, ConstantTypes DEF InitSignal, Event
    <3>3. \A e \in ObjectEvent : InQueue(bus', e) => InQueue(bus, e)
      BY <2>1, <3>1, <3>2, QueuesHold
    <3> QED BY <2>1, <3>1, <3>3 DEF Underway, InQueue
  <2>4. CASE Forward(c)
    <3>1. /\ bus' = Append(bus, Head(feed[c])) /\ Head(feed[c]) \in Message
          /\ feed[c] # <<>> /\ feed[c] \in Seq(ObjectEvent) /\ feed'[c] = Tail(feed[c])
          /\ \A d \in Client : d # c => feed'[d] = feed[d]
      BY <2>4, ForwardDoes, ConstantTypes
    <3>2. \A e \in ObjectEvent : InQueue(bus', e) => InQueue(bus, e) \/ InQueue(feed[c], e)
      BY <2>1, <3>1, QueuesHold
    <3>3. \A d \in Client, e \in ObjectEvent : InQueue(feed'[d], e) => InQueue(feed[d], e)
      BY <3>1, QueuesHold
    <3> QED BY <2>1, <3>2, <3>3 DEF Underway
  <2>5. CASE ReadFails(c)
    <3>1. UNCHANGED bus /\ \A d \in Client : feed'[d] = feed[d] \/ feed'[d] = <<>>
      BY <2>1, <2>5 DEF ReadFails
    <3>2. \A d \in Client, e \in ObjectEvent : InQueue(feed'[d], e) => InQueue(feed[d], e)
      BY <3>1 DEF InQueue
    <3> QED BY <2>1, <3>1, <3>2 DEF Underway, InQueue
  <2> QED BY <1>3, <2>2, <2>3, <2>4, <2>5
<1>4. CASE TakeInit \/ TakeEvent
  <2>1. bus \in Seq(Message) /\ bus # <<>> /\ bus' = Tail(bus) /\ UNCHANGED <<write, feed>>
    BY <1>4, TypeParts DEF AllParts, BusOK, TakeInit, TakeEvent, wires
  <2>2. \A e \in ObjectEvent : InQueue(bus', e) => InQueue(bus, e)
    BY <2>1, QueuesHold
  <2> QED BY <1>1, <2>1, <2>2 DEF Underway, InQueue
<1>5. CASE \/ ListNamespace \/ ListFails \/ InstallNamespace \/ CallbackReadsCached \/ CallbackPolls
           \/ \E n \in Namespace : CallbackMisses(n)
           \/ UNCHANGED vars
           \/ \E r \in Reader : ReadPolls(r) \/ \E n \in Namespace : ReadMisses(r, n)
  <2>1. UNCHANGED <<bus, feed, write>>
    BY <1>5 DEF ListNamespace, ListFails, InstallNamespace, CallbackReadsCached, CallbackPolls,
                CallbackMisses, ReadPolls, ReadMisses, vars, wires
  <2> QED BY <1>1, <2>1 DEF Underway, InQueue
<1> QED BY <1>1, <1>2, <1>3, <1>4, <1>5

\* Every step keeps Truthful.
LEMMA NextTruthful == Types /\ Truthful /\ [Next]_vars => Truthful'
<1> SUFFICES ASSUME Types, Truthful, [Next]_vars,
                    ~ \E n \in Namespace, o \in Object, v \in Nat : Publishing(n, o, v)
             PROVE  Truthful'
  BY PublishingTruthful
<1>1. \/ WriteThrough
      \/ \E c \in Client : Connect(c) \/ PostInit(c) \/ Forward(c) \/ ReadFails(c)
      \/ TakeInit \/ TakeEvent \/ ListNamespace \/ ListFails \/ InstallNamespace
      \/ CallbackReadsCached \/ CallbackPolls
      \/ \E n \in Namespace : CallbackMisses(n)
      \/ \E r \in Reader : ReadPolls(r) \/ \E n \in Namespace : ReadMisses(r, n)
      \/ UNCHANGED vars
  BY NextCases
<1>2. /\ UNCHANGED <<kind, cluster, past>>
      /\ \A e \in ObjectEvent : Underway(e)' => Underway(e)
  BY <1>1, ServiceTellsNothing
<1>3. (\A e \in ObjectEvent : Told(e) => Told(e)') /\ \A n : Listed(n)' = Listed(n)
  BY <1>2, ToldStays DEF Listed, FilterRequired
<1>4. loop'.at = "install" => loop'.got \in past'[loop'.ns] \union {Blank}
  <2>1. LoopOK
    BY TypeParts DEF AllParts
  <2>2. CASE ListNamespace \/ ListFails
    BY <1>2, <2>1, <2>2 DEF ListNamespace, ListFails, Truthful, LoopOK
  <2>3. CASE ~ListNamespace /\ ~ListFails
    <3>1. loop' = loop \/ loop'.at # "install"
      <4>1. AfterUpdate.at # "install" /\ IdleLoop.at # "install"
        BY DEF AfterUpdate, IdleLoop
      <4>2. CASE TakeInit \/ TakeEvent \/ InstallNamespace \/ CallbackReadsCached
        BY <4>1, <4>2 DEF TakeInit, TakeEvent, InstallNamespace, CallbackReadsCached, IdleLoop
      <4>3. CASE CallbackPolls \/ \E n \in Namespace : CallbackMisses(n)
        BY <4>1, <4>3, <2>1 DEF CallbackPolls, CallbackMisses, IdleLoop, LoopOK
      <4>4. CASE ~(\/ TakeInit \/ TakeEvent \/ InstallNamespace \/ CallbackReadsCached
                   \/ CallbackPolls \/ \E n \in Namespace : CallbackMisses(n))
        BY <1>1, <2>3, <4>4 DEF WriteThrough, Connect, PostInit, Forward, ReadFails, ReadPolls,
                                ReadMisses, vars
      <4> QED BY <4>2, <4>3, <4>4
    <3> QED BY <1>2, <3>1 DEF Truthful
  <2> QED BY <2>2, <2>3
<1> QED BY <1>2, <1>3, <1>4 DEF Truthful

-----------------------------------------------------------------------------
(* The mirror.                                                             *)

\* At the start nothing is shown.
LEMMA InitMirror == Init => Promise!Init
<1> SUFFICES ASSUME Init PROVE Promise!Init
  OBVIOUS
<1>1. /\ past = [n \in Namespace |-> {Listed(n)}]
      /\ \A n \in Namespace : cache[n] \in {Listed(n), Blank}
      /\ cached \subseteq Namespace
  BY DEF Init
<1>2. Promise!Blank = Blank
  BY DEF Promise!Blank, Blank
<1> QED BY <1>1, <1>2 DEF Promise!Init

\* One object that takes a value of the past, or stays as it is.
LEMMA EventIsShown ==
    ASSUME Types, Truthful, NEW e \in ObjectEvent, Underway(e),
           UNCHANGED <<cluster, kind, past, cached>>, cache' = UpdateCache(e)
    PROVE  Promise!Next \/ UNCHANGED Promise!vars
<1>1. \A n : Listed(n)' = Listed(n)
  BY DEF Listed, FilterRequired
<1>2. CASE e.ns \in cached /\ FilterRequired(e.obj)
  <2>1. PICK before \in past[e.ns] : before[e.obj] = e.ver
    BY <1>2 DEF Truthful, Told
  <2>2. cache' = [cache EXCEPT ![e.ns][e.obj] = before[e.obj]]
    BY <1>2, <2>1 DEF UpdateCache
  <2>3. e.ns \in Namespace /\ e.obj \in Object
    BY DEF ObjectEvent
  <2>4. Promise!ShowObject(e.ns, e.obj)
    BY <1>1, <1>2, <2>2 DEF Promise!ShowObject
  <2> QED BY <2>3, <2>4 DEF Promise!Next
<1>3. CASE ~(e.ns \in cached /\ FilterRequired(e.obj))
  BY <1>1, <1>3 DEF UpdateCache, Promise!vars
<1> QED BY <1>2, <1>3

\* Every step is a step of the mirror, or none.
LEMMA NextMirror ==
    Types /\ Truthful /\ [Next]_vars => [Promise!Next]_(Promise!vars)
<1> SUFFICES ASSUME Types, Truthful, [Next]_vars PROVE Promise!Next \/ UNCHANGED Promise!vars
  OBVIOUS
<1>1. ASSUME NEW n \in Namespace, NEW o \in Object, NEW v \in Nat, Publishing(n, o, v)
      PROVE  Promise!Next \/ UNCHANGED Promise!vars
  <2>1. Publish(n, o, v) /\ UNCHANGED <<kind, conn, cached, cache>>
    BY <1>1 DEF Publishing, ChangedByOthers, Call, store
  <2>2. /\ cluster' \in [Namespace -> Content] /\ cluster'[n][o] = v
        /\ \A m \in Namespace : m # n => Listed(m)' = Listed(m)
        /\ \A p \in Object : p # o => cluster'[n][p] = cluster[n][p]
        /\ \A p \in Object : Listed(n)'[p] = IF FilterRequired(p) THEN cluster'[n][p] ELSE 0
        /\ past' \in [Namespace -> SUBSET Content]
        /\ \A m \in Namespace : m # n => past'[m] = past[m]
        /\ FilterRequired(o) => past'[n] = past[n] \union {Listed(n)'}
        /\ ~FilterRequired(o) => past' = past /\ Listed(n)' = Listed(n)
    BY <2>1, PublishDoes
  <2>3. past \in [Namespace -> SUBSET Content]
    BY DEF Types, TypeOK
  <2>4. CASE ~FilterRequired(o)
    <3>1. \A m \in Namespace : Listed(m)' = Listed(m)
      BY <2>2, <2>4
    <3>2. [m \in Namespace |-> Listed(m)]' = [m \in Namespace |-> Listed(m)]
      BY <3>1
    <3> QED BY <2>1, <2>2, <2>4, <3>2 DEF Promise!vars
  <2>5. CASE FilterRequired(o)
    <3> DEFINE src == [m \in Namespace |-> Listed(m)]
               now == Listed(n)'
    <3>1. now = [Listed(n) EXCEPT ![o] = v] /\ now[o] = v
      <4>1. now = [p \in Object |-> IF FilterRequired(p) THEN cluster'[n][p] ELSE 0]
        BY <2>1 DEF Listed, FilterRequired
      <4>2. Listed(n) = [p \in Object |-> IF FilterRequired(p) THEN cluster[n][p] ELSE 0]
        BY DEF Listed
      <4> QED BY <2>2, <2>5, <4>1, <4>2
    <3>2. src' = [src EXCEPT ![n] = now]
      <4>1. src' = [m \in Namespace |-> IF m = n THEN now ELSE Listed(m)]
        BY <2>2
      <4> QED BY <4>1
    <3>3. src' = [src EXCEPT ![n][o] = src'[n][o]] /\ src'[n][o] \in Nat
      <4>1. src[n] = Listed(n) /\ src'[n] = now
        BY <3>2
      <4>2. src' = [src EXCEPT ![n] = [src[n] EXCEPT ![o] = src'[n][o]]]
        BY <3>1, <3>2, <4>1
      <4> QED BY <4>1, <4>2, <3>1
    <3>4. past' = [past EXCEPT ![n] = @ \union {src'[n]}]
      BY <2>2, <2>3, <2>5, <3>2
    <3>5. Promise!SourceChanges(n, o)
      BY <2>1, <3>3, <3>4 DEF Promise!SourceChanges
    <3> QED BY <3>5 DEF Promise!Next
  <2> QED BY <2>4, <2>5
<1> SUFFICES ASSUME ~ \E n \in Namespace, o \in Object, v \in Nat : Publishing(n, o, v)
             PROVE  Promise!Next \/ UNCHANGED Promise!vars
  BY <1>1
<1>2. \/ WriteThrough
      \/ \E c \in Client : Connect(c) \/ PostInit(c) \/ Forward(c) \/ ReadFails(c)
      \/ TakeInit \/ TakeEvent \/ ListNamespace \/ ListFails \/ InstallNamespace
      \/ CallbackReadsCached \/ CallbackPolls
      \/ \E n \in Namespace : CallbackMisses(n)
      \/ \E r \in Reader : ReadPolls(r) \/ \E n \in Namespace : ReadMisses(r, n)
      \/ UNCHANGED vars
  BY NextCases
<1>3. UNCHANGED <<kind, cluster, past>> /\ \A n : Listed(n)' = Listed(n)
  BY <1>2, ServiceTellsNothing DEF Listed, FilterRequired
<1>4. CASE WriteThrough
  <2>1. write.msg \in ObjectEvent /\ Underway(write.msg)
    BY <1>4, TypeParts DEF AllParts, WriteOK, WriteThrough, Underway
  <2> QED BY <1>3, <1>4, <2>1, EventIsShown DEF WriteThrough
<1>5. CASE TakeEvent
  <2>1. Head(bus) \in ObjectEvent
    BY <1>5, BusTaken DEF TakeEvent
  <2>2. Underway(Head(bus))
    BY <1>5, TypeParts, QueuesHold DEF AllParts, BusOK, TakeEvent, Underway
  <2> QED BY <1>3, <1>5, <2>1, <2>2, EventIsShown DEF TakeEvent
<1>6. CASE InstallNamespace
  <2>1. loop.ns \in Namespace /\ loop.got \in past[loop.ns] \union {Blank}
    BY <1>6, TypeParts DEF AllParts, LoopOK, Truthful, InstallNamespace
  <2>2. Promise!Blank = Blank
    BY DEF Promise!Blank, Blank
  <2>3. Promise!ShowAll(loop.ns)
    BY <1>3, <1>6, <2>1, <2>2 DEF InstallNamespace, Promise!ShowAll
  <2> QED BY <2>1, <2>3 DEF Promise!Next
<1>7. CASE ~WriteThrough /\ ~TakeEvent /\ ~InstallNamespace
  <2>1. UNCHANGED <<cached, cache>>
    BY <1>2, <1>7 DEF Connect, PostInit, Forward, ReadFails, TakeInit, ListNamespace, ListFails,
                      CallbackReadsCached, CallbackPolls, CallbackMisses, ReadPolls, ReadMisses,
                      vars, store
  <2> QED BY <1>3, <2>1 DEF Promise!vars
<1> QED BY <1>4, <1>5, <1>6, <1>7

-----------------------------------------------------------------------------
(* What was forwarded last is true.                                        *)

\* Only an event of the object, or an INIT signal, is about it.
LEMMA AboutEvents ==
    ASSUME NEW n \in Namespace, NEW o \in Object
    PROVE  /\ \A e \in ObjectEvent : About(e, n, o) <=> e.ns = n /\ e.obj = o
           /\ \A m \in Namespace : About(InitSignal(m), n, o) <=> m = n
           /\ \A m : InitSignal(m) \notin ObjectEvent
           /\ \A e, f : LastAbout(<<>>, n, o, f) => FALSE
BY ConstantTypes DEF About, InitSignal, Event, ObjectEvent, LastAbout

FeedsAreCurrent ==
    \A c \in Client, o \in Object, e \in ObjectEvent :
        LastAbout(feed[c], conn[c].ns, o, e) => e.ver = cluster[conn[c].ns][o]

\* Nothing is cached, nothing has to be current.
LEMMA InitTracks == Init => Tracks
<1> SUFFICES ASSUME Init PROVE Tracks
  OBVIOUS
<1>1. /\ DOMAIN bus = {} /\ \A c \in Client : DOMAIN feed[c] = {}
      /\ loop.at = "idle" /\ 1 \in Client /\ conn[1] = [ns |-> Home, st |-> "down"]
      /\ cached = {Home}
  BY DEF Init, IdleLoop, Client
<1>2. \A o : ~Forwarded(Home, o)
  BY <1>1 DEF Forwarded
<1>3. ASSUME NEW n \in Namespace, NEW o \in Object, n # Home PROVE Tracked(n, o)
  BY <1>1, <1>3 DEF Tracked, LastAbout
<1> QED BY <1>1, <1>2, <1>3 DEF Tracks, LastAbout

\* The end of a feed is what the cluster holds.
LEMMA FeedsStayCurrent ==
    ASSUME Types, FeedsAreCurrent, [Next]_vars
    PROVE  FeedsAreCurrent'
<1>1. /\ \A c \in Client : feed[c] \in Seq(ObjectEvent) /\ conn[c].ns \in Namespace
      /\ \A c \in Client : ~Open(c) => feed[c] = <<>>
  BY TypeParts DEF AllParts, WiresOK, Feeds
<1>2. ASSUME NEW n \in Namespace, NEW o \in Object, NEW v \in Nat, Publishing(n, o, v)
      PROVE  FeedsAreCurrent'
  <2> DEFINE x == Event(n, o, v)
  <2>1. x.ns = n /\ x.obj = o /\ x.ver = v
    BY DEF Event
  <2> HIDE DEF x
  <2>2. /\ x \in ObjectEvent /\ cluster'[n][o] = v /\ UNCHANGED conn
        /\ \A m \in Namespace : m # n => cluster'[m] = cluster[m]
        /\ \A p \in Object : p # o => cluster'[n][p] = cluster[n][p]
        /\ \A c \in Client :
              /\ Open(c) /\ conn[c].ns = n => feed'[c] = Append(feed[c], x)
              /\ ~(Open(c) /\ conn[c].ns = n) => feed'[c] = feed[c]
    BY <1>2, PublishDoes DEF Publishing, ChangedByOthers, Call, x
  <2> SUFFICES ASSUME NEW c \in Client, NEW p \in Object, NEW e \in ObjectEvent,
                      LastAbout(feed'[c], conn[c].ns, p, e)
               PROVE  e.ver = cluster'[conn[c].ns][p]
    BY <2>2 DEF FeedsAreCurrent
  <2>3. LastAbout(feed[c], conn[c].ns, p, e) => e.ver = cluster[conn[c].ns][p]
    BY DEF FeedsAreCurrent
  <2>4. CASE Open(c) /\ conn[c].ns = n /\ p = o
    <3>1. About(x, n, o)
      BY <2>1, <2>2, AboutEvents
    <3>2. e = x
      BY <1>1, <2>2, <2>4, <3>1, AboutAppended
    <3> QED BY <2>1, <2>2, <2>4, <3>2
  <2>5. CASE Open(c) /\ conn[c].ns = n /\ p # o
    <3>1. ~About(x, n, p)
      BY <2>1, <2>2, <2>5, AboutEvents
    <3>2. LastAbout(feed[c], n, p, e)
      BY <1>1, <2>2, <2>5, <3>1, AboutAppended
    <3> QED BY <2>2, <2>3, <2>5, <3>2
  <2>6. CASE ~Open(c)
    <3>1. feed'[c] = <<>>
      BY <1>1, <2>2, <2>6
    <3> QED BY <3>1, <1>1, AboutEvents
  <2>7. CASE conn[c].ns # n
    BY <1>1, <2>2, <2>3, <2>7
  <2> QED BY <2>4, <2>5, <2>6, <2>7
<1>3. ASSUME UNCHANGED cluster,
             \A c \in Client :
                /\ \A o \in Object, e \in ObjectEvent :
                      LastAbout(feed'[c], conn'[c].ns, o, e) => LastAbout(feed[c], conn'[c].ns, o, e)
                /\ conn'[c].ns = conn[c].ns \/ (conn'[c].ns \in Namespace /\ feed[c] = <<>>)
      PROVE  FeedsAreCurrent'
  BY <1>3, AboutEvents DEF FeedsAreCurrent
<1>4. ASSUME NEW c \in Client, Connect(c) \/ PostInit(c) \/ Forward(c) \/ ReadFails(c)
      PROVE  FeedsAreCurrent'
  <2>1. UNCHANGED cluster /\ \A d \in Client : conn'[d].ns = conn[d].ns
    <3>1. CASE Connect(c) \/ PostInit(c) \/ ReadFails(c)
      BY <3>1, ConnSteps DEF Connect, PostInit, ReadFails, world
    <3>2. CASE Forward(c)
      BY <3>2 DEF Forward, world
    <3> QED BY <1>4, <3>1, <3>2
  <2>2. CASE Connect(c) \/ PostInit(c)
    <3>1. UNCHANGED feed
      BY <2>2 DEF Connect, PostInit
    <3> QED BY <1>3, <2>1, <3>1
  <2>3. CASE Forward(c)
    <3>1. /\ feed[c] # <<>> /\ feed[c] \in Seq(ObjectEvent) /\ feed'[c] = Tail(feed[c])
          /\ \A d \in Client : d # c => feed'[d] = feed[d]
      BY <2>3, ForwardDoes
    <3>2. \A n, o, e : LastAbout(feed'[c], n, o, e) => LastAbout(feed[c], n, o, e)
      BY <3>1, AboutTaken
    <3> QED BY <1>3, <2>1, <3>1, <3>2
  <2>4. CASE ReadFails(c)
    <3>1. \A d \in Client : feed'[d] = feed[d] \/ feed'[d] = <<>>
      BY <2>4, TypeParts DEF AllParts, WiresOK, ReadFails
    <3>2. \A d \in Client, n \in Namespace, o \in Object, e \in ObjectEvent :
             LastAbout(feed'[d], n, o, e) => LastAbout(feed[d], n, o, e)
      BY <3>1, AboutEvents
    <3> QED BY <1>1, <1>3, <2>1, <3>2
  <2> QED BY <1>4, <2>2, <2>3, <2>4
<1>5. ASSUME NEW n \in Namespace, NewClient(n), UNCHANGED <<feed, cluster>>
      PROVE  FeedsAreCurrent'
  <2>1. PICK c \in Client :
          /\ conn[c].st = "none" /\ conn'[c] = [ns |-> n, st |-> "down"]
          /\ \A d \in Client : d # c => conn'[d] = conn[d]
    BY <1>5, NewClientDoes
  <2>2. feed[c] = <<>>
    BY <1>1, <2>1 DEF Open
  <2>3. \A d \in Client :
           conn'[d].ns = conn[d].ns \/ (conn'[d].ns \in Namespace /\ feed[d] = <<>>)
    BY <2>1, <2>2
  <2>4. UNCHANGED cluster /\ \A d \in Client : feed'[d] = feed[d]
    BY <1>5
  <2> QED BY <1>3, <2>3, <2>4
<1>6. CASE \/ \E n \in Namespace : CallbackMisses(n)
           \/ \E r \in Reader, n \in Namespace : ReadMisses(r, n)
  BY <1>5, <1>6 DEF CallbackMisses, ReadMisses, world
<1>7. CASE \/ TakeInit \/ TakeEvent \/ ListNamespace \/ ListFails \/ InstallNamespace
           \/ CallbackReadsCached \/ CallbackPolls \/ WriteThrough \/ UNCHANGED vars
           \/ \E r \in Reader : ReadPolls(r)
  <2>1. UNCHANGED <<conn, feed, cluster>>
    BY <1>7 DEF TakeInit, TakeEvent, ListNamespace, ListFails, InstallNamespace,
                CallbackReadsCached, CallbackPolls, WriteThrough, ReadPolls, vars, world, wires
  <2> QED BY <1>3, <2>1
<1> QED BY <1>2, <1>4, <1>6, <1>7, NextCases

\* What a step has to keep of the clients, the bus, the loop and the store.
LEMMA TrackedKept ==
    ASSUME NEW n, NEW o, Tracked(n, o), cluster'[n][o] = cluster[n][o],
           \A e \in ObjectEvent : LastAbout(bus', n, o, e) => LastAbout(bus, n, o, e),
           NoneAbout(bus', n, o) => NoneAbout(bus, n, o),
           loop'.at = "install" /\ loop'.ns = n /\ loop'.ok =>
               (loop' = loop \/ loop'.got[o] = cluster[n][o]),
           n \in cached' \ masked' /\ <<n, o>> \notin raced' /\ ~Loading(n)' =>
               \/ n \in cached \ masked /\ <<n, o>> \notin raced /\ ~Loading(n)
                  /\ cache'[n][o] = cache[n][o]
               \/ cache'[n][o] = cluster[n][o]
    PROVE  Tracked(n, o)'
BY DEF Tracked

\* A change is behind the cache until its event is taken.
LEMMA PublishingTracks ==
    ASSUME Types, Arrivals, Tracks, NEW m \in Namespace, NEW p \in Object, NEW v \in Nat,
           Publishing(m, p, v), NEW n \in Namespace, NEW o \in Object, FilterRequired(o),
           Forwarded(n, o)'
    PROVE  Tracked(n, o)'
<1> DEFINE x == Event(m, p, v)
<1>1. x.ns = m /\ x.obj = p /\ x.ver = v
  BY DEF Event
<1> HIDE DEF x
<1>2. /\ x \in ObjectEvent /\ UNCHANGED <<conn, bus, cached, cache, masked, raced, loop>>
      /\ \A k \in Namespace : k # m => cluster'[k] = cluster[k]
      /\ \A q \in Object : q # p => cluster'[m][q] = cluster[m][q]
      /\ \A c \in Client :
            /\ Open(c) /\ conn[c].ns = m => feed'[c] = Append(feed[c], x)
            /\ ~(Open(c) /\ conn[c].ns = m) => feed'[c] = feed[c]
      /\ \A c \in Client : feed[c] \in Seq(ObjectEvent)
  BY PublishDoes DEF Publishing, ChangedByOthers, Call, x, store, Types, Feeds
<1>3. CASE n = m /\ o = p
  <2>1. About(x, n, o)
    BY <1>1, <1>2, <1>3, AboutEvents
  <2>2. \A c \in Client : ~(conn[c].ns = n /\ conn[c].st # "none")
    <3> SUFFICES ASSUME NEW c \in Client, conn[c].ns = n, conn[c].st # "none" PROVE FALSE
      OBVIOUS
    <3>1. conn[c].st = "up" /\ NoneAbout(feed'[c], n, o)
      BY <1>2 DEF Forwarded
    <3>2. feed'[c] = Append(feed[c], x)
      BY <1>2, <1>3, <3>1 DEF Open
    <3>3. feed[c] \in Seq(ObjectEvent) /\ x \in ObjectEvent
      BY <1>2
    <3>4. ~NoneAbout(feed'[c], n, o)
      <4>1. Len(feed'[c]) \in DOMAIN feed'[c] /\ feed'[c][Len(feed'[c])] = x
        BY <3>2, <3>3, Appended
      <4> QED BY <2>1, <4>1 DEF NoneAbout
    <3> QED BY <3>1, <3>4
  <2>3. ~HasClient(n)
    BY <2>2 DEF HasClient
  <2>4. ~Ready(n) /\ ~OnBus(n)
    BY <2>3 DEF Arrivals
  <2>5. \A e : ~LastAbout(bus, n, o, e)
    BY <2>4 DEF OnBus, LastAbout, About
  <2> QED BY <1>2, <2>4, <2>5 DEF Tracked, Ready, Loading
<1>4. CASE ~(n = m /\ o = p)
  <2>1. cluster'[n][o] = cluster[n][o]
    BY <1>2, <1>4
  <2>2. ~About(x, n, o)
    BY <1>1, <1>2, <1>4, AboutEvents
  <2>3. \A c \in Client : NoneAbout(feed'[c], n, o) => NoneAbout(feed[c], n, o)
    <3> SUFFICES ASSUME NEW c \in Client PROVE NoneAbout(feed'[c], n, o) => NoneAbout(feed[c], n, o)
      OBVIOUS
    <3>1. CASE Open(c) /\ conn[c].ns = m
      BY <1>2, <2>2, <3>1, AboutAppended
    <3>2. CASE ~(Open(c) /\ conn[c].ns = m)
      BY <1>2, <3>2
    <3> QED BY <3>1, <3>2
  <2>4. Forwarded(n, o)
    BY <1>2, <2>3 DEF Forwarded
  <2>5. Tracked(n, o)
    BY <2>4 DEF Tracks
  <2>6. Loading(n)' <=> Loading(n)
    BY <1>2 DEF Loading
  <2> QED BY <1>2, <2>1, <2>5, <2>6, TrackedKept
<1> QED BY <1>3, <1>4

\* What a client reads moves from its feed to the end of the bus.
LEMMA ClientTracks ==
    ASSUME Types, Tracks, NEW c \in Client,
           Connect(c) \/ PostInit(c) \/ Forward(c) \/ ReadFails(c),
           NEW n \in Namespace, NEW o \in Object, FilterRequired(o), Forwarded(n, o)'
    PROVE  Tracked(n, o)'
<1>1. /\ UNCHANGED <<cluster, loop, cached, masked, raced, cache>>
      /\ bus \in Seq(Message) /\ conn[c].ns \in Namespace
  BY TypeParts DEF AllParts, BusOK, WiresOK, Connect, PostInit, Forward, ReadFails, world, store
<1>2. Loading(n)' <=> Loading(n)
  BY <1>1 DEF Loading
<1>3. CASE Connect(c) \/ ReadFails(c)
  <2>1. /\ UNCHANGED bus /\ conn'[c].st # "up" /\ conn'[c].st # "none"
        /\ \A d \in Client : conn'[d].ns = conn[d].ns /\ (d # c => conn'[d] = conn[d])
        /\ \A d \in Client : d # c => feed'[d] = feed[d]
    BY <1>3, ConnSteps DEF Connect, ReadFails
  <2>2. conn[c].ns # n
    BY <2>1 DEF Forwarded
  <2>3. Forwarded(n, o)
    BY <2>1, <2>2 DEF Forwarded
  <2> QED BY <1>1, <1>2, <2>1, <2>3, TrackedKept DEF Tracks
<1>4. CASE PostInit(c)
  <2> DEFINE x == InitSignal(conn[c].ns)
  <2>1. /\ bus' = Append(bus, x) /\ UNCHANGED feed
        /\ \A d \in Client : conn'[d].ns = conn[d].ns /\ (d # c => conn'[d] = conn[d])
    BY <1>4, ConnSteps DEF PostInit
  <2>2. x \in Message /\ x \notin ObjectEvent /\ (About(x, n, o) <=> conn[c].ns = n)
    BY <1>1, ConstantTypes, AboutEvents
  <2> HIDE DEF x
  <2>3. CASE conn[c].ns = n
    <3>1. /\ ~NoneAbout(bus', n, o)
          /\ \A e \in ObjectEvent : ~LastAbout(bus', n, o, e)
      BY <1>1, <2>1, <2>2, <2>3, AboutBusAppended
    <3> QED BY <3>1 DEF Tracked
  <2>4. CASE conn[c].ns # n
    <3>1. Forwarded(n, o)
      BY <2>1, <2>4 DEF Forwarded
    <3>2. /\ NoneAbout(bus', n, o) => NoneAbout(bus, n, o)
          /\ \A e \in ObjectEvent : LastAbout(bus', n, o, e) => LastAbout(bus, n, o, e)
      BY <1>1, <2>1, <2>2, <2>4, AboutBusAppended
    <3> QED BY <1>1, <1>2, <3>1, <3>2, TrackedKept DEF Tracks
  <2> QED BY <2>3, <2>4
<1>5. CASE Forward(c)
  <2> DEFINE x == Head(feed[c])
  <2>1. /\ feed[c] # <<>> /\ feed[c] \in Seq(ObjectEvent) /\ x \in ObjectEvent /\ x \in Message
        /\ x.ns = conn[c].ns /\ feed'[c] = Tail(feed[c]) /\ conn' = conn /\ conn[c].st = "up"
        /\ \A d \in Client : d # c => feed'[d] = feed[d]
        /\ bus' = Append(bus, x)
    BY <1>5, ForwardDoes, ConstantTypes DEF Forward
  <2>2. CASE About(x, n, o)
    <3>1. NoneAbout(feed'[c], n, o)
      BY <2>1, <2>2 DEF Forwarded, About
    <3>2. ~NoneAbout(feed[c], n, o)
      <4>1. 1 \in DOMAIN feed[c] /\ feed[c][1] = x
        BY <2>1
      <4> QED BY <2>2, <4>1 DEF NoneAbout
    <3>3. LastAbout(feed[c], n, o, x)
      BY <2>1, <3>1, <3>2, AboutTaken
    <3>4. x.ver = cluster[n][o]
      BY <2>1, <2>2, <3>3 DEF Tracks, About
    <3>5. ~NoneAbout(bus', n, o) /\ \A e : LastAbout(bus', n, o, e) => e = x
      BY <1>1, <2>1, <2>2, AboutBusAppended
    <3> QED BY <1>1, <3>4, <3>5 DEF Tracked
  <2>3. CASE ~About(x, n, o)
    <3>1. NoneAbout(feed'[c], n, o) => NoneAbout(feed[c], n, o)
      BY <2>1, <2>3, AboutTaken
    <3>2. Forwarded(n, o)
      BY <2>1, <3>1 DEF Forwarded
    <3>3. /\ NoneAbout(bus', n, o) => NoneAbout(bus, n, o)
          /\ \A e \in ObjectEvent : LastAbout(bus', n, o, e) => LastAbout(bus, n, o, e)
      BY <1>1, <2>1, <2>3, AboutBusAppended
    <3> QED BY <1>1, <1>2, <3>2, <3>3, TrackedKept DEF Tracks
  <2> QED BY <2>2, <2>3
<1> QED BY <1>3, <1>4, <1>5

\* The goroutine of the cache, and the threads that write through or read.
LEMMA LoopTracks ==
    ASSUME Types, Tracks,
           \/ TakeInit \/ TakeEvent \/ ListNamespace \/ ListFails \/ InstallNamespace
           \/ CallbackReadsCached \/ CallbackPolls,
           NEW n \in Namespace, NEW o \in Object, FilterRequired(o), Forwarded(n, o)'
    PROVE  Tracked(n, o)'
<1>1. UNCHANGED <<cluster, conn, feed, raced>> /\ Tracked(n, o)
  <2>1. UNCHANGED <<cluster, conn, feed, raced>>
    BY DEF TakeInit, TakeEvent, ListNamespace, ListFails, InstallNamespace, CallbackReadsCached,
           CallbackPolls, world, wires, store
  <2>2. Forwarded(n, o)
    BY <2>1 DEF Forwarded
  <2> QED BY <2>1, <2>2 DEF Tracks
<1>2. BusOK /\ LoopOK /\ StoreOK
  BY TypeParts DEF AllParts
<1>3. /\ IdleLoop.at = "idle" /\ AfterUpdate.at \in {"idle", "callback"}
      /\ \A at, m : [IdleLoop EXCEPT !.at = at, !.ns = m].at = at
      /\ \A at, m : [IdleLoop EXCEPT !.at = at, !.ns = m].ns = m
      /\ \A at : [IdleLoop EXCEPT !.at = at].at = at
  BY DEF IdleLoop, AfterUpdate
<1>4. CASE TakeInit \/ TakeEvent
  <2> DEFINE x == Head(bus)
  <2>1. /\ bus \in Seq(Message) /\ bus # <<>> /\ bus' = Tail(bus) /\ ~Loading(n)
        /\ UNCHANGED <<cached, masked>>
    BY <1>2, <1>4 DEF TakeInit, TakeEvent, store, BusOK, Loading
  <2> HIDE DEF x
  <2>2. /\ \A f : LastAbout(bus', n, o, f) => LastAbout(bus, n, o, f)
        /\ NoneAbout(bus', n, o) => NoneAbout(bus, n, o) \/ LastAbout(bus, n, o, x)
        /\ ~About(x, n, o) /\ NoneAbout(bus', n, o) => NoneAbout(bus, n, o)
    BY <2>1, AboutTaken DEF x
  <2>3. About(x, n, o) => ~NoneAbout(bus, n, o)
    <3>1. 1 \in DOMAIN bus /\ bus[1] = x
      BY <2>1 DEF x
    <3> QED BY <3>1 DEF NoneAbout
  <2>4. CASE TakeInit
    <3>1. /\ x.obj = "INIT" /\ loop'.at = "list" /\ loop'.ns = x.ns /\ UNCHANGED cache
      BY <1>3, <2>4 DEF TakeInit, store, x
    <3>2. About(x, n, o) => Loading(n)'
      BY <3>1 DEF About, Loading
    <3> QED BY <1>1, <2>1, <2>2, <3>1, <3>2 DEF Tracked
  <2>5. CASE TakeEvent
    <3>1. /\ x \in ObjectEvent /\ cache' = UpdateCache(x)
          /\ loop'.at \notin {"list", "install"}
      BY <1>3, <2>1, <2>5, BusTaken DEF TakeEvent, x
    <3>2. cache'[n][o] = IF n = x.ns /\ o = x.obj /\ x.ns \in cached /\ FilterRequired(x.obj)
                         THEN x.ver ELSE cache[n][o]
      BY <3>1, UpdateCacheDoes
    <3>3. About(x, n, o) <=> x.ns = n /\ x.obj = o
      BY <3>1, AboutEvents
    <3>4. CASE About(x, n, o)
      <4>1. NoneAbout(bus', n, o) => x.ver = cluster[n][o]
        BY <1>1, <2>2, <2>3, <3>1, <3>4 DEF Tracked
      <4>2. n \in cached => cache'[n][o] = x.ver
        BY <3>2, <3>3, <3>4
      <4> QED BY <1>1, <2>1, <2>2, <3>1, <4>1, <4>2 DEF Tracked
    <3>5. CASE ~About(x, n, o)
      <4>1. cache'[n][o] = cache[n][o]
        BY <3>2, <3>3, <3>5
      <4> QED BY <1>1, <2>1, <2>2, <3>1, <3>5, <4>1 DEF Tracked
    <3> QED BY <3>4, <3>5
  <2> QED BY <1>4, <2>4, <2>5
<1>5. CASE ListNamespace \/ ListFails
  <2>1. /\ UNCHANGED <<bus, cached, masked, cache>> /\ loop.at = "list"
        /\ loop'.at = "install" /\ loop'.ns = loop.ns
        /\ loop'.ok => loop'.got = Listed(loop.ns)
    BY <1>2, <1>5 DEF ListNamespace, ListFails, store, LoopOK
  <2>2. Listed(n)[o] = cluster[n][o]
    BY DEF Listed
  <2>3. Loading(n)' <=> Loading(n)
    BY <2>1 DEF Loading
  <2> QED BY <1>1, <2>1, <2>2, <2>3, TrackedKept
<1>6. CASE InstallNamespace
  <2>1. /\ UNCHANGED bus /\ loop.at = "install" /\ loop'.at \in {"idle", "callback"}
        /\ cached' = cached \union {loop.ns} /\ cache' = [cache EXCEPT ![loop.ns] = loop.got]
        /\ masked' = IF loop.ok THEN masked \ {loop.ns} ELSE masked \union {loop.ns}
        /\ loop.ns \in Namespace /\ cache \in [Namespace -> Content]
    BY <1>2, <1>3, <1>6 DEF InstallNamespace, LoopOK, StoreOK
  <2>2. CASE loop.ns = n
    <3>1. cache'[n] = loop.got
      BY <2>1, <2>2
    <3> QED BY <1>1, <2>1, <2>2, <3>1 DEF Tracked
  <2>3. CASE loop.ns # n
    <3>1. cache'[n] = cache[n] /\ (n \in cached' \ masked' <=> n \in cached \ masked)
      BY <2>1, <2>3
    <3>2. ~Loading(n)
      BY <2>3 DEF Loading
    <3> QED BY <1>1, <2>1, <3>1, <3>2, TrackedKept
  <2> QED BY <2>2, <2>3
<1>7. CASE CallbackReadsCached \/ CallbackPolls
  <2>1. /\ UNCHANGED <<bus, cached, masked, cache>> /\ loop.at \in {"callback", "poll"}
        /\ loop'.at \in {"idle", "poll"}
    BY <1>2, <1>3, <1>7 DEF CallbackReadsCached, CallbackPolls, store, LoopOK
  <2>2. ~Loading(n)
    BY <2>1 DEF Loading
  <2> QED BY <1>1, <2>1, <2>2, TrackedKept
<1> QED BY <1>4, <1>5, <1>6, <1>7

\* A write-through sets what the cluster holds, or is remembered in raced.
LEMMA WriteThroughTracks ==
    ASSUME Types, Tracks, WriteThrough,
           NEW n \in Namespace, NEW o \in Object, FilterRequired(o), Forwarded(n, o)'
    PROVE  Tracked(n, o)'
<1> DEFINE x == write.msg
<1>1. /\ UNCHANGED <<cluster, conn, feed, bus, loop, cached, masked>> /\ cache' = UpdateCache(x)
      /\ raced' = IF x.ns \in cached /\ cluster[x.ns][x.obj] # x.ver
                  THEN raced \union {<<x.ns, x.obj>>} ELSE raced
  BY DEF WriteThrough, world, wires
<1>2. x \in ObjectEvent
  BY TypeParts DEF WriteThrough, AllParts, WriteOK
<1> HIDE DEF x
<1>3. cache'[n][o] = IF n = x.ns /\ o = x.obj /\ x.ns \in cached /\ FilterRequired(x.obj)
                     THEN x.ver ELSE cache[n][o]
  BY <1>1, <1>2, UpdateCacheDoes
<1>4. Tracked(n, o) /\ (Loading(n)' <=> Loading(n))
  BY <1>1 DEF Forwarded, Tracks, Loading
<1>5. CASE n = x.ns /\ o = x.obj /\ n \in cached
  <2>1. cache'[n][o] = x.ver /\ (cluster[n][o] # x.ver => <<n, o>> \in raced')
    BY <1>1, <1>3, <1>5
  <2> QED BY <1>1, <1>4, <2>1, TrackedKept
<1>6. CASE ~(n = x.ns /\ o = x.obj /\ n \in cached)
  <2>1. cache'[n][o] = cache[n][o] /\ (<<n, o>> \notin raced' => <<n, o>> \notin raced)
    BY <1>1, <1>3, <1>6
  <2> QED BY <1>1, <1>4, <2>1, TrackedKept
<1> QED BY <1>5, <1>6

\* A thread that misses a namespace opens a client, which has not forwarded yet.
LEMMA MissTracks ==
    ASSUME Types, Tracks, NEW m \in Namespace, NewClient(m),
           UNCHANGED <<cluster, feed, bus, cached, masked, raced, cache>>,
           UNCHANGED loop \/ (loop.at = "callback" /\ loop'.at = "poll"),
           NEW n \in Namespace, NEW o \in Object, FilterRequired(o), Forwarded(n, o)'
    PROVE  Tracked(n, o)'
<1>1. PICK c \in Client : /\ conn[c].st = "none" /\ conn'[c] = [ns |-> m, st |-> "down"]
                          /\ \A d \in Client : d # c => conn'[d] = conn[d]
  BY NewClientDoes
<1>2. Forwarded(n, o)
  <2> SUFFICES ASSUME NEW d \in Client, conn[d].ns = n, conn[d].st # "none"
               PROVE  conn[d].st = "up" /\ NoneAbout(feed[d], n, o)
    BY DEF Forwarded
  <2>1. d # c
    BY <1>1
  <2>2. conn'[d] = conn[d] /\ feed'[d] = feed[d]
    BY <1>1, <2>1
  <2> QED BY <2>2 DEF Forwarded
<1>3. Tracked(n, o)
  BY <1>2 DEF Tracks
<1>4. (Loading(n)' <=> Loading(n)) /\ (loop'.at = "install" => loop' = loop)
  BY DEF Loading
<1> QED BY <1>3, <1>4, TrackedKept

\* Every step keeps Tracks.
LEMMA NextTracks == Types /\ Arrivals /\ Tracks /\ [Next]_vars => Tracks'
<1> SUFFICES ASSUME Types, Arrivals, Tracks, [Next]_vars PROVE Tracks'
  OBVIOUS
<1>1. FeedsAreCurrent'
  BY FeedsStayCurrent DEF Tracks, FeedsAreCurrent
<1>2. UNCHANGED kind
  BY DEF Next, ChangedByOthers, CreateResource, UpdateOrCreateResource, DeleteResource, Call,
         WriteThrough, ClientStep, Connect, PostInit, Forward, ReadFails, LoopStep, TakeInit,
         TakeEvent, ListNamespace, ListFails, InstallNamespace, CallbackReadsCached,
         CallbackPolls, CallbackMisses, ReadPolls, ReadMisses, ReadHits, vars, world
<1>3. ASSUME NEW n \in Namespace, NEW o \in Object, FilterRequired(o), Forwarded(n, o)'
      PROVE  Tracked(n, o)'
  <2>1. CASE \E m \in Namespace, p \in Object, v \in Nat : Publishing(m, p, v)
    BY <1>3, <2>1, PublishingTracks
  <2>2. CASE \E c \in Client : Connect(c) \/ PostInit(c) \/ Forward(c) \/ ReadFails(c)
    BY <1>3, <2>2, ClientTracks
  <2>3. CASE \/ TakeInit \/ TakeEvent \/ ListNamespace \/ ListFails \/ InstallNamespace
             \/ CallbackReadsCached \/ CallbackPolls
    BY <1>3, <2>3, LoopTracks
  <2>4. CASE WriteThrough
    BY <1>3, <2>4, WriteThroughTracks
  <2>5. CASE \/ \E m \in Namespace : CallbackMisses(m)
             \/ \E r \in Reader, m \in Namespace : ReadMisses(r, m)
    <3>1. PICK m \in Namespace : NewClient(m)
      BY <2>5 DEF CallbackMisses, ReadMisses
    <3>2. /\ UNCHANGED <<cluster, feed, bus, cached, masked, raced, cache>>
          /\ UNCHANGED loop \/ (loop.at = "callback" /\ loop'.at = "poll")
      BY <2>5 DEF CallbackMisses, ReadMisses, world, store, IdleLoop
    <3> QED BY <1>3, <3>1, <3>2, MissTracks
  <2>6. CASE UNCHANGED vars \/ \E r \in Reader : ReadPolls(r)
    <3>1. UNCHANGED <<cluster, conn, feed, bus, loop, cached, masked, raced, cache>>
      BY <2>6 DEF ReadPolls, vars, world, wires, store
    <3>2. Tracked(n, o) /\ (Loading(n)' <=> Loading(n))
      BY <1>3, <3>1 DEF Forwarded, Tracks, Loading
    <3> QED BY <3>1, <3>2, TrackedKept
  <2> QED BY <2>1, <2>2, <2>3, <2>4, <2>5, <2>6, NextCases
<1>4. \A o : FilterRequired(o)' <=> FilterRequired(o)
  BY <1>2 DEF FilterRequired
<1> QED BY <1>1, <1>3, <1>4 DEF Tracks, FeedsAreCurrent

-----------------------------------------------------------------------------
(* The theorems.                                                           *)

\* The invariant holds in every state.
LEMMA CacheInvariant == Spec => []CacheInv
<1>1. Init => CacheInv
  BY InitTypes, InitArrivals, InitTruthful, InitTracks DEF CacheInv
<1>2. CacheInv /\ [Next]_vars => CacheInv'
  BY NextTypes, NextArrivals, NextTruthful, NextTracks DEF CacheInv
<1> QED BY <1>1, <1>2, PTL DEF Spec

\* Every variable keeps its type, and the bus never holds more than its capacity:
\* a client that finds it full waits.
THEOREM TypeCorrect == Spec => []TypeOK
<1>1. CacheInv => TypeOK
  BY DEF CacheInv, Types
<1> QED BY <1>1, CacheInvariant, PTL

\* updateConfigmapsCache, which goes on after "namespace not found", never meets a
\* namespace that is missing: clients put an INIT signal on the bus before events.
THEOREM EventsFindTheirNamespace == Spec => []EventsFindNamespace
<1>1. CacheInv => EventsFindNamespace
  BY DEF CacheInv, Arrivals, EventsFindNamespace
<1> QED BY <1>1, CacheInvariant, PTL

\* With nothing underway a cached namespace is what the cluster holds, but for a
\* failed list and own calls written through late, however many clients a namespace
\* has and however often they lost their connections.
THEOREM DrainedCacheIsCurrent == Spec => []DrainedIsCurrent
<1>1. ASSUME CacheInv PROVE DrainedIsCurrent
  <2> SUFFICES ASSUME Quiet, NEW n \in cached \ masked, NEW o \in Object, <<n, o>> \notin raced
               PROVE  cache[n][o] = Listed(n)[o]
    BY DEF DrainedIsCurrent, Current
  <2>1. n \in Namespace
    BY <1>1 DEF CacheInv, Types, TypeOK
  <2>2. CASE ~FilterRequired(o)
    BY <1>1, <2>1, <2>2 DEF CacheInv, Types, Shapes, Listed
  <2>3. CASE FilterRequired(o)
    <3>1. Forwarded(n, o) /\ NoneAbout(bus, n, o) /\ ~Loading(n)
      BY DEF Quiet, Forwarded, NoneAbout, Loading
    <3>2. Tracked(n, o)
      BY <1>1, <2>1, <2>3, <3>1 DEF CacheInv, Tracks
    <3>3. cache[n][o] = cluster[n][o]
      BY <3>1, <3>2 DEF Tracked
    <3> QED BY <2>3, <3>3 DEF Listed
  <2> QED BY <2>2, <2>3
<1> QED BY <1>1, CacheInvariant, PTL

\* The cache implements the mirror: every step of the service changes one object to a
\* content its namespace has had, installs one such content or an empty one for the
\* whole namespace, or changes nothing a reader can see.
THEOREM CacheIsAMirror == Spec => MirrorsTheCluster
<1>1. CacheInv /\ [Next]_vars => [Promise!Next]_(Promise!vars)
  BY NextMirror DEF CacheInv
<1> QED BY <1>1, InitMirror, CacheInvariant, PTL DEF Spec, MirrorsTheCluster, Promise!Spec
=============================================================================
