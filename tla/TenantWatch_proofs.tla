------------------------- MODULE TenantWatch_proofs -------------------------
(***************************************************************************)
(* The watcher's types, and that its cache is current whenever an open     *)
(* connection is drained: for any number of tenants, changes and faults,   *)
(* and a stop at any moment.                                               *)
(***************************************************************************)
EXTENDS TenantWatch, TLAPS

USE BoundsAssumption

-----------------------------------------------------------------------------
(* The inductive invariant.                                                *)

\* The event type tells what the statuses can be.
FrameOf(type, statuses) ==
    UNION {[type : {type}, tenants : [S -> statuses]] : S \in SUBSET Tenant}
FrameSet ==
    FrameOf("SUBSCRIBED", {"CREATED", "ACTIVE", "SUSPENDED"})
    \cup FrameOf("CREATED", {"CREATED"})
    \cup FrameOf("MODIFIED", {"ACTIVE", "SUSPENDED"})
    \cup FrameOf("DELETED", {"gone"})
    \cup FrameOf("malformed", {})

Names(i, t) == i \in DOMAIN frames /\ t \in DOMAIN frames[i].tenants
LastNames(i, t) == Names(i, t) /\ \A j \in DOMAIN frames : j > i => ~Names(j, t)
Unnamed(t) == \A i \in DOMAIN frames : ~Names(i, t)

FramesTyped == frames \in Seq(FrameSet)

\* A goroutine that will connect again has an empty, closed subscription.
Reconnecting ==
    /\ pc \in {"sleep", "connect", "retry"} => frames = <<>> /\ conn # "open"
    /\ pc \in {"disconnect", "loop"} => (frames = <<>> /\ conn # "open") \/ ~watchingActive
    /\ stop # "idle" => ~watchingActive

\* A tenant that was never active is in no cache, and no frame says it was.
NeverActive ==
    \A t \in Tenant : status[t] \in {"none", "CREATED"} =>
        /\ t \notin activeTenantsCache
        /\ \A i \in DOMAIN frames : Names(i, t) => frames[i].tenants[t] = "CREATED"

\* Deletions are final: told by a frame still to come, handled, or lost.
Deletions ==
    /\ \A t \in lost : status[t] = "gone"
    /\ \A t \in Tenant : \A i \in DOMAIN frames :
          Names(i, t) /\ frames[i].type = "DELETED" => status[t] = "gone" /\ LastNames(i, t)
    /\ \A t \in Tenant \ lost : status[t] = "gone" =>
          \/ \E i \in DOMAIN frames : LastNames(i, t) /\ frames[i].type = "DELETED"
          \/ Unnamed(t) /\ t \notin activeTenantsCache

\* Over an open connection the last frame about a tenant has its status, and
\* without one the cache has.
Follows ==
    pc \in {"connected", "select"} /\ conn = "open" =>
        /\ \A t \in Tenant : \A i \in DOMAIN frames :
              LastNames(i, t) => frames[i].tenants[t] = status[t]
        /\ \A t \in Tenant \ lost : Unnamed(t) =>
              (t \in activeTenantsCache <=> status[t] = "ACTIVE")

WatchInv == TypeOK /\ FramesTyped /\ Reconnecting /\ NeverActive /\ Deletions /\ Follows

-----------------------------------------------------------------------------
(* How the frames change.                                                  *)

\* A record with the two fields is a frame.
LEMMA FrameMade ==
    ASSUME NEW type, NEW statuses, NEW S \in SUBSET Tenant, NEW g \in [S -> statuses]
    PROVE  [type |-> type, tenants |-> g] \in FrameOf(type, statuses)
BY DEF FrameOf

\* Frames have the fields the properties read, in every sequence of them.
LEMMA FrameFields ==
    ASSUME NEW f \in FrameSet
    PROVE  /\ DOMAIN f.tenants \subseteq Tenant
           /\ f.type \in {"SUBSCRIBED", "CREATED", "MODIFIED", "DELETED", "malformed"}
           /\ \A t \in DOMAIN f.tenants :
                 /\ f.type = "SUBSCRIBED" => f.tenants[t] \in {"CREATED", "ACTIVE", "SUSPENDED"}
                 /\ f.type = "CREATED" => f.tenants[t] = "CREATED"
                 /\ f.type = "MODIFIED" => f.tenants[t] \in {"ACTIVE", "SUSPENDED"}
                 /\ f.type = "DELETED" => f.tenants[t] = "gone"
                 /\ f.type # "malformed"
BY DEF FrameSet, FrameOf

\* A frame at the end is the last one for whom it names, and for nobody else.
LEMMA NamesAppended ==
    ASSUME FramesTyped, NEW f \in FrameSet, frames' = Append(frames, f)
    PROVE  /\ FramesTyped'
           /\ DOMAIN frames' = 1..(Len(frames) + 1) /\ DOMAIN frames = 1..Len(frames)
           /\ \A i \in DOMAIN frames : frames'[i] = frames[i]
           /\ frames'[Len(frames) + 1] = f
           /\ \A t : t \notin DOMAIN f.tenants =>
                 /\ \A i : Names(i, t)' <=> Names(i, t)
                 /\ \A i : LastNames(i, t)' <=> LastNames(i, t)
                 /\ Unnamed(t)' <=> Unnamed(t)
           /\ \A t \in DOMAIN f.tenants :
                 /\ \A i : LastNames(i, t)' <=> i = Len(frames) + 1
                 /\ ~Unnamed(t)'
<1>1. /\ frames' \in Seq(FrameSet) /\ Len(frames) \in Nat
      /\ DOMAIN frames' = 1..(Len(frames) + 1) /\ DOMAIN frames = 1..Len(frames)
      /\ \A i \in DOMAIN frames : frames'[i] = frames[i]
      /\ frames'[Len(frames) + 1] = f
  BY DEF FramesTyped
<1>2. ASSUME NEW t, t \notin DOMAIN f.tenants
      PROVE  \A i : Names(i, t)' <=> Names(i, t)
  BY <1>1, <1>2 DEF Names
<1>3. ASSUME NEW t, t \notin DOMAIN f.tenants
      PROVE  /\ \A i : LastNames(i, t)' <=> LastNames(i, t)
             /\ Unnamed(t)' <=> Unnamed(t)
  <2>1. \A i : Names(i, t) => i \in DOMAIN frames /\ i \in DOMAIN frames'
    BY <1>1 DEF Names
  <2>2. ASSUME NEW i PROVE LastNames(i, t)' <=> LastNames(i, t)
    BY <1>1, <1>2, <1>3, <2>1 DEF LastNames
  <2>3. Unnamed(t)' <=> Unnamed(t)
    BY <1>1, <1>2, <1>3, <2>1 DEF Unnamed
  <2> QED BY <2>2, <2>3
<1>4. ASSUME NEW t \in DOMAIN f.tenants
      PROVE  /\ \A i : LastNames(i, t)' <=> i = Len(frames) + 1
             /\ ~Unnamed(t)'
  BY <1>1 DEF LastNames, Unnamed, Names
<1> QED BY <1>1, <1>2, <1>3, <1>4 DEF FramesTyped

\* Taking the first frame moves the others forward.
LEMMA NamesTaken ==
    ASSUME FramesTyped, frames # <<>>, frames' = Tail(frames)
    PROVE  /\ FramesTyped' /\ Head(frames) \in FrameSet
           /\ frames[1] = Head(frames)
           /\ 1 \in DOMAIN frames /\ DOMAIN frames \subseteq Nat
           /\ \A i \in DOMAIN frames' : i + 1 \in DOMAIN frames /\ frames'[i] = frames[i + 1]
           /\ \A i \in DOMAIN frames : i # 1 => i - 1 \in DOMAIN frames'
           /\ \A t : \A i \in DOMAIN frames' : LastNames(i, t)' <=> LastNames(i + 1, t)
           /\ \A t : Unnamed(t)' <=> Unnamed(t) \/ LastNames(1, t)
<1>1. /\ frames' \in Seq(FrameSet) /\ Len(frames) \in Nat \ {0} /\ Head(frames) \in FrameSet
      /\ DOMAIN frames' = 1..(Len(frames) - 1) /\ DOMAIN frames = 1..Len(frames)
      /\ frames[1] = Head(frames)
      /\ \A i \in DOMAIN frames' : frames'[i] = frames[i + 1]
  BY DEF FramesTyped
<1>2. ASSUME NEW t, NEW i \in DOMAIN frames' PROVE Names(i, t)' <=> Names(i + 1, t)
  BY <1>1 DEF Names
<1>3. ASSUME NEW t, NEW i \in DOMAIN frames' PROVE LastNames(i, t)' <=> LastNames(i + 1, t)
  <2>1. ASSUME LastNames(i, t)', NEW j \in DOMAIN frames, j > i + 1 PROVE ~Names(j, t)
    <3>1. j - 1 \in DOMAIN frames' /\ j - 1 > i /\ (j - 1) + 1 = j
      BY <1>1, <2>1
    <3>2. ~Names(j - 1, t)'
      BY <3>1, <2>1 DEF LastNames
    <3> QED BY <3>1, <3>2, <1>2
  <2>2. ASSUME LastNames(i + 1, t), NEW j \in DOMAIN frames', j > i PROVE ~Names(j, t)'
    BY <1>1, <1>2, <2>2 DEF LastNames
  <2> QED BY <1>2, <2>1, <2>2 DEF LastNames
<1>4. ASSUME NEW t PROVE Unnamed(t)' <=> Unnamed(t) \/ LastNames(1, t)
  <2>1. ASSUME Unnamed(t)', NEW j \in DOMAIN frames, j # 1 PROVE ~Names(j, t)
    <3>1. j - 1 \in DOMAIN frames' /\ (j - 1) + 1 = j
      BY <1>1, <2>1
    <3> QED BY <3>1, <2>1, <1>2 DEF Unnamed
  <2>2. ASSUME Unnamed(t)' PROVE Unnamed(t) \/ LastNames(1, t)
    BY <2>1, <2>2, <1>1 DEF Unnamed, LastNames
  <2>3. ASSUME Unnamed(t) \/ LastNames(1, t), NEW i \in DOMAIN frames' PROVE ~Names(i, t)'
    BY <1>1, <1>2, <2>3 DEF Unnamed, LastNames
  <2> QED BY <2>2, <2>3 DEF Unnamed
<1> QED BY <1>1, <1>3, <1>4 DEF FramesTyped

-----------------------------------------------------------------------------
\* Before the first connection the invariant holds.
LEMMA InitWatch == Init => WatchInv
<1> SUFFICES ASSUME Init PROVE WatchInv
  OBVIOUS
<1>1. frames = <<>> /\ DOMAIN frames = {} /\ frames \in Seq(FrameSet)
  BY DEF Init
<1>2. TypeOK
  <2>1. wsConnected \in BOOLEAN /\ (wsConnected <=> pc \in {"select", "sleep", "disconnect"})
    BY DEF Init
  <2> QED BY <1>1, <2>1 DEF Init, TypeOK, Status
<1>3. NeverActive /\ Deletions /\ Follows
  BY <1>1 DEF Init, NeverActive, Deletions, Follows, Unnamed
<1> QED BY <1>1, <1>2, <1>3 DEF Init, WatchInv, FramesTyped, Reconnecting

\* Steps that touch neither tenants, frames nor the cache.
LEMMA OnlyControl ==
    ASSUME WatchInv, UNCHANGED <<status, frames, activeTenantsCache, lost>>,
           pc' \in {"connected", "select"} /\ conn' = "open"
               => pc \in {"connected", "select"} /\ conn = "open"
    PROVE  FramesTyped' /\ NeverActive' /\ Deletions' /\ Follows'
<1>1. /\ \A i, t : Names(i, t)' <=> Names(i, t)
      /\ \A i, t : LastNames(i, t)' <=> LastNames(i, t)
      /\ \A t : Unnamed(t)' <=> Unnamed(t)
  BY DEF Names, LastNames, Unnamed
<1>2. FramesTyped' /\ NeverActive'
  BY <1>1 DEF WatchInv, FramesTyped, NeverActive
<1>3. Deletions'
  BY <1>1 DEF WatchInv, Deletions
<1>4. Follows'
  BY <1>1 DEF WatchInv, Follows
<1> QED BY <1>2, <1>3, <1>4

\* Steps of the goroutine and of the stopper that move no frame keep it.
LEMMA ControlKeepsInv ==
    ASSUME WatchInv,
           \/ Loop \/ Retry \/ MarkConnected \/ SeeClosed \/ WakeUp \/ TakeQuit \/ Disconnect
           \/ ConnectFails \/ StopWatching \/ Stopper
    PROVE  WatchInv'
<1>1. UNCHANGED <<status, frames, activeTenantsCache, lost, conn>>
  BY DEF Loop, Retry, MarkConnected, SeeClosed, WakeUp, TakeQuit, Disconnect, ConnectFails,
         StopWatching, Stopper, CheckConnected, Wait, manager, watcher
<1>2. pc' \in {"connected", "select"} => pc \in {"connected", "select"}
  BY DEF Loop, Retry, MarkConnected, SeeClosed, WakeUp, TakeQuit, Disconnect, ConnectFails,
         StopWatching, Stopper, CheckConnected, Wait, watcher
<1>3. FramesTyped' /\ NeverActive' /\ Deletions' /\ Follows'
  BY <1>1, <1>2, OnlyControl
<1>4. wsConnected' \in BOOLEAN /\ (wsConnected' <=> pc' \in {"select", "sleep", "disconnect"})
  <2>1. wsConnected \in BOOLEAN /\ (wsConnected <=> pc \in {"select", "sleep", "disconnect"})
    BY DEF WatchInv, TypeOK
  <2>2. CASE MarkConnected
    BY <2>2 DEF MarkConnected
  <2>3. CASE Disconnect
    BY <2>3 DEF Disconnect
  <2>4. CASE ~MarkConnected /\ ~Disconnect
    <3>1. /\ wsConnected' = wsConnected
          /\ pc' \in {"select", "sleep", "disconnect"} <=> pc \in {"select", "sleep", "disconnect"}
      BY <2>4 DEF Loop, Retry, SeeClosed, WakeUp, TakeQuit, ConnectFails, StopWatching,
                  Stopper, CheckConnected, Wait, watcher
    <3> QED BY <2>1, <3>1
  <2> QED BY <2>2, <2>3, <2>4
<1>5. /\ pc' \in {"loop", "connect", "retry", "connected", "select", "sleep", "disconnect", "done"}
      /\ watchingActive' \in BOOLEAN
      /\ stop' \in {"idle", "check", "send", "wait", "returned"}
  BY DEF WatchInv, TypeOK, Loop, Retry, MarkConnected, SeeClosed, WakeUp, TakeQuit, Disconnect,
         ConnectFails, StopWatching, Stopper, CheckConnected, Wait, watcher, stopper
<1>6. Reconnecting'
  BY <1>1 DEF WatchInv, TypeOK, Reconnecting, Loop, Retry, MarkConnected, SeeClosed, WakeUp,
         TakeQuit, Disconnect, ConnectFails, StopWatching, Stopper, CheckConnected, Wait,
         watcher, stopper
<1>7. TypeOK'
  BY <1>1, <1>4, <1>5 DEF WatchInv, TypeOK
<1> QED BY <1>3, <1>6, <1>7 DEF WatchInv

\* The connection's first frame names the tenants there are.
LEMMA ConnectKeepsInv ==
    ASSUME WatchInv, ConnectAndSubscribe
    PROVE  WatchInv'
<1> DEFINE f == Frame("SUBSCRIBED", {t \in Tenant : Known(t)})
<1>1. /\ frames = <<>> /\ frames' = <<f>> /\ pc' = "connected" /\ pc = "connect"
      /\ conn' = "open"
      /\ UNCHANGED <<status, activeTenantsCache, lost, wsConnected, watchingActive, stop>>
  BY DEF WatchInv, Reconnecting, ConnectAndSubscribe, manager, stopper
<1>2. /\ f.type = "SUBSCRIBED" /\ DOMAIN f.tenants = {t \in Tenant : Known(t)}
      /\ \A t \in DOMAIN f.tenants : f.tenants[t] = status[t]
  BY DEF Frame
<1>3. f \in FrameSet
  <2>1. f.tenants \in [DOMAIN f.tenants -> {"CREATED", "ACTIVE", "SUSPENDED"}]
    BY <1>2 DEF Frame, Known, WatchInv, TypeOK, Status
  <2>2. f = [type |-> "SUBSCRIBED", tenants |-> f.tenants]
    BY DEF Frame
  <2> HIDE DEF f
  <2>3. f \in FrameOf("SUBSCRIBED", {"CREATED", "ACTIVE", "SUSPENDED"})
    BY <1>2, <2>1, <2>2 DEF FrameOf
  <2> QED BY <2>3 DEF FrameSet
<1> HIDE DEF f
<1>4. frames' \in Seq(FrameSet) /\ DOMAIN frames' = {1} /\ frames'[1] = f /\ DOMAIN frames = {}
  BY <1>1, <1>3
<1>5. /\ \A t : \A i \in DOMAIN frames' : Names(i, t)' <=> t \in Tenant /\ Known(t)
      /\ \A t : Unnamed(t)' <=> ~(t \in Tenant /\ Known(t))
      /\ \A t : Unnamed(t)
  BY <1>4, <1>2 DEF Names, Unnamed
<1>6. TypeOK'
  <2>1. wsConnected' \in BOOLEAN /\ (wsConnected' <=> pc' \in {"select", "sleep", "disconnect"})
    BY <1>1 DEF WatchInv, TypeOK
  <2> QED BY <1>1, <1>2, <1>4, <2>1 DEF WatchInv, TypeOK
<1>7. Reconnecting'
  BY <1>1 DEF WatchInv, Reconnecting
<1>8. NeverActive'
  BY <1>1, <1>2, <1>4, <1>5 DEF WatchInv, NeverActive, Known
<1>9. Deletions'
  BY <1>1, <1>2, <1>4, <1>5 DEF WatchInv, Deletions, Known, LastNames, Names
<1>10. Follows'
  <2>1. ASSUME NEW t \in Tenant, NEW i \in DOMAIN frames', LastNames(i, t)'
        PROVE  frames'[i].tenants[t] = status'[t]
    BY <1>1, <1>2, <1>4, <1>5, <2>1 DEF LastNames
  <2>2. ASSUME NEW t \in Tenant \ lost', Unnamed(t)'
        PROVE  t \in activeTenantsCache' <=> status'[t] = "ACTIVE"
    BY <1>1, <1>4, <1>5, <2>2 DEF WatchInv, Deletions, NeverActive, Known, LastNames
  <2> QED BY <2>1, <2>2 DEF Follows
<1> QED BY <1>4, <1>6, <1>7, <1>8, <1>9, <1>10 DEF WatchInv, FramesTyped

\* A frame that is taken leaves the cache or the other frames with its news.
LEMMA HandleKeepsInv ==
    ASSUME WatchInv, HandleFrame
    PROVE  WatchInv'
<1> DEFINE f == Head(frames)
<1>1. /\ pc = "select" /\ frames # <<>> /\ frames' = Tail(frames)
      /\ activeTenantsCache' = Actualized(activeTenantsCache, f)
      /\ UNCHANGED <<status, conn, pc, wsConnected, watchingActive, stop, lost>>
  BY DEF HandleFrame, manager, stopper
<1>2. /\ FramesTyped' /\ f \in FrameSet /\ frames[1] = f
      /\ 1 \in DOMAIN frames /\ DOMAIN frames \subseteq Nat
      /\ \A i \in DOMAIN frames' : i + 1 \in DOMAIN frames /\ frames'[i] = frames[i + 1]
      /\ \A i \in DOMAIN frames : i # 1 => i - 1 \in DOMAIN frames'
      /\ \A t : \A i \in DOMAIN frames' : LastNames(i, t)' <=> LastNames(i + 1, t)
      /\ \A t : Unnamed(t)' <=> Unnamed(t) \/ LastNames(1, t)
  BY <1>1, NamesTaken DEF WatchInv
<1>3. /\ DOMAIN f.tenants \subseteq Tenant
      /\ f.type \in {"SUBSCRIBED", "CREATED", "MODIFIED", "DELETED", "malformed"}
      /\ \A t \in DOMAIN f.tenants :
            /\ f.type = "SUBSCRIBED" => f.tenants[t] \in {"CREATED", "ACTIVE", "SUSPENDED"}
            /\ f.type = "CREATED" => f.tenants[t] = "CREATED"
            /\ f.type = "MODIFIED" => f.tenants[t] \in {"ACTIVE", "SUSPENDED"}
            /\ f.type = "DELETED" => f.tenants[t] = "gone"
            /\ f.type # "malformed"
  BY <1>2, FrameFields
<1> HIDE DEF f
\* What the frame does to the cache.
<1>4. /\ \A t : t \notin DOMAIN f.tenants =>
            (t \in activeTenantsCache' <=> t \in activeTenantsCache)
      /\ \A t \in DOMAIN f.tenants :
            /\ f.tenants[t] = "ACTIVE" => t \in activeTenantsCache'
            /\ f.tenants[t] \in {"SUSPENDED", "gone"} => t \notin activeTenantsCache'
            /\ f.tenants[t] = "CREATED" => (t \in activeTenantsCache' <=> t \in activeTenantsCache)
  BY <1>1, <1>3 DEF Actualized, UpdateActiveTenantsCache, With
<1>5. \A t : Names(1, t) <=> t \in DOMAIN f.tenants
  BY <1>2 DEF Names
<1>6. activeTenantsCache' \subseteq Tenant
  BY <1>3, <1>4 DEF WatchInv, TypeOK
<1>7. TypeOK'
  BY <1>1, <1>2, <1>6 DEF WatchInv, TypeOK
<1>8. Reconnecting'
  BY <1>1 DEF WatchInv, Reconnecting
<1>9. NeverActive'
  <2> SUFFICES ASSUME NEW t \in Tenant, status'[t] \in {"none", "CREATED"}
               PROVE  /\ t \notin activeTenantsCache'
                      /\ \A i \in DOMAIN frames' : Names(i, t)' => frames'[i].tenants[t] = "CREATED"
    BY DEF NeverActive
  <2>1. /\ t \notin activeTenantsCache
        /\ \A i \in DOMAIN frames : Names(i, t) => frames[i].tenants[t] = "CREATED"
    BY <1>1 DEF WatchInv, NeverActive
  <2>2. t \notin activeTenantsCache'
    BY <2>1, <1>2, <1>4, <1>5
  <2>3. ASSUME NEW i \in DOMAIN frames', Names(i, t)' PROVE frames'[i].tenants[t] = "CREATED"
    BY <2>1, <2>3, <1>2 DEF Names
  <2> QED BY <2>2, <2>3
<1>10. Deletions'
  <2>1. ASSUME NEW t \in Tenant, NEW i \in DOMAIN frames', Names(i, t)', frames'[i].type = "DELETED"
        PROVE  status'[t] = "gone" /\ LastNames(i, t)'
    BY <2>1, <1>1, <1>2 DEF WatchInv, Deletions, Names
  <2>2. ASSUME NEW t \in Tenant \ lost', status'[t] = "gone"
        PROVE  \/ \E i \in DOMAIN frames' : LastNames(i, t)' /\ frames'[i].type = "DELETED"
               \/ Unnamed(t)' /\ t \notin activeTenantsCache'
    <3>1. CASE Unnamed(t) /\ t \notin activeTenantsCache
      BY <3>1, <1>2, <1>4, <1>5 DEF Unnamed
    <3>2. ASSUME NEW i \in DOMAIN frames, LastNames(i, t), frames[i].type = "DELETED", i # 1
          PROVE  LastNames(i - 1, t)' /\ frames'[i - 1].type = "DELETED" /\ i - 1 \in DOMAIN frames'
      <4>1. i - 1 \in DOMAIN frames' /\ (i - 1) + 1 = i
        BY <1>2, <3>2
      <4> QED BY <4>1, <3>2, <1>2
    <3>3. ASSUME LastNames(1, t), frames[1].type = "DELETED"
          PROVE  Unnamed(t)' /\ t \notin activeTenantsCache'
      BY <3>3, <1>2, <1>3, <1>4, <1>5 DEF LastNames
    <3> QED BY <1>1, <2>2, <3>1, <3>2, <3>3 DEF WatchInv, Deletions
  <2> QED BY <1>1, <2>1, <2>2 DEF WatchInv, Deletions
<1>11. Follows'
  <2> SUFFICES ASSUME conn = "open"
               PROVE  /\ \A t \in Tenant : \A i \in DOMAIN frames' :
                             LastNames(i, t)' => frames'[i].tenants[t] = status'[t]
                      /\ \A t \in Tenant \ lost' : Unnamed(t)' =>
                             (t \in activeTenantsCache' <=> status'[t] = "ACTIVE")
    BY <1>1 DEF Follows
  <2>1. /\ \A t \in Tenant : \A i \in DOMAIN frames :
              LastNames(i, t) => frames[i].tenants[t] = status[t]
        /\ \A t \in Tenant \ lost : Unnamed(t) =>
              (t \in activeTenantsCache <=> status[t] = "ACTIVE")
    BY <1>1 DEF WatchInv, Follows
  <2>2. ASSUME NEW t \in Tenant, NEW i \in DOMAIN frames', LastNames(i, t)'
        PROVE  frames'[i].tenants[t] = status'[t]
    BY <2>1, <2>2, <1>1, <1>2
  <2>3. ASSUME NEW t \in Tenant \ lost', Unnamed(t)'
        PROVE  t \in activeTenantsCache' <=> status'[t] = "ACTIVE"
    <3>1. CASE Unnamed(t)
      BY <3>1, <2>1, <1>1, <1>2, <1>4, <1>5 DEF Unnamed
    <3>2. CASE LastNames(1, t)
      <4>1. t \in DOMAIN f.tenants /\ f.tenants[t] = status[t]
        BY <3>2, <2>1, <1>2, <1>5 DEF LastNames
      <4>2. status[t] = "CREATED" => t \notin activeTenantsCache
        BY DEF WatchInv, NeverActive
      <4> QED BY <4>1, <4>2, <1>1, <1>3, <1>4
    <3> QED BY <2>3, <3>1, <3>2, <1>2
  <2> QED BY <2>2, <2>3
<1> QED BY <1>2, <1>7, <1>8, <1>9, <1>10, <1>11 DEF WatchInv

\* An event of a change is the last frame about its tenant; a change nobody is
\* told of leaves no open connection behind.
LEMMA ChangeKeepsInv ==
    ASSUME WatchInv, NEW t \in Tenant, NEW new \in Status, ChangeTenant(t, new)
    PROVE  WatchInv'
<1> DEFINE f == [type |-> EventOf(new), tenants |-> [u \in {t} |-> new]]
<1>1. /\ new \in Successors(status[t])
      /\ status' = [status EXCEPT ![t] = new]
      /\ frames' = IF conn = "open" THEN Append(frames, f) ELSE frames
      /\ lost' = IF new = "gone" /\ conn # "open" THEN lost \cup {t} ELSE lost
      /\ UNCHANGED <<conn, pc, wsConnected, activeTenantsCache, watchingActive, stop>>
  BY DEF ChangeTenant, watcher, stopper
<1>2. /\ status \in [Tenant -> Status] /\ status'[t] = new
      /\ \A u \in Tenant : u # t => status'[u] = status[u]
      /\ status' \in [Tenant -> Status]
  BY <1>1 DEF WatchInv, TypeOK
<1>3. /\ new \in {"CREATED", "ACTIVE", "SUSPENDED", "gone"}
      /\ status[t] # "gone" /\ new # status[t]
      /\ new = "CREATED" => status[t] = "none"
      /\ status[t] = "none" => new = "CREATED"
  <2>1. status[t] \in {"none", "CREATED", "ACTIVE", "SUSPENDED", "gone"}
    BY <1>2 DEF Status
  <2> QED BY <1>1, <2>1 DEF Successors
<1>4. /\ f.type = EventOf(new) /\ DOMAIN f.tenants = {t} /\ f.tenants[t] = new
      /\ f.type = "DELETED" => new = "gone"
      /\ new = "gone" => f.type = "DELETED"
      /\ f \in FrameSet
  <2>2. /\ new = "CREATED" => f \in FrameOf("CREATED", {"CREATED"})
        /\ new = "gone" => f \in FrameOf("DELETED", {"gone"})
        /\ new \in {"ACTIVE", "SUSPENDED"} => f \in FrameOf("MODIFIED", {"ACTIVE", "SUSPENDED"})
    <3>1. \A type, statuses : type = EventOf(new) /\ new \in statuses => f \in FrameOf(type, statuses)
      <4>1. ASSUME NEW statuses, new \in statuses PROVE [u \in {t} |-> new] \in [{t} -> statuses]
        BY <4>1
      <4> QED BY <4>1, FrameMade
    <3>2. /\ new = "CREATED" => EventOf(new) = "CREATED"
          /\ new = "gone" => EventOf(new) = "DELETED"
          /\ new \in {"ACTIVE", "SUSPENDED"} => EventOf(new) = "MODIFIED"
      BY DEF EventOf
    <3> HIDE DEF f
    <3> QED BY <3>1, <3>2
  <2>3. f.type = EventOf(new) /\ DOMAIN f.tenants = {t} /\ f.tenants[t] = new
    BY Zenon
  <2>5. new = "gone" => EventOf(new) = "DELETED"
    BY DEF EventOf
  <2>6. new # "gone" => EventOf(new) # "DELETED"
    <3>1. new = "CREATED" => EventOf(new) = "CREATED"
      BY DEF EventOf
    <3>2. new \in {"ACTIVE", "SUSPENDED"} => EventOf(new) = "MODIFIED"
      BY DEF EventOf
    <3> QED BY <3>1, <3>2, <1>3
  <2> HIDE DEF f
  <2>4. f \in FrameSet
    BY <2>2, <1>3 DEF FrameSet
  <2> QED BY <2>3, <2>4, <2>5, <2>6
<1> HIDE DEF f
<1>5. lost' \subseteq Tenant /\ \A u \in lost' : status'[u] = "gone"
  BY <1>1, <1>2, <1>3 DEF WatchInv, TypeOK, Deletions
<1>6. Reconnecting'
  BY <1>1 DEF WatchInv, Reconnecting
<1>7. CASE conn = "open"
  <2>1. /\ FramesTyped'
        /\ DOMAIN frames' = 1..(Len(frames) + 1) /\ DOMAIN frames = 1..Len(frames)
        /\ \A i \in DOMAIN frames : frames'[i] = frames[i]
        /\ frames'[Len(frames) + 1] = f
        /\ \A u : u # t =>
              /\ \A i : Names(i, u)' <=> Names(i, u)
              /\ \A i : LastNames(i, u)' <=> LastNames(i, u)
              /\ Unnamed(u)' <=> Unnamed(u)
        /\ \A i : LastNames(i, t)' <=> i = Len(frames) + 1
        /\ ~Unnamed(t)'
    BY <1>1, <1>4, <1>7, NamesAppended DEF WatchInv
  <2>2. /\ Len(frames) \in Nat
        /\ \A i \in DOMAIN frames' : i \in DOMAIN frames \/ i = Len(frames) + 1
        /\ \A i \in DOMAIN frames : i \in DOMAIN frames'
        /\ Len(frames) + 1 \in DOMAIN frames'
    BY <2>1 DEF WatchInv, FramesTyped
  <2>3. TypeOK'
    BY <1>1, <1>2, <1>4, <1>5, <2>1, <2>2 DEF WatchInv, TypeOK
  <2>4. /\ \A u, i : u # t => (Names(i, u)' <=> Names(i, u))
        /\ \A i \in DOMAIN frames : Names(i, t)' <=> Names(i, t)
        /\ \A u, i : Names(i, u) => i \in DOMAIN frames
        /\ \A u, i : LastNames(i, u) => i \in DOMAIN frames
    BY <2>1, <2>2 DEF Names, LastNames
  <2>5. NeverActive'
    BY <1>1, <1>2, <1>3, <1>4, <2>1, <2>2, <2>4 DEF WatchInv, NeverActive
  <2>6. Deletions'
    <3>1. ASSUME NEW u \in Tenant, NEW i \in DOMAIN frames', Names(i, u)', frames'[i].type = "DELETED"
          PROVE  status'[u] = "gone" /\ LastNames(i, u)'
      <4>1. CASE i = Len(frames) + 1
        BY <3>1, <4>1, <1>2, <1>3, <1>4, <2>1, <2>2, <2>4
      <4>2. CASE i \in DOMAIN frames
        <5>1. Names(i, u) /\ frames[i].type = "DELETED"
          BY <3>1, <4>2, <2>1, <2>4
        <5>2. status[u] = "gone" /\ LastNames(i, u)
          BY <4>2, <5>1 DEF WatchInv, Deletions
        <5> QED BY <4>2, <5>2, <1>2, <1>3, <2>1, <2>2
      <4> QED BY <3>1, <4>1, <4>2, <2>2
    <3>2. ASSUME NEW u \in Tenant \ lost', status'[u] = "gone"
          PROVE  \/ \E i \in DOMAIN frames' : LastNames(i, u)' /\ frames'[i].type = "DELETED"
                 \/ Unnamed(u)' /\ u \notin activeTenantsCache'
      <4>1. CASE u = t
        BY <3>2, <4>1, <1>2, <1>4, <2>1, <2>2
      <4>2. CASE u # t
        <5>1. u \notin lost /\ status[u] = "gone"
          BY <3>2, <4>2, <1>1, <1>2
        <5>2. \/ \E i \in DOMAIN frames : LastNames(i, u) /\ frames[i].type = "DELETED"
              \/ Unnamed(u) /\ u \notin activeTenantsCache
          BY <5>1 DEF WatchInv, Deletions
        <5> QED BY <5>2, <4>2, <1>1, <2>1, <2>2
      <4> QED BY <4>1, <4>2
    <3> QED BY <1>5, <3>1, <3>2 DEF Deletions
  <2>7. Follows'
    BY <1>1, <1>2, <1>3, <1>4, <1>7, <2>1, <2>2, <2>4 DEF WatchInv, Follows
  <2> QED BY <1>6, <2>1, <2>3, <2>5, <2>6, <2>7 DEF WatchInv
<1>8. CASE conn # "open"
  <2>1. frames' = frames
    BY <1>1, <1>8
  <2>2. /\ \A i, u : Names(i, u)' <=> Names(i, u)
        /\ \A i, u : LastNames(i, u)' <=> LastNames(i, u)
        /\ \A u : Unnamed(u)' <=> Unnamed(u)
    BY <2>1 DEF Names, LastNames, Unnamed
  <2>3. TypeOK' /\ FramesTyped'
    BY <1>1, <1>2, <1>5, <2>1 DEF WatchInv, TypeOK, FramesTyped
  <2>4. NeverActive'
    BY <1>1, <1>2, <1>3, <2>1, <2>2 DEF WatchInv, NeverActive
  <2>5. Deletions'
    <3>1. \A u \in Tenant \ lost' : status'[u] = "gone" => u \notin lost /\ status[u] = "gone"
      BY <1>1, <1>2, <1>8
    <3>2. \A u \in Tenant : status[u] = "gone" => status'[u] = "gone"
      BY <1>2, <1>3
    <3> QED BY <1>1, <1>5, <2>1, <2>2, <3>1, <3>2 DEF WatchInv, Deletions
  <2>6. Follows'
    BY <1>1, <1>8 DEF Follows
  <2> QED BY <1>6, <2>3, <2>4, <2>5, <2>6 DEF WatchInv
<1> QED BY <1>7, <1>8

\* A frame that names nobody changes nothing.
LEMMA MalformedKeepsInv ==
    ASSUME WatchInv, SendMalformed
    PROVE  WatchInv'
<1>1. /\ frames' = Append(frames, Malformed) /\ conn = "open"
      /\ UNCHANGED <<status, conn, pc, wsConnected, activeTenantsCache, watchingActive, stop, lost>>
  BY DEF SendMalformed, manager, watcher, stopper
<1>2. DOMAIN Malformed.tenants = {} /\ Malformed.type = "malformed"
  BY DEF Malformed, Frame
<1>3. Malformed \in FrameSet
  <2>1. Malformed.tenants \in [{} -> {}] /\ Malformed = [type |-> "malformed", tenants |-> Malformed.tenants]
    BY DEF Malformed, Frame
  <2>2. Malformed \in FrameOf("malformed", {})
    BY <2>1 DEF FrameOf
  <2> QED BY <2>2 DEF FrameSet
<1>4. /\ FramesTyped'
      /\ DOMAIN frames' = 1..(Len(frames) + 1) /\ DOMAIN frames = 1..Len(frames)
      /\ \A i \in DOMAIN frames : frames'[i] = frames[i]
      /\ frames'[Len(frames) + 1] = Malformed
      /\ \A u : /\ \A i : Names(i, u)' <=> Names(i, u)
                /\ \A i : LastNames(i, u)' <=> LastNames(i, u)
                /\ Unnamed(u)' <=> Unnamed(u)
  BY <1>1, <1>2, <1>3, NamesAppended DEF WatchInv
<1>5. /\ \A u, i : Names(i, u) => i \in DOMAIN frames
      /\ \A u, i : LastNames(i, u) => i \in DOMAIN frames
      /\ Len(frames) \in Nat
      /\ \A i \in DOMAIN frames : i \in DOMAIN frames'
      /\ \A i \in DOMAIN frames' : i \in DOMAIN frames \/ i = Len(frames) + 1
  BY <1>4 DEF Names, LastNames, WatchInv, FramesTyped
<1>6. TypeOK'
  BY <1>1, <1>2, <1>4, <1>5 DEF WatchInv, TypeOK
<1>7. Reconnecting' /\ NeverActive'
  BY <1>1, <1>4, <1>5 DEF WatchInv, Reconnecting, NeverActive
<1>8. Deletions'
  BY <1>1, <1>4, <1>5 DEF WatchInv, Deletions
<1>9. Follows'
  BY <1>1, <1>4, <1>5 DEF WatchInv, Follows
<1> QED BY <1>4, <1>6, <1>7, <1>8, <1>9 DEF WatchInv

\* What a closing server drops of deletions is lost; what stays, stays first.
LEMMA ServerClosesKeepsInv ==
    ASSUME WatchInv, ServerCloses
    PROVE  WatchInv'
<1>1. /\ conn = "open" /\ conn' = "closed"
      /\ UNCHANGED <<status, pc, wsConnected, activeTenantsCache, watchingActive, stop>>
  BY DEF ServerCloses, manager, watcher, stopper
<1>2. PICK n \in 0..Len(frames) :
        /\ frames' = SubSeq(frames, 1, n)
        /\ lost' = lost \cup (DeletedIn(frames) \ DeletedIn(frames'))
  BY DEF ServerCloses
<1>3. /\ frames \in Seq(FrameSet) /\ frames' \in Seq(FrameSet) /\ Len(frames) \in Nat
      /\ DOMAIN frames = 1..Len(frames) /\ DOMAIN frames' = 1..n
      /\ \A i \in DOMAIN frames' : i \in DOMAIN frames /\ frames'[i] = frames[i]
  BY <1>2 DEF WatchInv, FramesTyped
<1>4. /\ \A u : u \in DeletedIn(frames)
            <=> \E i \in DOMAIN frames : Names(i, u) /\ frames[i].type = "DELETED"
      /\ \A u : u \in DeletedIn(frames')
            <=> \E i \in DOMAIN frames' : Names(i, u)' /\ frames'[i].type = "DELETED"
  BY DEF DeletedIn, Names
<1>5. /\ \A u : \A i \in DOMAIN frames' : Names(i, u)' <=> Names(i, u)
      /\ \A u : \A i \in DOMAIN frames' : LastNames(i, u) => LastNames(i, u)'
      /\ \A u : Unnamed(u) => Unnamed(u)'
  BY <1>3 DEF Names, LastNames, Unnamed
<1>6. /\ lost' \subseteq Tenant /\ \A u \in lost' : status'[u] = "gone"
      /\ \A u \in Tenant \ lost' : u \notin lost
  <2>1. \A u \in DeletedIn(frames) : u \in Tenant /\ status[u] = "gone"
    BY <1>4 DEF WatchInv, TypeOK, Deletions, Names
  <2> QED BY <2>1, <1>1, <1>2 DEF WatchInv, TypeOK, Deletions
<1>7. TypeOK' /\ Reconnecting'
  BY <1>1, <1>3, <1>6 DEF WatchInv, TypeOK, Reconnecting
<1>8. NeverActive'
  BY <1>1, <1>3, <1>5 DEF WatchInv, NeverActive
<1>9. Deletions'
  <2>1. \A u \in Tenant : \A i \in DOMAIN frames' :
            Names(i, u)' /\ frames'[i].type = "DELETED" => status'[u] = "gone" /\ LastNames(i, u)'
    BY <1>1, <1>3, <1>5 DEF WatchInv, Deletions
  <2>2. ASSUME NEW u \in Tenant \ lost', status'[u] = "gone"
        PROVE  \/ \E i \in DOMAIN frames' : LastNames(i, u)' /\ frames'[i].type = "DELETED"
               \/ Unnamed(u)' /\ u \notin activeTenantsCache'
    <3>1. CASE Unnamed(u) /\ u \notin activeTenantsCache
      BY <3>1, <1>1, <1>5
    <3>2. ASSUME NEW i \in DOMAIN frames, LastNames(i, u), frames[i].type = "DELETED"
          PROVE  \E k \in DOMAIN frames' : LastNames(k, u)' /\ frames'[k].type = "DELETED"
      <4>1. u \in DeletedIn(frames) /\ u \notin lost /\ u \in DeletedIn(frames')
        BY <1>2, <1>4, <2>2, <3>2 DEF LastNames
      <4>2. PICK k \in DOMAIN frames' : Names(k, u)' /\ frames'[k].type = "DELETED"
        BY <4>1, <1>4
      <4> QED BY <4>2, <2>1
    <3> QED BY <1>1, <1>6, <2>2, <3>1, <3>2 DEF WatchInv, Deletions
  <2> QED BY <1>6, <2>1, <2>2 DEF Deletions
<1>10. Follows'
  BY <1>1 DEF Follows
<1> QED BY <1>3, <1>7, <1>8, <1>9, <1>10 DEF WatchInv, FramesTyped

-----------------------------------------------------------------------------
\* Every step keeps the invariant.
LEMMA NextWatch == WatchInv /\ [Next]_vars => WatchInv'
<1> SUFFICES ASSUME WatchInv, [Next]_vars PROVE WatchInv'
  OBVIOUS
<1>1. CASE Manager
  BY <1>1, ChangeKeepsInv, ServerClosesKeepsInv, MalformedKeepsInv DEF Manager
<1>2. CASE Watcher
  BY <1>2, ControlKeepsInv, ConnectKeepsInv, HandleKeepsInv DEF Watcher
<1>3. CASE ConnectFails \/ StopWatching \/ Stopper
  BY <1>3, ControlKeepsInv
<1>4. CASE UNCHANGED vars
  <2>1. /\ UNCHANGED <<status, frames, activeTenantsCache, lost, pc, conn>>
        /\ UNCHANGED <<wsConnected, watchingActive, stop>>
    BY <1>4 DEF vars, manager, watcher, stopper
  <2>2. FramesTyped' /\ NeverActive' /\ Deletions' /\ Follows'
    BY <2>1, OnlyControl
  <2>3. TypeOK' /\ Reconnecting'
    BY <2>1 DEF WatchInv, TypeOK, Reconnecting
  <2> QED BY <2>2, <2>3 DEF WatchInv
<1> QED BY <1>1, <1>2, <1>3, <1>4 DEF Next

\* The invariant holds throughout.
LEMMA WatchInvariant == Spec => []WatchInv
<1> QED BY InitWatch, NextWatch, PTL DEF Spec

\* The goroutine, the flags and the cache have their types, and wsConnected is
\* set exactly in the inner loop of StartWatching.
THEOREM TypeCorrect == Spec => []TypeOK
<1>1. WatchInv => TypeOK
  BY DEF WatchInv
<1> QED BY <1>1, WatchInvariant, PTL

\* With no frame left on an open connection, ActualizeActiveTenantsCache has
\* made the cache the set of active tenants, but for deletions that were not
\* delivered: however often the watcher reconnected, and whatever it missed.
THEOREM CacheIsCurrent == Spec => []CacheCurrentWhenDrained
<1>1. WatchInv => CacheCurrentWhenDrained
  <2>1. frames = <<>> => \A t : Unnamed(t)
    BY DEF Unnamed
  <2> QED BY <2>1 DEF WatchInv, Follows, CacheCurrentWhenDrained
<1> QED BY <1>1, WatchInvariant, PTL
=============================================================================
