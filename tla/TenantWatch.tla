---------------------------- MODULE TenantWatch ----------------------------
(***************************************************************************)
(* The tenant-manager watcher (tm.Client): one goroutine connects to a     *)
(* websocket, takes frames and runs callbacks, and reconnects when the     *)
(* server closes; StopWatching, called by somebody else, clears a flag     *)
(* and, when it sees a connection, sends on the unbuffered channel quit    *)
(* and waits for the goroutine.  The flags watchingActive and wsConnected  *)
(* are shared without a lock.                                              *)
(*                                                                         *)
(* The callback modelled is the one that keeps activeTenantsCache, which   *)
(* decides the realms sent to the identity provider.  A frame is its event *)
(* type and the statuses of the tenants it names.  Tenant-manager is       *)
(* external: it changes tenants, sends an event for each change to an open *)
(* subscription, and a SUBSCRIBED event with all its tenants first.        *)
(***************************************************************************)
EXTENDS Naturals, Sequences

CONSTANTS
    Tenant,        \* external ids of tenants
    MaxChanges,    \* bound on tenant-manager's changes
    MaxFaults,     \* bound on refused and closed connections and bad frames
    MaxStops       \* 1 when StopWatching may be called, else 0

ASSUME BoundsAssumption ==
    MaxChanges \in Nat /\ MaxFaults \in Nat /\ MaxStops \in 0..1

VARIABLES
    status,        \* tenant-manager: the status of each tenant
    conn,          \* the websocket connection: none, open, or closed by the server
    frames,        \* frames sent and not yet taken from subscription.FrameCh
    pc,            \* where the goroutine is
    watchingActive,
    wsConnected,
    stop,          \* where the caller of StopWatching is
    activeTenantsCache,
    lost,          \* history: tenants whose DELETED event never arrives
    changes, faults  \* how much of each bound is used

manager == <<status, changes>>
watcher == <<pc, wsConnected, activeTenantsCache>>
stopper == <<watchingActive, stop>>
vars == <<manager, conn, frames, watcher, stopper, lost, faults>>

Status == {"none", "CREATED", "ACTIVE", "SUSPENDED", "gone"}
Known(t) == status[t] \notin {"none", "gone"}

Frame(type, tenants) == [type |-> type, tenants |-> [t \in tenants |-> status[t]]]
Malformed == Frame("malformed", {})

-----------------------------------------------------------------------------
Init ==
    /\ status \in [Tenant -> {"none", "ACTIVE"}]
    /\ conn = "none" /\ frames = <<>>
    /\ pc = "loop" /\ watchingActive = TRUE /\ wsConnected = FALSE
    /\ stop = "idle"
    /\ activeTenantsCache = {} /\ lost = {}
    /\ changes = 0 /\ faults = 0

Failing == faults < MaxFaults /\ faults' = faults + 1

-----------------------------------------------------------------------------
(* Tenant-manager.  An event of a deletion carries the tenant as it was.   *)

EventOf(new) == CASE new = "CREATED" -> "CREATED" [] new = "gone" -> "DELETED"
                  [] OTHER -> "MODIFIED"

Successors(old) ==
    CASE old = "none"      -> {"CREATED"}
      [] old = "CREATED"   -> {"ACTIVE", "gone"}
      [] old = "ACTIVE"    -> {"SUSPENDED", "gone"}
      [] old = "SUSPENDED" -> {"ACTIVE", "gone"}
      [] old = "gone"      -> {}

ChangeTenant(t, new) ==
    /\ changes < MaxChanges
    /\ changes' = changes + 1
    /\ new \in Successors(status[t])
    /\ status' = [status EXCEPT ![t] = new]
    /\ frames' = IF conn = "open"
                 THEN Append(frames, [type |-> EventOf(new), tenants |-> [u \in {t} |-> new]])
                 ELSE frames
    /\ lost' = IF new = "gone" /\ conn # "open" THEN lost \cup {t} ELSE lost
    /\ UNCHANGED <<conn, watcher, stopper, faults>>

DeletedIn(s) == UNION {DOMAIN s[i].tenants : i \in {j \in DOMAIN s : s[j].type = "DELETED"}}

(* The server closes the connection; what it had sent last may be lost.    *)
ServerCloses ==
    /\ conn = "open"
    /\ Failing
    /\ conn' = "closed"
    /\ \E n \in 0..Len(frames) :
           /\ frames' = SubSeq(frames, 1, n)
           /\ lost' = lost \cup (DeletedIn(frames) \ DeletedIn(frames'))
    /\ UNCHANGED <<manager, watcher, stopper>>

SendMalformed ==
    /\ conn = "open"
    /\ Failing
    /\ frames' = Append(frames, Malformed)
    /\ UNCHANGED <<manager, conn, watcher, stopper, lost>>

-----------------------------------------------------------------------------
(* The goroutine of StartWatching. *)

(* Mutation: the goroutine reconnects for ever. *)
LoopForever ==
    /\ pc = "loop"
    /\ pc' = "connect"
    /\ UNCHANGED <<manager, conn, frames, wsConnected, activeTenantsCache, stopper, lost, faults>>

Loop ==
    /\ pc = "loop"
    /\ pc' = IF watchingActive THEN "connect" ELSE "done"
    /\ UNCHANGED <<manager, conn, frames, wsConnected, activeTenantsCache, stopper, lost, faults>>

ConnectAndSubscribe ==
    /\ pc = "connect"
    /\ conn' = "open"
    /\ frames' = <<Frame("SUBSCRIBED", {t \in Tenant : Known(t)})>>
    /\ pc' = "connected"
    /\ UNCHANGED <<manager, wsConnected, activeTenantsCache, stopper, lost, faults>>

ConnectFails ==
    /\ pc = "connect"
    /\ Failing
    /\ pc' = "retry"
    /\ UNCHANGED <<manager, conn, frames, wsConnected, activeTenantsCache, stopper, lost>>

Retry ==
    /\ pc = "retry"
    /\ pc' = "loop"
    /\ UNCHANGED <<manager, conn, frames, wsConnected, activeTenantsCache, stopper, lost, faults>>

MarkConnected ==
    /\ pc = "connected"
    /\ wsConnected' = TRUE
    /\ pc' = "select"
    /\ UNCHANGED <<manager, conn, frames, activeTenantsCache, stopper, lost, faults>>

With(f, s) == {t \in DOMAIN f.tenants : f.tenants[t] = s}

(* Mutation: a suspended tenant stays in the cache. *)
UpdateKeepingSuspended(cache, f) == cache \cup With(f, "ACTIVE")

(* Statuses other than ACTIVE and SUSPENDED leave the cache as it is.      *)
UpdateActiveTenantsCache(cache, f) == (cache \cup With(f, "ACTIVE")) \ With(f, "SUSPENDED")

(* Mutation: the list that comes with SUBSCRIBED is ignored. *)
ActualizedByChanges(cache, f) ==
    CASE f.type = "MODIFIED" -> UpdateActiveTenantsCache(cache, f)
      [] f.type = "DELETED" -> cache \ DOMAIN f.tenants
      [] OTHER -> cache

(* ActualizeActiveTenantsCache leaves out CREATED events. *)
Actualized(cache, f) ==
    CASE f.type \in {"MODIFIED", "SUBSCRIBED"} -> UpdateActiveTenantsCache(cache, f)
      [] f.type = "DELETED" -> cache \ DOMAIN f.tenants
      [] OTHER -> cache

HandleFrame ==
    /\ pc = "select"
    /\ frames # <<>>
    /\ frames' = Tail(frames)
    /\ activeTenantsCache' = Actualized(activeTenantsCache, Head(frames))
    /\ UNCHANGED <<manager, conn, pc, wsConnected, stopper, lost, faults>>

(* FrameCh is closed: the goroutine sleeps, still marked as connected.     *)
SeeClosed ==
    /\ pc = "select"
    /\ conn = "closed" /\ frames = <<>>
    /\ pc' = "sleep"
    /\ UNCHANGED <<manager, conn, frames, wsConnected, activeTenantsCache, stopper, lost, faults>>

WakeUp ==
    /\ pc = "sleep"
    /\ pc' = "disconnect"
    /\ UNCHANGED <<manager, conn, frames, wsConnected, activeTenantsCache, stopper, lost, faults>>

(* quit is unbuffered: the send and the receive are one step of both.      *)
TakeQuit ==
    /\ pc = "select"
    /\ stop = "send"
    /\ pc' = "disconnect"
    /\ stop' = "wait"
    /\ UNCHANGED <<manager, conn, frames, wsConnected, activeTenantsCache, watchingActive, lost,
                   faults>>

(* Mutation: the flag is not cleared. *)
DisconnectKeepsFlag ==
    /\ pc = "disconnect"
    /\ pc' = "loop"
    /\ UNCHANGED <<manager, conn, frames, wsConnected, activeTenantsCache, stopper, lost, faults>>

(* Connector.Disconnect closes stompClient, a field nothing ever assigns:  *)
(* the connection stays as it is.  Then the deferred function clears the   *)
(* flag.                                                                   *)
Disconnect ==
    /\ pc = "disconnect"
    /\ wsConnected' = FALSE
    /\ pc' = "loop"
    /\ UNCHANGED <<manager, conn, frames, activeTenantsCache, stopper, lost, faults>>

-----------------------------------------------------------------------------
(* StopWatching. *)

StopWatching ==
    /\ MaxStops = 1
    /\ stop = "idle"
    /\ watchingActive' = FALSE
    /\ stop' = "check"
    /\ UNCHANGED <<manager, conn, frames, watcher, lost, faults>>

CheckConnected ==
    /\ stop = "check"
    /\ stop' = IF wsConnected THEN "send" ELSE "returned"
    /\ UNCHANGED <<manager, conn, frames, watcher, watchingActive, lost, faults>>

Wait ==
    /\ stop = "wait"
    /\ pc = "done"
    /\ stop' = "returned"
    /\ UNCHANGED <<manager, conn, frames, watcher, watchingActive, lost, faults>>

-----------------------------------------------------------------------------
Manager ==
    \/ \E t \in Tenant, new \in Status : ChangeTenant(t, new)
    \/ ServerCloses
    \/ SendMalformed

Watcher ==
    \/ Loop \/ ConnectAndSubscribe \/ Retry \/ MarkConnected \/ HandleFrame
    \/ SeeClosed \/ WakeUp \/ TakeQuit \/ Disconnect

Stopper == CheckConnected \/ Wait

Next == Manager \/ Watcher \/ ConnectFails \/ StopWatching \/ Stopper

Spec == Init /\ [][Next]_vars

(* Goroutines that can run do run, and the two sleeps end.  Whether         *)
(* somebody calls StopWatching is left open.                               *)
FairSpec == Spec /\ WF_vars(Watcher) /\ WF_vars(Stopper)

-----------------------------------------------------------------------------
(* Properties. *)

(* The types of the connection, the goroutine and the flags; wsConnected   *)
(* is set exactly while the goroutine is inside its inner loop.            *)
TypeOK ==
    /\ status \in [Tenant -> Status]
    /\ conn \in {"none", "open", "closed"}
    /\ \A i \in DOMAIN frames : DOMAIN frames[i].tenants \subseteq Tenant
    /\ pc \in {"loop", "connect", "retry", "connected", "select", "sleep", "disconnect", "done"}
    /\ watchingActive \in BOOLEAN
    /\ wsConnected \in BOOLEAN
    /\ wsConnected <=> pc \in {"select", "sleep", "disconnect"}
    /\ stop \in {"idle", "check", "send", "wait", "returned"}
    /\ activeTenantsCache \subseteq Tenant /\ lost \subseteq Tenant

(* Over an open connection with no frame left, the cache holds exactly the *)
(* active tenants, whatever was missed while disconnected: the SUBSCRIBED  *)
(* event repairs it, but for tenants whose deletion was not delivered.     *)
CacheCurrentWhenDrained ==
    pc = "select" /\ conn = "open" /\ frames = <<>> =>
        \A t \in Tenant \ lost : t \in activeTenantsCache <=> status[t] = "ACTIVE"

(* Unless somebody stops it, the watcher reconnects after every refusal    *)
(* and close, and the cache settles on the active tenants (lost ones       *)
(* aside).                                                                 *)
CacheSettles ==
    <>[](\/ stop # "idle"
         \/ \A t \in Tenant \ lost : t \in activeTenantsCache <=> status[t] = "ACTIVE")

(* A call of StopWatching returns, whatever the goroutine is doing, unless *)
(* the server closes the connection as well.                               *)
StopReturns == stop = "check" ~> stop = "returned" \/ conn = "closed"

-----------------------------------------------------------------------------
(* What comments say, and the code does not do. *)

(* "To stop goroutine use method StopWatching", which "stops watching      *)
(* gracefully": the goroutine ends once StopWatching was called.           *)
StopsGracefully == stop = "check" ~> pc = "done"

(* "need to iterate over each active tenant": a tenant that is gone leaves *)
(* the cache of active tenants.                                            *)
DeletedTenantLeavesCache ==
    \A t \in Tenant : status[t] = "gone" ~> t \notin activeTenantsCache
=============================================================================
