----------------------------- MODULE Reconciler -----------------------------
(***************************************************************************)
(* What a synchronization promises, said of the hosts the cluster serves   *)
(* in each namespace and not of routes, lists and calls: it looks at the   *)
(* table once, and later serves, in one step, what the table asked for     *)
(* when it was looked at.  Rows change at any time and do not disturb it.  *)
(* Only a failure makes the outcome differ, one host at a time and in one  *)
(* of two ways, and each failure is on record: a stale host stays, or a    *)
(* host is not served.  An interruption leaves any number of them behind.  *)
(***************************************************************************)

CONSTANTS Tenant, Address, Lower, Namespace, Master, Home, NoRow

VARIABLES
    table,    \* the rows, per tenant
    view,     \* the rows as they were looked at
    stage,    \* "idle", "looked" or "reconciled"
    served,   \* <<namespace, host>> the cluster serves
    clean,    \* nothing has failed since the table was looked at
    missed    \* a synchronization was interrupted, and none came since

vars == <<table, view, stage, served, clean, missed>>

Row == [active : BOOLEAN, removed : BOOLEAN, hosts : SUBSET Address]
Place == Namespace \X Address
Empty == [t \in Tenant |-> NoRow]

-----------------------------------------------------------------------------
Wants(d, t, a) == d[t] # NoRow /\ d[t].active /\ a \in d[t].hosts

(* The places the rows d ask for, and the places they do not: a host that  *)
(* nobody wants, in the service's own namespace or one a row names.        *)
Asked(d) ==
    {<<Home[x[1]], Lower[x[2]]>> : x \in {y \in Tenant \X Address : Wants(d, y[1], y[2])}}

Stale(d, s) ==
    /\ s[1] = Master \/ \E t \in Tenant : d[t] # NoRow /\ s[1] = Home[t]
    /\ \A t \in Tenant, a \in Address : Wants(d, t, a) => Lower[a] # s[2]

-----------------------------------------------------------------------------
Init ==
    /\ table = Empty /\ view = Empty
    /\ stage = "idle"
    /\ served = {}
    /\ clean = TRUE /\ missed = FALSE

WriteRow(t) ==
    /\ \E row \in Row :
           /\ row.removed => row.hosts = {}
           /\ table' = [table EXCEPT ![t] = row]
    /\ UNCHANGED <<view, stage, served, clean, missed>>

DropRow(t) ==
    /\ table' = [table EXCEPT ![t] = NoRow]
    /\ UNCHANGED <<view, stage, served, clean, missed>>

Look ==
    /\ stage = "idle"
    /\ view' = table /\ stage' = "looked" /\ clean' = TRUE
    /\ UNCHANGED <<table, served, missed>>

Reconcile ==
    /\ stage = "looked"
    /\ stage' = "reconciled"
    /\ served' = {s \in served : ~Stale(view, s)} \cup Asked(view)
    /\ missed' = FALSE
    /\ UNCHANGED <<table, view, clean>>

Rest ==
    /\ stage = "reconciled"
    /\ stage' = "idle" /\ view' = Empty
    /\ UNCHANGED <<table, served, clean, missed>>

Keep(s) ==
    /\ stage = "reconciled"
    /\ Stale(view, s)
    /\ served' = served \cup {s}
    /\ clean' = FALSE
    /\ UNCHANGED <<table, view, stage, missed>>

Lose(s) ==
    /\ served' \in {served, served \ {s}}
    /\ clean' = FALSE
    /\ UNCHANGED <<table, view, stage, missed>>

Interrupt ==
    /\ stage' = "idle" /\ view' = Empty
    /\ served' \subseteq Place
    /\ \A s \in served' \ served : stage = "reconciled" /\ Stale(view, s)
    /\ \A s \in served \ served' : stage = "reconciled" /\ s \in Asked(view)
    /\ missed' = TRUE
    /\ UNCHANGED <<table, clean>>

Next ==
    \/ \E t \in Tenant : WriteRow(t) \/ DropRow(t)
    \/ Look \/ Reconcile \/ Rest \/ Interrupt
    \/ \E s \in Place : Keep(s) \/ Lose(s)

Spec == Init /\ [][Next]_vars
=============================================================================
