----------------------------- MODULE MCSiteSync -----------------------------
(***************************************************************************)
(* Small instances of SiteSync for TLC.                                    *)
(***************************************************************************)
EXTENDS SiteSync, TLC

CONSTANTS t1, t2, a1, a2, A1, p1, p2, master, child

(* A1 is a1 with upper-case letters in it. *)
MCLower == [a \in Address |-> IF a = A1 THEN a1 ELSE a]

(* Both tenants in one namespace, next to the service or not, or only one  *)
(* of them in a child namespace.                                           *)
OneNamespace == [t \in Tenant |-> master]
ChildNamespace == [t \in Tenant |-> child]
TwoNamespaces == [t \in Tenant |-> IF t = t1 THEN child ELSE master]

Active(hosts) == [active |-> TRUE, hosts |-> hosts]

(* Both tenants may claim a1. *)
SharedHost == [t \in Tenant |-> IF t = t1 THEN {Active({a1})} ELSE {Active({a1, a2})}]

(* Both tenants may claim one host, one of them in upper case. *)
MixedCase == [t \in Tenant |-> IF t = t1 THEN {Active({A1})} ELSE {Active({a1, a2})}]

(* One tenant, whose scheme may be emptied and filled again. *)
Single == [t \in Tenant |-> {Active({a1})}]

Slots == Permutations(Request)
=============================================================================
