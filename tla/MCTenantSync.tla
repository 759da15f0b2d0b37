--------------------------- MODULE MCTenantSync ----------------------------
(* Tenants can be exchanged: nothing in TenantSync orders or names them.   *)
EXTENDS TenantSync, TLC

Symmetry == Permutations(Tenant)

=============================================================================
