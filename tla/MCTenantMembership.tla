------------------------- MODULE MCTenantMembership --------------------------
EXTENDS TenantMembership, TLC

Symmetry ==
    Permutations(Users) \cup Permutations(Tenants) \cup Permutations(Requests)
=============================================================================
