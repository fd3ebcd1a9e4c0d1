------------------------- MODULE MCTenantErasure -------------------------
(* TenantErasure where only the first tenant has an export job. *)
EXTENDS TenantErasure, TLC

CONSTANTS t1, x1

MCOwnerOf == x1 :> t1
==========================================================================
