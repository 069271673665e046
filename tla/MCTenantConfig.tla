---------------------------- MODULE MCTenantConfig ----------------------------
(* TenantConfig for TLC.                                                   *)
EXTENDS TenantConfig

(* credentialRefFor of routes of unlike names.                             *)
Refs == [r \in Route |-> r]
===============================================================================
