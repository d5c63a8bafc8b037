------------------------------ MODULE MCDeploy ------------------------------
(* One upgrade work, and two definitions of the service.                    *)
EXTENDS MCUpgrade, Deploy

CONSTANTS v1, v2
=============================================================================
