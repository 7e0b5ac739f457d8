--------------------------- MODULE MCVaultExport ---------------------------
(* The instance of VaultExport that TLC checks.                             *)
EXTENDS VaultExport
=============================================================================
