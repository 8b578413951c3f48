------------------------------ MODULE MCUpgrade -----------------------------
EXTENDS Upgrade, TLC

CONSTANTS c1, c2

(* A release and one whose data need a migration.                          *)
SchemaVersions == (c1 :> 1) @@ (c2 :> 2)
=============================================================================
