------------------------------ MODULE MCBackup ------------------------------
(***************************************************************************)
(* A shard of two servers for model checking the backups.                  *)
(***************************************************************************)
EXTENDS Backup, TLC

CONSTANTS s1, s2
Two == {s1, s2}
BothModes == {"rbr", "mgr"}
OnlyRbr == {"rbr"}
=============================================================================
