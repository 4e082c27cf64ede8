----------------------------- MODULE MCRestore ------------------------------
(* ServerRestore alone: one full restore that meets one failure. *)
EXTENDS ServerRestore

MCBackupKinds == {<<"restore_backup", "full">>}
MCBackupBudgets == {[fault |-> 1, crash |-> 0]}
=============================================================================
