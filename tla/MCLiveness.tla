----------------------------- MODULE MCLiveness -----------------------------
(* What the root-side jobs of the server promise to do in the end.  As in
   MCServer a behaviour follows one component, its focus, under the fairness
   that component assumes.                                                  *)
EXTENDS ServerMaintenance, ServerJobHooks, ServerRestore, SystemUpdate

VARIABLE focus

vars == <<focus, srvVars, hookVars, restoreVars, updateVars>>

MCServerBudgets == {[registry |-> 0, cancel |-> c, fault |-> 0] : c \in {0, 1}}
MCBackupKinds == {<<"restore_backup", "full">>, <<"create_backup", "none">>}
MCBackupBudgets == {[fault |-> 1, crash |-> 0]}
MCUpdateBudgets == {[fault |-> 2, crash |-> 0, late |-> 1, admin |-> 1]}

Init ==
  /\ focus \in {"maintenance", "cancel", "hooks", "restore", "update"}
  /\ InitServer /\ InitHooks /\ InitRestore /\ InitUpdate
  /\ srvLeft.cancel = (IF focus = "cancel" THEN 1 ELSE 0)
  /\ focus # "restore" => host.req /\ host.opt

(* Two jobs wait for the lock, or one is cancelled. *)
Started == IF focus = "cancel" THEN {"m1"} ELSE ServerJobs

Maintenance(A) == /\ focus \in {"maintenance", "cancel"} /\ A
                  /\ {j \in ServerJobs : srv'[j].public.status # "none"} \subseteq Started
                  /\ UNCHANGED <<focus, hookVars, restoreVars, updateVars>>
Hooks(A)       == focus = "hooks" /\ A /\ UNCHANGED <<focus, srvVars, restoreVars, updateVars>>
Restore(A)     == focus = "restore" /\ A /\ UNCHANGED <<focus, srvVars, hookVars, updateVars>>
Update(A)      == focus = "update" /\ A /\ UNCHANGED <<focus, srvVars, hookVars, restoreVars>>

Next == Maintenance(NextServer) \/ Hooks(NextHooks) \/ Restore(NextRestore) \/ Update(NextUpdate)

(* The fairness each component states for itself. *)
Fairness ==
  /\ \A j \in ServerJobs :
       /\ WF_vars(Maintenance(StartReturns(j) \/ (srv[j].dispatch = "failed" /\ StartFails(j))))
       /\ WF_vars(Maintenance(claim_job(j) \/ DispatchCheck(j) \/ DispatchSpawn(j) \/ DispatchReturns(j)))
       /\ SF_vars(Maintenance(RunLock(j)))
       /\ WF_vars(Maintenance(RunStep(j)))
       /\ WF_vars(Maintenance(CancelStep(j)))
  /\ \A c \in Cores : WF_vars(Hooks(VisitStep(c) /\ UNCHANGED file))
  /\ \A c \in Cores, j \in HookJobs : WF_vars(Hooks(TickStep(c, j) /\ UNCHANGED file))
  /\ \A j \in HookJobs : WF_vars(Hooks(expire_stale_claims(j) /\ UNCHANGED file))
  /\ \A j \in BackupJobs : WF_vars(Restore(BackupStep(j)))
  /\ \A j \in Updates : WF_vars(Update(UpdateWorker(j)))

Spec == Init /\ [][Next]_vars /\ Fairness

=============================================================================
