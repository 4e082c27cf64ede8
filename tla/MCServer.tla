------------------------------ MODULE MCServer ------------------------------
(* One run over the root-side services of the server.  The components share no
   state, so a behaviour follows one of them, its focus, while the others stay
   where they start; the state spaces add up instead of multiplying.        *)
EXTENDS ServerMaintenance, ServerJobHooks, ServerActions, ServerRestore, BackupStore, RestoreMerge,
        ModuleHotfix

VARIABLE focus

vars == <<focus, srvVars, hookVars, actionVars, restoreVars, storeVars, mergeVars,
          hotVars>>

Focuses == {"maintenance", "hooks", "actions", "restore", "store", "merge", "hotfix"}

MCServerBudgets == {[registry |-> 0, cancel |-> 1, fault |-> 0], [registry |-> 0, cancel |-> 0, fault |-> 1],
                    [registry |-> 1, cancel |-> 0, fault |-> 0]}
MCDeclares == [v \in Packages |-> CASE v = 2 -> "protected" [] v = 3 -> "none" [] OTHER -> "plain"]
MCBackupKinds == {<<"restore_backup", "full">>, <<"restore_backup", "tec_tac">>, <<"create_backup", "none">>,
                  <<"list_registered_backups", "none">>}
MCBackupBudgets == {[fault |-> 1, crash |-> 0], [fault |-> 0, crash |-> 1]}
MCKeep == [daily |-> 1, unclassified |-> 1]
MCDestTypes == {[r |-> "rclone", f |-> "ftp"], [r |-> "rclone", f |-> "scp"]}
MCHashSupport == [r |-> FALSE, f |-> TRUE]
MCStoreBudgets == {[fault |-> 1, crash |-> 0], [fault |-> 0, crash |-> 1]}
OneMerge == [current |-> [dir |-> NoDir, floor |-> NoFloor, switch |-> Missing],
             archive |-> [dir |-> NoDir, floor |-> NoFloor, switch |-> Missing],
             target |-> "none", source |-> "here", authoritative |-> FALSE]
\* Bytes and servers have no order: names are given in the order they are met.
FirstNames ==
  /\ sides.target = "none" => sides.source = "here"
  /\ sides.current.dir # NoDir => sides.current.dir.files["f1"] # "y"
MCReleased == [v \in {1, 2} |-> IF v = 1 THEN [x |-> "x0", y |-> "y0"] ELSE [x |-> "x9", y |-> "y9"]]
MCHotfixes == [h1 |-> [base |-> 1, before |-> [x |-> "x0", y |-> "y0"], after |-> [x |-> "x1", y |-> "y1"]],
               h2 |-> [base |-> 1, before |-> [x |-> "x1"], after |-> [x |-> "x2"]]]
MCHotBudgets == {[fault |-> 1, kill |-> 0, late |-> 0], [fault |-> 0, kill |-> 1, late |-> 1]}

\* A component that is not the focus starts in one of its initial states.
Init ==
  /\ focus \in Focuses
  /\ InitServer /\ (focus # "maintenance" => registered = 1 /\ srvLeft.cancel = 1)
  /\ InitHooks /\ InitActions
  /\ InitRestore /\ (focus # "restore" => host.req /\ host.opt /\ bkpLeft.fault = 1)
  /\ InitStore /\ (focus # "store" => dtype["f"] = "ftp" /\ storeLeft.fault = 1)
  /\ IF focus = "merge" THEN InitMerge /\ FirstNames ELSE sides = OneMerge /\ outcome = Unmerged
  /\ InitHotfix /\ (focus # "hotfix" => hotLeft.fault = 1)

Maintenance == /\ focus = "maintenance" /\ NextServer
               /\ UNCHANGED <<focus, hookVars, actionVars, restoreVars, storeVars, mergeVars, hotVars>>
Hooks == /\ focus = "hooks" /\ NextHooks
         /\ UNCHANGED <<focus, srvVars, actionVars, restoreVars, storeVars, mergeVars, hotVars>>
Actions == /\ focus = "actions" /\ NextActions
           /\ UNCHANGED <<focus, srvVars, hookVars, restoreVars, storeVars, mergeVars, hotVars>>
Restore == /\ focus = "restore" /\ NextRestore
           /\ UNCHANGED <<focus, srvVars, hookVars, actionVars, storeVars, mergeVars, hotVars>>
Store == /\ focus = "store" /\ NextStore
         /\ UNCHANGED <<focus, srvVars, hookVars, actionVars, restoreVars, mergeVars, hotVars>>
Merging == /\ focus = "merge" /\ _merge_restore_security_state
           /\ UNCHANGED <<focus, srvVars, hookVars, actionVars, restoreVars, storeVars, hotVars>>
Hotfix == /\ focus = "hotfix" /\ NextHotfix
          /\ UNCHANGED <<focus, srvVars, hookVars, actionVars, restoreVars, storeVars, mergeVars>>

Next == Maintenance \/ Hooks \/ Actions \/ Restore \/ Store \/ Merging \/ Hotfix
Spec == Init /\ [][Next]_vars

\* The state of every component keeps its shape.
ServerTypesOK == ServerTypeOK /\ HooksTypeOK /\ ActionsTypeOK /\ RestoreTypeOK /\ StoreTypeOK
=============================================================================
