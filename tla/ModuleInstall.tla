---------------------------- MODULE ModuleInstall ----------------------------
(***************************************************************************)
(* The install transaction of module-v2-job-helper.py: back up the modules *)
(* a plan touches, run install-extension.sh for each, verify, migrate the  *)
(* identity of renamed modules, write module-state.json, refresh the       *)
(* runtime, register the server actions; on any failure put the backup     *)
(* back.  The lifecycle lock makes the jobs run one after the other.       *)
(***************************************************************************)
EXTENDS Naturals, Sequences, FiniteSets, SequencesExt

CONSTANTS Fleet,            \* module ids
          Installed0,       \* the versions the server starts with, 0 for none
          InstallPlans,     \* sequences of [id, version, from], from = id unless a rename
          MaxInstalls,
          InstallBudgets    \* [fault, kill]

VARIABLES tree,     \* code: extensions/<id>, 0 when absent;
                    \* state: module-state.json, the version on record or 0;
                    \* file: whether module-state.json exists;
                    \* schema: how far the database is migrated for an id;
                    \* rows: the ids that own permissions and schedules;
                    \* loaded: the code the processes run; acts: the registered actions
          ins,      \* the job being run
          insLeft

installVars == <<tree, ins, insLeft>>

NoBackup == [made |-> FALSE, code |-> [m \in Fleet |-> 0], state |-> [m \in Fleet |-> 0]]
NoInstall == [at |-> "idle", plan |-> <<>>, i |-> 0, ids |-> {}, backup |-> NoBackup,
              renamed |-> {}, was |-> <<>>, early |-> FALSE, n |-> 0]

InitInstall ==
  /\ tree = [code |-> Installed0, state |-> Installed0, file |-> TRUE, schema |-> Installed0,
             rows |-> {m \in Fleet : Installed0[m] > 0}, loaded |-> Installed0, acts |-> Installed0]
  /\ ins = NoInstall
  /\ insLeft \in InstallBudgets

InstallSpend(what) == insLeft[what] > 0 /\ insLeft' = [insLeft EXCEPT ![what] = @ - 1]
NoInstallFault == UNCHANGED insLeft
InstallAt(place) == ins.at = place
InstallGoes(place) == ins' = [ins EXCEPT !.at = place]
Planned == ToSet(ins.plan)
Order == {a.id : a \in Planned}
Renames == {a \in Planned : a.from # a.id}
Action == ins.plan[ins.i]

\* Any failure inside the transaction goes to its except clause.
InstallRaises == InstallSpend("fault") /\ InstallGoes("identity_back") /\ UNCHANGED tree

----------------------------------------------------------------------------
\* run_job: the plan is bound to the signed artifacts, else the job fails here;
\* a rename needs its source installed and its destination new.
StartInstall ==
  /\ InstallAt("idle") /\ ins.n < MaxInstalls
  /\ \E plan \in InstallPlans :
       /\ \A k \in DOMAIN plan : /\ plan[k].version > tree.code[plan[k].id]
                                 /\ plan[k].from # plan[k].id => tree.code[plan[k].from] > 0
       /\ ins' = [NoInstall EXCEPT !.at = "backup", !.plan = plan, !.n = ins.n + 1, !.was = tree,
                    !.ids = {plan[k].id : k \in DOMAIN plan}]
  /\ UNCHANGED tree /\ NoInstallFault

\* backup_modules, of the plan's modules and of the ones they rename.  The
\* record of what was copied is written last.
BackupOf(ids) ==
  /\ InstallAt("backup")
  /\ \/ /\ NoInstallFault /\ UNCHANGED tree
        /\ ins' = [ins EXCEPT !.at = "next", !.i = 1,
                     !.backup = [made |-> TRUE, state |-> tree.state,
                                 code |-> [m \in Fleet |-> IF m \in ids
                                                           THEN tree.code[m] ELSE 0]]]
     \/ /\ InstallSpend("fault") /\ UNCHANGED tree
        /\ ins' = [ins EXCEPT !.at = "identity_back", !.early = TRUE]
BackupNewNames == BackupOf(Order)   \* Mutant: a renamed module's old folder is not copied.
backup_modules == BackupOf(Order \cup {a.from : a \in Planned})

\* install_packages removes the code of a renamed module before its script runs.
InstallPackagesWith(left) ==
  /\ InstallAt("next") /\ NoInstallFault
  /\ IF ins.i > Len(ins.plan)
     THEN /\ ins' = [ins EXCEPT !.at = "verify", !.ids = Order \cup {a.from : a \in Planned}]
          /\ UNCHANGED tree
     ELSE /\ InstallGoes("script")
          /\ tree' = IF Action.from = Action.id THEN tree
                     ELSE [tree EXCEPT !.code[Action.from] = left[Action.from]]
InstallPackagesBeside == InstallPackagesWith(tree.code)   \* Mutant: the old folder stays.
install_packages == InstallPackagesWith(NoBackup.code)

\* install-extension.sh: copy, check, migrate, reload; a failure puts the
\* module's earlier code back and leaves the migrations applied.
ScriptMigrating(migrated) ==
  /\ InstallAt("script")
  /\ \/ /\ NoInstallFault
        /\ tree' = [migrated EXCEPT !.code[Action.id] = Action.version]
        /\ ins' = [ins EXCEPT !.at = "next", !.i = @ + 1]
     \/ /\ InstallSpend("fault") /\ tree' \in {tree, migrated}
        /\ ins' = [ins EXCEPT !.at = "identity_back", !.early = (Renames # {})]
ScriptWithoutMigrate == ScriptMigrating(tree)   \* Mutant: no migrations run.
InstallScript == ScriptMigrating([tree EXCEPT !.schema[Action.id] = Action.version])

\* verify_install_disables and verify_install_categories.
VerifyInstall ==
  /\ InstallAt("verify")
  /\ \/ NoInstallFault /\ ins' = [ins EXCEPT !.at = "state", !.i = 1] /\ UNCHANGED tree
     \/ InstallRaises

\* For each action in turn: the identity migration of a rename (one database
\* transaction), the move of its state record, then remember_version.
MigrateIdentity ==
  /\ InstallAt("state")
  /\ IF ins.i > Len(ins.plan)
     THEN InstallGoes("sync") /\ UNCHANGED tree /\ NoInstallFault
     ELSE IF Action.from = Action.id
     THEN InstallGoes("remember") /\ UNCHANGED tree /\ NoInstallFault
     ELSE \/ /\ NoInstallFault /\ InstallGoes("state_move")
             /\ tree' = [tree EXCEPT !.rows = IF Action.from \in @ THEN (@ \ {Action.from}) \cup {Action.id}
                                              ELSE @]
          \/ InstallRaises

migrate_module_state_identity ==
  /\ InstallAt("state_move")
  /\ IF tree.state[Action.id] > 0
     THEN NoInstallFault /\ InstallGoes("identity_back") /\ UNCHANGED tree
     ELSE \/ /\ NoInstallFault
             /\ tree' = [tree EXCEPT !.state[Action.id] = tree.state[Action.from], !.state[Action.from] = 0]
             /\ ins' = [ins EXCEPT !.at = "remember", !.renamed = @ \cup {Action}]
          \/ InstallRaises

remember_version ==
  /\ InstallAt("remember")
  /\ \/ /\ NoInstallFault /\ ins' = [ins EXCEPT !.at = "state", !.i = @ + 1]
        /\ tree' = [tree EXCEPT !.state[Action.id] = Action.version, !.file = TRUE,
                      !.rows = @ \cup {Action.id}]
     \/ InstallRaises

\* sync_and_reload restarts the processes; a failure may come before or after.
RefreshRuntime ==
  /\ InstallAt("sync")
  /\ \/ NoInstallFault /\ InstallGoes("actions") /\ tree' = [tree EXCEPT !.loaded = tree.code]
     \/ /\ InstallSpend("fault") /\ InstallGoes("identity_back")
        /\ tree' \in {tree, [tree EXCEPT !.loaded = tree.code]}

\* sync_server_maintenance_actions, of the renamed modules and then of the new ones.
RegisterActions ==
  /\ InstallAt("actions")
  /\ \/ /\ NoInstallFault /\ InstallGoes("succeeded")
        /\ tree' = [tree EXCEPT !.acts = [m \in Fleet |-> IF m \in ins.ids THEN tree.code[m] ELSE @[m]]]
     \/ InstallRaises

----------------------------------------------------------------------------
(* The except clause. *)

\* run_identity_migration(..., reverse=True) of the renames that were finished.
ReverseIdentity ==
  /\ InstallAt("identity_back") /\ InstallGoes("code_back")
  /\ \/ /\ NoInstallFault
        /\ tree' = [tree EXCEPT !.rows = (@ \ {a.id : a \in ins.renamed})
                                         \cup {a.from : a \in {b \in ins.renamed : b.id \in tree.rows}}]
     \/ ins.renamed # {} /\ InstallSpend("fault") /\ UNCHANGED tree

\* restore_modules: the folders of the ids known so far go and come back from
\* the backup; module-state.json is copied back, or removed without a copy.
restore_module_backup ==
  /\ InstallAt("code_back") /\ InstallGoes("actions_back") /\ NoInstallFault
  /\ tree' = [tree EXCEPT !.code = [m \in Fleet |-> IF m \in ins.ids THEN ins.backup.code[m] ELSE @[m]],
                          !.state = IF ins.backup.made THEN ins.backup.state ELSE [m \in Fleet |-> 0],
                          !.file = ins.backup.made]

\* restore_server_maintenance_actions, then one more refresh; both only log.
RestoreRuntime ==
  /\ InstallAt("actions_back") /\ InstallGoes("failed")
  /\ LET back == [tree EXCEPT !.acts = [m \in Fleet |-> IF m \in ins.ids THEN tree.code[m] ELSE @[m]]] IN
     \/ NoInstallFault /\ tree' = [back EXCEPT !.loaded = tree.code]
     \/ InstallSpend("fault") /\ tree' \in {[tree EXCEPT !.loaded = tree.code], back}

InstallOver ==
  /\ ins.at \in {"succeeded", "failed"}
  /\ ins' = [NoInstall EXCEPT !.n = ins.n] /\ UNCHANGED tree /\ NoInstallFault

\* The helper is killed; nothing rolls back.
InstallKilled ==
  /\ ins.at \notin {"idle", "succeeded", "failed", "killed"} /\ InstallSpend("kill")
  /\ ins' = [NoInstall EXCEPT !.at = "killed"] /\ UNCHANGED tree

InstallForward == \/ StartInstall \/ backup_modules \/ install_packages \/ InstallScript \/ VerifyInstall
                  \/ MigrateIdentity \/ migrate_module_state_identity \/ remember_version
                  \/ RefreshRuntime \/ RegisterActions
InstallBack == ReverseIdentity \/ restore_module_backup \/ RestoreRuntime
NextInstall == InstallForward \/ InstallBack \/ InstallOver \/ InstallKilled

SpecInstall == InitInstall /\ [][NextInstall]_installVars

----------------------------------------------------------------------------
\* Types of the install state; every module has a version on record or none.
InstallTypeOK ==
  /\ tree.code \in [Fleet -> Nat] /\ tree.state \in [Fleet -> Nat] /\ tree.loaded \in [Fleet -> Nat]
  /\ tree.schema \in [Fleet -> Nat] /\ tree.acts \in [Fleet -> Nat]
  /\ tree.rows \subseteq Fleet /\ tree.file \in BOOLEAN
  /\ ins.ids \subseteq Fleet /\ ins.n \in 0..MaxInstalls /\ ins.renamed \subseteq Planned

\* A job that reports success left exactly the planned versions on disk, on
\* record, loaded and registered, and nothing of a renamed module.
InstalledIsWhole ==
  ins.at = "succeeded" =>
    /\ \A a \in Planned : /\ tree.code[a.id] = a.version /\ tree.state[a.id] = a.version
                          /\ tree.loaded[a.id] = a.version /\ tree.acts[a.id] = a.version
                          /\ a.id \in tree.rows
    /\ \A a \in Renames : tree.code[a.from] = 0 /\ tree.state[a.from] = 0 /\ a.from \notin tree.rows

\* A failed job leaves the code and the module state it found, when the script
\* of no rename failed and the backup was made.
FailedUpgradeRestores ==
  ins.at = "failed" /\ ~ins.early => tree.code = ins.was.code /\ tree.state = ins.was.state

\* The database is never behind the code that is installed.
SchemaCoversCode == \A m \in Fleet : tree.schema[m] >= tree.code[m]

\* The report of an install is true of the whole server: code, module state,
\* database, loaded processes and registered actions (run_job of the v2 helper).
InstallIsTrue == InstalledIsWhole /\ FailedUpgradeRestores /\ SchemaCoversCode
=============================================================================
