--------------------------- MODULE ServerRestore ---------------------------
(***************************************************************************)
(* Server-backup jobs and the destructive restore.                         *)
(*                                                                         *)
(* framwork/tec_tac/server_backup.py queues a job file and asks the root   *)
(* helper scripts/server-backup-helper.py to dispatch it; the helper       *)
(* claims the file and a transient systemd unit runs the operation.  The   *)
(* model follows every write of the job file, the mutation lock, and the   *)
(* restore as a transaction on the host: Tactical's tree, its host paths,  *)
(* Tec-Tac's host paths, the databases and the services.  Any step may     *)
(* fail, and the host may lose power between any two steps.                *)
(*                                                                         *)
(* Contents are "v0" (what the server held), "new" (the backup's),         *)
(* "broken" (half written) or "absent".                                    *)
(***************************************************************************)
EXTENDS Naturals

CONSTANTS BackupJobs,      \* job ids
          BackupKinds,     \* the <<action, restore mode>> pairs callers ask for
          BackupBudgets    \* faults and power losses a behaviour may meet

VARIABLES bkp,      \* per job: its file, its processes and what it set aside
          mutex,    \* holder of the mutation lock, or NoHolder
          host,     \* what the server runs on
          bkpLeft   \* faults left to happen

restoreVars == <<bkp, mutex, host, bkpLeft>>

NoHolder == "free"
Restores == {"restore_backup", "restore_registered_backup"}
Registered == {"list_registered_destinations", "list_registered_backups",
               "validate_registered_restore", "restore_registered_backup"}
Mutating == Restores \cup {"create_backup", "apply_retention"}
BackupTerminal == {"succeeded", "failed", "dispatch_failed"}
Parts == {"tree", "thost", "tthost", "db"}
Contents == {"v0", "new", "broken", "absent"}
Nothing == [p \in Parts |-> "absent"]

\* The parts a restore mode replaces, and the ones its snapshot covers.
Replaced(m) == CASE m = "full"     -> Parts
                 [] m = "tactical" -> Parts \ {"tthost"}
                 [] OTHER          -> {"tthost"}
Tactical(j) == bkp[j].mode \in {"full", "tactical"}

NoBackupJob == [action |-> "none", mode |-> "none", status |-> "none",
                core |-> "idle", helper |-> "none", run |-> "none",
                snap |-> Nothing, was |-> [req |-> FALSE, opt |-> FALSE],
                orig |-> Nothing, aside |-> "absent", failed |-> "absent",
                treeErr |-> FALSE, rolled |-> "no", rbFault |-> FALSE]

InitRestore == /\ bkp = [j \in BackupJobs |-> NoBackupJob]
               /\ mutex = NoHolder
               /\ \E r, o \in BOOLEAN :
                     host = [has |-> [p \in Parts |-> "v0"], req |-> r, opt |-> o]
               /\ bkpLeft \in BackupBudgets

BackupFault == bkpLeft.fault > 0 /\ bkpLeft' = [bkpLeft EXCEPT !.fault = @ - 1]
Smooth == bkpLeft' = bkpLeft

----------------------------------------------------------------------------
(* The job file, its dispatch and the detached worker.                     *)

At(j, p) == bkp[j].run = p
Goto(j, p) == bkp' = [bkp EXCEPT ![j].run = p]

\* load_job accepts the file.  The branches for the registered-destination
\* actions read the local "request" before any branch has bound it.
load_backup_job(a) == a \notin Registered

\* ServerBackupProvider / *_core -> _start: write the queued file, dispatch.
_start(j) == /\ bkp[j].status = "none"
             /\ \E k \in BackupKinds :
                   bkp' = [bkp EXCEPT ![j].action = k[1], ![j].mode = k[2],
                                      ![j].status = "queued",
                                      ![j].core = "waiting", ![j].helper = "claim"]
             /\ Smooth /\ UNCHANGED <<mutex, host>>

claim_backup_job(j) ==
  /\ bkp[j].helper = "claim"
  /\ IF load_backup_job(bkp[j].action) /\ bkp[j].status = "queued"
     THEN bkp' = [bkp EXCEPT ![j].status = "dispatched", ![j].helper = "spawn"]
     ELSE bkp' = [bkp EXCEPT ![j].helper = "refused"]
  /\ Smooth /\ UNCHANGED <<mutex, host>>

\* dispatch: systemd-run starts the worker, or refuses and the file says so.
DispatchWorker(j) ==
  /\ bkp[j].helper = "spawn"
  /\ \/ Smooth /\ bkp' = [bkp EXCEPT ![j].run = "begin", ![j].helper = "ok"]
     \/ BackupFault /\ bkp' = [bkp EXCEPT ![j].status = "failed",
                                          ![j].helper = "refused"]
  /\ UNCHANGED <<mutex, host>>

\* _dispatch returns, raises on the helper's exit code, or times out after
\* 15 s while the helper goes on; _start then writes its own record.
_dispatch(j) ==
  /\ bkp[j].core = "waiting"
  /\ \/ Smooth /\ bkp[j].helper = "ok" /\ bkp' = [bkp EXCEPT ![j].core = "told"]
     \/ /\ \/ Smooth /\ bkp[j].helper = "refused"
           \/ BackupFault /\ bkp[j].helper \in {"claim", "spawn", "ok"}
        /\ bkp' = [bkp EXCEPT ![j].core = "raised", ![j].status = "dispatch_failed"]
  /\ UNCHANGED <<mutex, host>>

\* run_job: only a queued or dispatched file is run.
RunBackupJob(j) ==
  /\ At(j, "begin")
  /\ IF bkp[j].status \in {"dispatched", "queued"}
     THEN bkp' = [bkp EXCEPT ![j].status = "running",
                             ![j].run = IF bkp[j].action \in Mutating
                                        THEN "lock" ELSE "work"]
     ELSE Goto(j, "gone")
  /\ Smooth /\ UNCHANGED <<mutex, host>>

AcquireIf(free, j) == /\ At(j, "lock")
                      /\ IF free
                         THEN /\ mutex' = j
                              /\ Goto(j, IF bkp[j].action \in Restores
                                         THEN "fetch" ELSE "work")
                         ELSE Goto(j, "failing") /\ UNCHANGED mutex
                      /\ Smooth /\ UNCHANGED host
acquire_lock_shared(j) == AcquireIf(TRUE, j)   \* Mutant: the lock is not exclusive.
acquire_lock(j) == AcquireIf(mutex = NoHolder, j)

\* The operations that leave the host as it is: create, list, validate,
\* retention and the credential operations.
WorkAside(j) == /\ At(j, "work")
                /\ \/ Smooth /\ Goto(j, "done")
                   \/ BackupFault /\ Goto(j, "failing")
                /\ UNCHANGED <<mutex, host>>

\* The operation's "finally" closes the lock, then run_job writes the report.
ClosesAfter(ends, j) == /\ bkp[j].run \in ends
                        /\ mutex' = IF mutex = j THEN NoHolder ELSE mutex
                        /\ Goto(j, IF At(j, "done") THEN "report_ok" ELSE "report_failed")
                        /\ Smooth /\ UNCHANGED host
lock_close_success(j) == ClosesAfter({"done"}, j)   \* Mutant: run_job does not catch.
lock_close(j) == ClosesAfter({"done", "failing"}, j)

WriteReport(j) ==
  /\ bkp[j].run \in {"report_ok", "report_failed"}
  /\ bkp' = [bkp EXCEPT ![j].run = "gone",
                        ![j].status = IF At(j, "report_ok") THEN "succeeded" ELSE "failed"]
  /\ Smooth /\ UNCHANGED <<mutex, host>>

----------------------------------------------------------------------------
(* operation_restore_backup before its first destructive step.             *)

\* Download, size and hash checks, and the bundle's validation for the mode.
validate_recovery_bundle(j) == /\ At(j, "fetch")
                               /\ \/ Smooth /\ Goto(j, "preflight")
                                  \/ BackupFault /\ Goto(j, "failing")
                               /\ UNCHANGED <<mutex, host>>

\* The target must be ready (or its failed check overridden); the prepared
\* job is written, whatever the file said meanwhile.
validate_target_preflight(j) ==
  /\ At(j, "preflight")
  /\ \/ Smooth /\ bkp' = [bkp EXCEPT ![j].run = "snapshot", ![j].status = "running"]
     \/ BackupFault /\ Goto(j, "failing")
  /\ UNCHANGED <<mutex, host>>

\* The databases and host paths the mode may overwrite, and which services run.
create_pre_restore_snapshot(j) ==
  /\ At(j, "snapshot")
  /\ \/ /\ Smooth
        /\ bkp' = [bkp EXCEPT
             ![j].run  = IF Tactical(j) THEN "stop" ELSE "tec_tac",
             ![j].snap = [p \in Parts |-> IF p \in Replaced(bkp[j].mode) \ {"tree"}
                                          THEN host.has[p] ELSE "absent"],
             ![j].was  = [req |-> host.req, opt |-> host.opt],
             ![j].orig = host.has,
             ![j].status = "running"]
     \/ BackupFault /\ Goto(j, "failing")
  /\ UNCHANGED <<mutex, host>>

----------------------------------------------------------------------------
(* The destructive part.  An exception at any of these goes to rollback.   *)

Rolls(j) == Goto(j, "rb_stop")
With(parts, c) == [p \in Parts |-> IF p \in parts THEN c ELSE host.has[p]]

service_stop_for_restore(j) == /\ At(j, "stop")
                               /\ host' = [host EXCEPT !.req = FALSE, !.opt = FALSE]
                               /\ Goto(j, "move")
                               /\ Smooth /\ UNCHANGED mutex

\* os.replace(tactical_root, moved_root): done, or refused with nothing moved.
MoveTreeTo(aside, j) ==
  /\ At(j, "move")
  /\ \/ /\ Smooth
        /\ IF host.has["tree"] = "absent"
           THEN Goto(j, "script") /\ UNCHANGED host
           ELSE /\ host' = [host EXCEPT !.has["tree"] = "absent"]
                /\ bkp' = [bkp EXCEPT ![j].run = "script", ![j].status = "running",
                                      ![j].aside = aside]
     \/ BackupFault /\ Rolls(j) /\ UNCHANGED host
  /\ UNCHANGED mutex
RemoveTree(j) == MoveTreeTo("absent", j)   \* Mutant: the old tree is removed first.
MoveTree(j) == MoveTreeTo(host.has["tree"], j)

\* Tactical's restore.sh: it installs the tree, its host paths and databases
\* and starts its services, or stops half way.
RunRestoreScript(j) ==
  /\ At(j, "script")
  /\ \/ /\ Smooth
        /\ \E o \in BOOLEAN :
             host' = [has |-> With({"tree", "thost", "db"}, "new"), req |-> TRUE, opt |-> o]
        /\ Goto(j, IF bkp[j].mode = "full" THEN "tec_tac" ELSE "start")
     \/ /\ BackupFault
        /\ \E ps \in SUBSET {"tree", "thost", "db"} :
             host' = [host EXCEPT !.has = With(ps, "broken")]
        /\ Rolls(j)
  /\ UNCHANGED mutex

\* Clear the Tec-Tac roots, extract, merge trust, install, verify the runtime.
run_post_restore_tec_tac(j) ==
  /\ At(j, "tec_tac")
  /\ \/ /\ Smooth
        /\ host' = [host EXCEPT !.has["tthost"] = "new"]
        /\ IF host.req THEN Goto(j, "start") ELSE Rolls(j)
     \/ /\ BackupFault
        /\ \E c \in {host.has["tthost"], "broken"} :
             host' = [host EXCEPT !.has["tthost"] = c]
        /\ Rolls(j)
  /\ UNCHANGED mutex

\* Back to the captured runtime state; a required service that was down
\* before is stopped again.
RunsRequired(j) == host' = [host EXCEPT !.req = bkp[j].was.req]   \* Mutant: only the required ones.
RunsAgain(j) == host' = [host EXCEPT !.req = bkp[j].was.req, !.opt = bkp[j].was.opt]

service_start_after_restore(j) ==
  /\ At(j, "start")
  /\ \/ Smooth /\ RunsAgain(j) /\ Goto(j, "verify")
     \/ BackupFault /\ Rolls(j) /\ UNCHANGED host
  /\ UNCHANGED mutex

VerifyStarted(j) ==   \* Mutant: that the start command worked is enough.
  /\ At(j, "verify")
  /\ Smooth /\ Goto(j, "clean")
  /\ UNCHANGED <<mutex, host>>

verify_tactical_runtime(j) ==
  /\ At(j, "verify")
  /\ \/ Smooth /\ IF host.req THEN Goto(j, "clean") ELSE Rolls(j)
     \/ BackupFault /\ Rolls(j)
  /\ UNCHANGED <<mutex, host>>

\* The restored runtime passed: the old tree and the snapshot are removed.
DropOriginals(j) == /\ At(j, "clean")
                    /\ bkp' = [bkp EXCEPT ![j].run = "done", ![j].aside = "absent",
                                          ![j].snap = Nothing]
                    /\ Smooth /\ UNCHANGED <<mutex, host>>

----------------------------------------------------------------------------
(* rollback_failed_restore.  A failure of a step after the tree's ends it. *)

RollbackFails(j) == BackupFault /\ bkp' = [bkp EXCEPT ![j].run = "rb_error",
                                                      ![j].rbFault = TRUE]

RollbackStops(j) == /\ At(j, "rb_stop")
                    /\ host' = [host EXCEPT !.req = FALSE, !.opt = FALSE]
                    /\ Goto(j, IF Tactical(j) THEN "rb_away" ELSE "rb_paths")
                    /\ Smooth /\ UNCHANGED mutex

\* The tree found in place is moved to the quarantine path beside it ...
RollbackTreeAway(j) ==
  /\ At(j, "rb_away")
  /\ \/ /\ Smooth
        /\ bkp' = [bkp EXCEPT ![j].run = "rb_back",
                     ![j].failed = IF host.has["tree"] = "absent" THEN @
                                   ELSE host.has["tree"]]
        /\ host' = [host EXCEPT !.has["tree"] = "absent"]
     \/ /\ BackupFault /\ UNCHANGED host
        /\ bkp' = [bkp EXCEPT ![j].run = "rb_paths", ![j].treeErr = TRUE,
                              ![j].rbFault = TRUE]
  /\ UNCHANGED mutex

\* ... and the one set aside put back; without one the tree is unavailable.
RollbackTreeBack(j) ==
  /\ At(j, "rb_back")
  /\ \/ /\ Smooth
        /\ host' = [host EXCEPT !.has["tree"] = bkp[j].aside]
        /\ bkp' = [bkp EXCEPT ![j].run = "rb_paths", ![j].aside = "absent",
                              ![j].treeErr = (bkp[j].aside = "absent")]
     \/ /\ BackupFault /\ UNCHANGED host
        /\ bkp' = [bkp EXCEPT ![j].run = "rb_paths", ![j].treeErr = TRUE,
                              ![j].rbFault = TRUE]
  /\ UNCHANGED mutex

_restore_host_paths(j) ==
  LET kept == Replaced(bkp[j].mode) \cap {"thost", "tthost"} IN
  /\ At(j, "rb_paths")
  /\ \/ /\ Smooth
        /\ host' = [host EXCEPT !.has = [p \in Parts |-> IF p \in kept THEN bkp[j].snap[p]
                                                          ELSE host.has[p]]]
        /\ Goto(j, "rb_db")
     \/ /\ RollbackFails(j)
        /\ \E ps \in SUBSET kept : host' = [host EXCEPT !.has = With(ps, "broken")]
  /\ UNCHANGED mutex

\* dropdb, createdb, pg_restore; then a tree that could not be put back raises.
RollbackDatabases(j) ==
  /\ At(j, "rb_db")
  /\ \/ /\ Smooth
        /\ host' = IF Tactical(j) THEN [host EXCEPT !.has["db"] = bkp[j].snap["db"]]
                   ELSE host
        /\ Goto(j, IF bkp[j].treeErr THEN "rb_error" ELSE "rb_start")
     \/ /\ Tactical(j) /\ RollbackFails(j)
        /\ \E c \in {"broken", "absent"} : host' = [host EXCEPT !.has["db"] = c]
  /\ UNCHANGED mutex

RollbackStarts(j) == /\ At(j, "rb_start")
                     /\ \/ Smooth /\ RunsAgain(j) /\ Goto(j, "rb_verify")
                        \/ RollbackFails(j) /\ UNCHANGED host
                     /\ UNCHANGED mutex

RollbackVerifies(j) ==
  /\ At(j, "rb_verify")
  /\ \/ /\ Smooth
        /\ IF host.req
           THEN bkp' = [bkp EXCEPT ![j].run = "failing", ![j].rolled = "done",
                                   ![j].failed = "absent"]
           ELSE Goto(j, "rb_error")
     \/ RollbackFails(j)
  /\ UNCHANGED <<mutex, host>>

\* The rollback reports its error and tries to start the services once more.
RollbackErrorOnly(j) ==   \* Mutant: an error is only reported.
  /\ At(j, "rb_error")
  /\ bkp' = [bkp EXCEPT ![j].run = "failing", ![j].rolled = "error"]
  /\ Smooth /\ UNCHANGED <<mutex, host>>

RollbackError(j) ==
  /\ At(j, "rb_error")
  /\ bkp' = [bkp EXCEPT ![j].run = "failing", ![j].rolled = "error"]
  /\ \/ Smooth /\ RunsAgain(j)
     \/ BackupFault /\ UNCHANGED host
  /\ UNCHANGED mutex

----------------------------------------------------------------------------
\* Power loss: every process is gone, the kernel drops the lock, and the
\* services come up with the host.
PowerLoss ==
  /\ bkpLeft.crash > 0 /\ bkpLeft' = [bkpLeft EXCEPT !.crash = @ - 1]
  /\ bkp' = [j \in BackupJobs |->
       [bkp[j] EXCEPT !.core = IF @ = "waiting" THEN "lost" ELSE @,
                      !.helper = IF @ \in {"claim", "spawn"} THEN "lost" ELSE @,
                      !.run = IF @ = "none" THEN @ ELSE "gone"]]
  /\ mutex' = NoHolder
  /\ host' = [host EXCEPT !.req = TRUE]

DispatchPart(j) == claim_backup_job(j) \/ DispatchWorker(j) \/ _dispatch(j)

RunPart(j) == \/ RunBackupJob(j) \/ acquire_lock(j) \/ WorkAside(j)
              \/ lock_close(j) \/ WriteReport(j)

RestorePart(j) ==
  \/ validate_recovery_bundle(j) \/ validate_target_preflight(j)
  \/ create_pre_restore_snapshot(j) \/ service_stop_for_restore(j) \/ MoveTree(j)
  \/ RunRestoreScript(j) \/ run_post_restore_tec_tac(j)
  \/ service_start_after_restore(j) \/ verify_tactical_runtime(j) \/ DropOriginals(j)

RollbackPart(j) ==
  \/ RollbackStops(j) \/ RollbackTreeAway(j) \/ RollbackTreeBack(j)
  \/ _restore_host_paths(j) \/ RollbackDatabases(j) \/ RollbackStarts(j)
  \/ RollbackVerifies(j) \/ RollbackError(j)

BackupStep(j) == DispatchPart(j) \/ RunPart(j) \/ RestorePart(j) \/ RollbackPart(j)

NextRestore == PowerLoss \/ \E j \in BackupJobs : _start(j) \/ BackupStep(j)

SpecRestore == InitRestore /\ [][NextRestore]_restoreVars

\* The helper, the worker and the waiting request are running processes: each
\* takes its next step until the host stops.
FairSpecRestore == SpecRestore /\ \A j \in BackupJobs : WF_restoreVars(BackupStep(j))

----------------------------------------------------------------------------
RunPlaces == {"none", "begin", "lock", "work", "done", "failing", "report_ok",
              "report_failed", "gone", "fetch", "preflight", "snapshot", "stop",
              "move", "script", "tec_tac", "start", "verify", "clean", "rb_stop",
              "rb_away", "rb_back", "rb_paths", "rb_db", "rb_start", "rb_verify",
              "rb_error"}

\* Types of the restore state.
RestoreTypeOK ==
  /\ mutex \in BackupJobs \cup {NoHolder}
  /\ host \in [has : [Parts -> Contents], req : BOOLEAN, opt : BOOLEAN]
  /\ bkpLeft \in [fault : Nat, crash : Nat]
  /\ \A j \in BackupJobs :
       /\ bkp[j].status \in BackupTerminal \cup {"none", "queued", "dispatched", "running"}
       /\ bkp[j].run \in RunPlaces
       /\ bkp[j].snap \in [Parts -> Contents] /\ bkp[j].orig \in [Parts -> Contents]
       /\ bkp[j].aside \in Contents /\ bkp[j].failed \in Contents
       /\ bkp[j].rolled \in {"no", "done", "error"}

HoldsHost(j) == bkp[j].run \notin {"none", "begin", "lock", "report_ok", "report_failed",
                                   "gone"}
                /\ bkp[j].action \in Restores /\ bkp[j].orig # Nothing

\* operation_restore_backup under acquire_lock: two restores never hold the
\* host between their snapshot and their report at the same time, and the one
\* that does holds the lock.
OneRestore == \A j \in BackupJobs : HoldsHost(j) => mutex = j

\* create_pre_restore_snapshot, MoveTree and rollback_failed_restore: until a
\* restored runtime has passed its verification, every part the restore may
\* replace still exists as it was: in place, set aside, quarantined or in the
\* snapshot - after a failed rollback and after a power loss too.  (Of the
\* restore that holds the lock, or of the only one there has been.)
OriginalSurvives ==
  \A j \in BackupJobs :
    LET b == bkp[j]
        last == mutex = j \/ \A k \in BackupJobs \ {j} : bkp[k].orig = Nothing IN
    b.snap # Nothing /\ last
    => /\ Tactical(j) => b.orig["tree"] \in {host.has["tree"], b.aside, b.failed}
       /\ \A p \in Replaced(b.mode) \ {"tree"} : b.orig[p] \in {host.has[p], b.snap[p]}

\* rollback_failed_restore sets rollback_performed only when the host is what
\* it was: every replaced part in place, and the services as captured.
RolledBackIsOriginal ==
  \A j \in BackupJobs :
    mutex = j /\ bkp[j].rolled = "done"
    => /\ \A p \in Replaced(bkp[j].mode) : host.has[p] = bkp[j].orig[p]
       /\ host.req = bkp[j].was.req /\ host.opt = bkp[j].was.opt

\* operation_restore_backup returns ok only when each part of the mode is the
\* backup's, nothing else changed, and the required services run.
RestoredIsComplete ==
  \A j \in BackupJobs :
    mutex = j /\ bkp[j].run = "done" /\ bkp[j].action \in Restores
    => /\ \A p \in Parts : host.has[p] = IF p \in Replaced(bkp[j].mode) THEN "new"
                                         ELSE bkp[j].orig[p]
       /\ host.req /\ host.opt = bkp[j].was.opt

\* "A restore or post-restore verification failure restores host paths, the
\* original /rmm tree and databases before services are restarted": a failed
\* restore whose rollback met no failure of its own ends with the tree in place.
FailedRestoreKeepsTree ==
  \A j \in BackupJobs :
    mutex = j /\ bkp[j].run = "failing" /\ ~bkp[j].rbFault /\ bkp[j].orig # Nothing
    => host.has["tree"] = bkp[j].orig["tree"]

\* What a restore reports is what it left behind: a rollback that worked is the
\* old host, a restore that worked is the backup's (rollback_failed_restore,
\* operation_restore_backup).  Until then nothing is lost, and only one restore
\* is at it.
RestoreIsTrue == RolledBackIsOriginal /\ RestoredIsComplete /\ OneRestore /\ OriginalSurvives

\* service_stop_for_restore and both ends of the restore: a server whose
\* required services ran has them running again after any restore that meets
\* at most one failure, whatever became of the restore.
ServicesComeBack ==
  (host.req /\ bkpLeft.crash = 0 /\ bkpLeft.fault <= 1) => []<>host.req

\* run_job catches everything: without a power loss a dispatched job ends.
BackupJobEnds ==
  \A j \in BackupJobs :
    (bkp[j].status \in {"queued", "dispatched", "running"} /\ bkpLeft.crash = 0)
    ~> (bkp[j].status \in BackupTerminal)

\* A backup or restore job comes to its end and leaves the services running.
RestoreEnds == ServicesComeBack /\ BackupJobEnds
=============================================================================
