---------------------------- MODULE ModuleHotfix ----------------------------
(***************************************************************************)
(* Hotfixes of one installed module: module_hotfix.py stages and queues,   *)
(* module-hotfix-job-helper.py applies and rolls back under the lifecycle  *)
(* lock, and install-extension.sh retires the records when the module is   *)
(* upgraded.  Only the last applied hotfix can be rolled back.             *)
(***************************************************************************)
EXTENDS Naturals, Sequences, FiniteSets, SequencesExt

CONSTANTS HotJobs,
          Released,      \* the contents of each file in each version of the module
          Hotfixes,      \* id -> [base, before, after]; before and after share their files
          HotBudgets     \* [fault, kill, late]

VARIABLES site,      \* ver, file: the module on disk; loaded: what the processes run;
                     \* scar: some job left the disk as no code path repairs it
          applied,   \* the applied records, oldest first: [id, backup]
          staged,    \* hotfixes with a package in the staging folder
          hot,       \* the jobs
          hotLock,   \* holders of the lifecycle lock
          hotLeft

hotVars == <<site, applied, staged, hot, hotLock, hotLeft>>

Patches(h) == DOMAIN Hotfixes[h].before
AppliedIds == {applied[i].id : i \in DOMAIN applied}
AsBefore(h) == \A f \in Patches(h) : site.file[f] = Hotfixes[h].before[f]
AsAfter(h) == \A f \in Patches(h) : site.file[f] = Hotfixes[h].after[f]
BackupOfFix(h) == applied[CHOOSE i \in DOMAIN applied : applied[i].id = h].backup
Latest == IF applied = <<>> THEN "no_hotfix" ELSE Last(applied).id

NoHotJob == [kind |-> "none", fix |-> "no_hotfix", at |-> "none", rec |-> "none",
             todo |-> {}, done |-> {}, backup |-> <<>>, was |-> <<>>]

InitHotfix ==
  /\ site = [ver |-> 1, file |-> Released[1], loaded |-> Released[1], scar |-> FALSE]
  /\ applied = <<>> /\ staged = {} /\ hotLock = {}
  /\ hot = [j \in HotJobs |-> NoHotJob]
  /\ hotLeft \in HotBudgets

HotSpend(what) == hotLeft[what] > 0 /\ hotLeft' = [hotLeft EXCEPT ![what] = @ - 1]
NoHotFault == UNCHANGED hotLeft
HotAt(j, place) == hot[j].at = place
HotGoes(j, place) == hot' = [hot EXCEPT ![j].at = place]
SiteStays == UNCHANGED <<site, applied, staged, hotLock>>
Scarred == [site EXCEPT !.scar = TRUE]

----------------------------------------------------------------------------
\* inspect_hotfix_archive: the version, the hash of every target, no record.
Inspects(h) == site.ver = Hotfixes[h].base /\ AsBefore(h) /\ h \notin AppliedIds

stage_uploaded_hotfix ==
  \E h \in DOMAIN Hotfixes \ staged :
    /\ Inspects(h)
    /\ staged' = staged \cup {h} /\ UNCHANGED <<site, applied, hot, hotLock, hotLeft>>

discard_hotfix_stage ==
  \E h \in staged : staged' = staged \ {h} /\ UNCHANGED <<site, applied, hot, hotLock, hotLeft>>

\* Jobs are numbered in the order they are made.
NewHotJob(j) == HotAt(j, "none") /\ \A k \in HotJobs : HotAt(k, "none") => j <= k
HotOver(j, rec) == hot' = [hot EXCEPT ![j] = [NoHotJob EXCEPT !.at = "over", !.rec = rec]]

QueueHotfix(j, kind, h) ==
  /\ NewHotJob(j)
  /\ hot' = [hot EXCEPT ![j] = [NoHotJob EXCEPT !.kind = kind, !.fix = h, !.at = "queued", !.rec = "queued"]]
  /\ SiteStays /\ NoHotFault

queue_apply_hotfix(j) == \E h \in staged : Inspects(h) /\ QueueHotfix(j, "apply", h)

queue_rollback_hotfix(j) == applied # <<>> /\ QueueHotfix(j, "rollback", Latest)

\* dispatch claims the job and starts the worker.  A failure before the claim
\* is written, or a claim that outlasts the caller's eight seconds, makes the
\* caller write dispatch_failed; a worker that was started runs all the same.
dispatch_hotfix(j) ==
  /\ HotAt(j, "queued") /\ SiteStays
  /\ \/ NoHotFault /\ hot' = [hot EXCEPT ![j].at = "start", ![j].rec = "dispatched"]
     \/ HotSpend("fault") /\ HotOver(j, "dispatch_failed")
     \/ HotSpend("late") /\ hot' = [hot EXCEPT ![j].at = "start", ![j].rec = "dispatch_failed"]

\* run_job: the lock is not waited for, and the refusal is raised before the
\* try block, so the record keeps what it said.
run_hotfix_job(j) ==
  /\ HotAt(j, "start") /\ NoHotFault /\ UNCHANGED <<site, applied, staged>>
  /\ IF hotLock = {}
     THEN /\ hotLock' = hotLock \cup {j}
          /\ hot' = [hot EXCEPT ![j].at = "check", ![j].rec = "running"]
     ELSE HotOver(j, hot[j].rec) /\ UNCHANGED hotLock

----------------------------------------------------------------------------
\* apply_job, up to the backups: the package, its signature and manifest, the
\* version, the record and every hash are looked at again under the lock.
CheckApply(j, hashes) ==
  /\ HotAt(j, "check") /\ hot[j].kind = "apply" /\ SiteStays
  /\ LET h == hot[j].fix
         fit == h \in staged /\ site.ver = Hotfixes[h].base /\ h \notin AppliedIds /\ hashes
     IN \/ /\ fit /\ NoHotFault
           /\ hot' = [hot EXCEPT ![j].at = "write", ![j].todo = Patches(h),
                                 ![j].backup = [f \in Patches(h) |-> site.file[f]]]
        \/ ~fit /\ NoHotFault /\ HotGoes(j, "failed")
        \/ HotSpend("fault") /\ HotGoes(j, "failed")
CheckApplyUnhashed(j) == CheckApply(j, TRUE)   \* Mutant: the files inspected before queueing are trusted.
apply_preflight(j) == CheckApply(j, AsBefore(hot[j].fix))

\* The loop over the targets.  A file replaced by a step that then fails is
\* not on the list of mutated files, and stays.
apply_files(j) ==
  /\ HotAt(j, "write") /\ UNCHANGED <<applied, staged, hotLock>>
  /\ IF hot[j].todo = {}
     THEN HotGoes(j, "validate") /\ UNCHANGED site /\ NoHotFault
     ELSE \E f \in hot[j].todo :
            LET written == [site EXCEPT !.file[f] = Hotfixes[hot[j].fix].after[f]] IN
            \/ /\ NoHotFault /\ site' = written
               /\ hot' = [hot EXCEPT ![j].todo = @ \ {f}, ![j].done = @ \cup {f}]
            \/ HotSpend("fault") /\ HotGoes(j, "restore") /\ UNCHANGED site
            \/ /\ HotSpend("fault") /\ HotGoes(j, "restore")
               /\ site' = [written EXCEPT !.scar = TRUE]

\* Where a failure of the shared steps leads: apply restores, rollback only fails.
Recovers(j) == IF hot[j].kind = "apply" THEN "restore" ELSE "failed"
Gives(j, state) == IF hot[j].kind = "apply" THEN state ELSE [state EXCEPT !.scar = TRUE]

validate_runtime(j) ==
  /\ HotAt(j, "validate") /\ UNCHANGED <<applied, staged, hotLock>>
  /\ \/ NoHotFault /\ HotGoes(j, "sync") /\ UNCHANGED site
     \/ HotSpend("fault") /\ HotGoes(j, Recovers(j)) /\ site' = Gives(j, site)

sync_reload(j) ==
  /\ HotAt(j, "sync") /\ UNCHANGED <<applied, staged, hotLock>>
  /\ LET reloaded == [site EXCEPT !.loaded = site.file] IN
     \/ /\ NoHotFault /\ site' = reloaded
        /\ HotGoes(j, IF hot[j].kind = "apply" THEN "record" ELSE "retire")
     \/ HotSpend("fault") /\ HotGoes(j, Recovers(j)) /\ site' \in {Gives(j, site), Gives(j, reloaded)}

\* The except clause: the mutated files come back from the backup, last first;
\* a file that cannot be restored is logged and skipped, a refresh that fails too.
restore_originals(j) ==
  /\ HotAt(j, "restore") /\ UNCHANGED <<applied, staged, hotLock>>
  /\ IF hot[j].done = {}
     THEN /\ HotGoes(j, "failed")
          /\ \/ NoHotFault /\ site' = [site EXCEPT !.loaded = site.file]
             \/ HotSpend("fault") /\ site' = Scarred
     ELSE \E f \in hot[j].done :
            /\ hot' = [hot EXCEPT ![j].done = @ \ {f}]
            /\ \/ NoHotFault /\ site' = [site EXCEPT !.file[f] = hot[j].backup[f]]
               \/ HotSpend("fault") /\ site' = Scarred

\* The applied record and the removal of the staged package, outside the try:
\* when the record cannot be written, the changed files stay without one.
record_applied(j) ==
  /\ HotAt(j, "record") /\ UNCHANGED hotLock
  /\ \/ /\ NoHotFault /\ UNCHANGED site
        /\ applied' = Append(applied, [id |-> hot[j].fix, backup |-> hot[j].backup])
        /\ staged' = staged \ {hot[j].fix} /\ HotGoes(j, "done")
     \/ /\ HotSpend("fault") /\ HotGoes(j, "failed") /\ site' = Scarred
        /\ UNCHANGED <<applied, staged>>

----------------------------------------------------------------------------
\* rollback_job, up to the first restored file.
rollback_preflight(j) ==
  /\ HotAt(j, "check") /\ hot[j].kind = "rollback" /\ SiteStays
  /\ LET h == hot[j].fix
         fit == /\ Latest = h /\ site.ver = Hotfixes[h].base /\ AsAfter(h)
                /\ BackupOfFix(h) = Hotfixes[h].before
     IN \/ fit /\ NoHotFault /\ hot' = [hot EXCEPT ![j].at = "unwrite", ![j].todo = Patches(h)]
        \/ ~fit /\ NoHotFault /\ HotGoes(j, "failed")
        \/ HotSpend("fault") /\ HotGoes(j, "failed")

\* The loop that puts the backups back.  A failure leaves the files as they
\* are, with the record still there: from then on the hashes refuse a retry.
rollback_files(j) ==
  /\ HotAt(j, "unwrite") /\ UNCHANGED <<applied, staged, hotLock>>
  /\ IF hot[j].todo = {}
     THEN HotGoes(j, "validate") /\ UNCHANGED site /\ NoHotFault
     ELSE \E f \in hot[j].todo :
            LET restored == [site EXCEPT !.file[f] = BackupOfFix(hot[j].fix)[f]] IN
            \/ NoHotFault /\ site' = restored /\ hot' = [hot EXCEPT ![j].todo = @ \ {f}]
            \/ HotSpend("fault") /\ HotGoes(j, "failed") /\ site' \in {Scarred, [restored EXCEPT !.scar = TRUE]}

\* The history entry, then the removal of the record.
retire_record(j) ==
  /\ HotAt(j, "retire") /\ UNCHANGED <<staged, hotLock>>
  /\ \/ /\ NoHotFault /\ UNCHANGED site /\ HotGoes(j, "done")
        /\ applied' = SelectSeq(applied, LAMBDA r : r.id # hot[j].fix)
     \/ HotSpend("fault") /\ HotGoes(j, "failed") /\ site' = Scarred /\ UNCHANGED applied

\* The end of run_job.  A job whose last record cannot be written is reported
\* as failed though it did its work.
report_hotfix(j) ==
  /\ hotLock' = hotLock \ {j} /\ UNCHANGED <<site, applied, staged>>
  /\ \/ HotAt(j, "done") /\ NoHotFault /\ HotOver(j, "succeeded")
     \/ HotAt(j, "done") /\ HotSpend("fault") /\ HotOver(j, "failed")
     \/ HotAt(j, "failed") /\ NoHotFault /\ HotOver(j, "failed")

----------------------------------------------------------------------------
\* An upgrade of the module by a lifecycle job, under the same lock.
StartUpgrade(j) ==
  /\ NewHotJob(j) /\ hotLock = {} /\ site.ver + 1 \in DOMAIN Released
  /\ hotLock' = {j}
  /\ hot' = [hot EXCEPT ![j] = [NoHotJob EXCEPT !.kind = "upgrade", !.at = "copy", !.rec = "running",
                                  !.was = [file |-> site.file, applied |-> applied]]]
  /\ UNCHANGED <<site, applied, staged>> /\ NoHotFault

\* install-extension.sh copies, verifies and reloads; a failure on the way is
\* undone by its trap and by the job's own restore and refresh.
UpgradeCode(j) ==
  /\ HotAt(j, "copy") /\ UNCHANGED <<applied, staged, hotLock>>
  /\ \/ /\ NoHotFault /\ HotGoes(j, "supersede")
        /\ site' = [site EXCEPT !.ver = @ + 1, !.file = Released[site.ver + 1],
                                !.loaded = Released[site.ver + 1]]
     \/ HotSpend("fault") /\ HotGoes(j, "failed") /\ UNCHANGED site

\* --supersede, the last command of the script that can fail.
supersede(j) ==
  /\ HotAt(j, "supersede") /\ UNCHANGED <<site, staged, hotLock>>
  /\ NoHotFault /\ applied' = <<>> /\ HotGoes(j, "upgraded")

\* What the lifecycle job does after the script.  A failure there restores the
\* old code, hotfixed as it was, whose records are gone.
UpgradeRest(j) ==
  /\ HotAt(j, "upgraded") /\ UNCHANGED <<applied, staged, hotLock>>
  /\ \/ NoHotFault /\ HotGoes(j, "done") /\ UNCHANGED site
     \/ /\ HotSpend("fault") /\ HotGoes(j, "failed")
        /\ site' = [site EXCEPT !.ver = @ - 1, !.file = hot[j].was.file, !.loaded = hot[j].was.file,
                                !.scar = @ \/ hot[j].was.applied # <<>>]

\* The worker dies; the system drops its lock, and nobody reads the claim again.
HotWorkerKilled(j) ==
  /\ hot[j].at \notin {"none", "queued", "over", "dead"} /\ HotSpend("kill")
  /\ HotGoes(j, "dead") /\ hotLock' = hotLock \ {j} /\ UNCHANGED <<applied, staged>>
  /\ site' = IF hot[j].at \in {"start", "check", "done", "failed"} THEN site ELSE Scarred

HotfixStep(j) ==
  \/ queue_apply_hotfix(j) \/ queue_rollback_hotfix(j) \/ dispatch_hotfix(j) \/ run_hotfix_job(j)
  \/ apply_preflight(j) \/ apply_files(j) \/ validate_runtime(j) \/ sync_reload(j)
  \/ restore_originals(j) \/ record_applied(j) \/ rollback_preflight(j) \/ rollback_files(j)
  \/ retire_record(j) \/ report_hotfix(j) \/ StartUpgrade(j) \/ UpgradeCode(j) \/ supersede(j)
  \/ UpgradeRest(j) \/ HotWorkerKilled(j)

NextHotfix == stage_uploaded_hotfix \/ discard_hotfix_stage \/ \E j \in HotJobs : HotfixStep(j)

----------------------------------------------------------------------------
\* What the records say a file holds: what the last hotfix of it put there,
\* or what the installed version shipped.
Recorded(f) ==
  LET of == {i \in DOMAIN applied : f \in Patches(applied[i].id)}
  IN IF of = {} THEN Released[site.ver][f]
     ELSE Hotfixes[applied[CHOOSE i \in of : \A k \in of : k <= i].id].after[f]

\* Whenever no job holds the lifecycle lock, the files and the running code are
\* what the applied records and the installed version say, every record belongs
\* to that version, and the last one passes every check of rollback_job, so that
\* it can be taken back.  A job about to report success has done its work.  This
\* holds through failed applies and refused jobs, but not after the failures no
\* code path repairs, which set site.scar.
HotfixesAreTrue ==
  /\ Cardinality(hotLock) <= 1
  /\ hotLock = {} /\ ~site.scar =>
       /\ site.loaded = site.file /\ \A f \in DOMAIN site.file : site.file[f] = Recorded(f)
       /\ \A i \in DOMAIN applied : Hotfixes[applied[i].id].base = site.ver
       /\ applied # <<>> => AsAfter(Latest) /\ Last(applied).backup = Hotfixes[Latest].before
  /\ \A j \in HotJobs : HotAt(j, "done") /\ ~site.scar =>
       /\ site.loaded = site.file
       /\ hot[j].kind = "apply" => Latest = hot[j].fix /\ AsAfter(Latest)
       /\ hot[j].kind = "rollback" => hot[j].fix \notin AppliedIds /\ AsBefore(hot[j].fix)
=============================================================================
