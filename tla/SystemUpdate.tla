---------------------------- MODULE SystemUpdate ----------------------------
(***************************************************************************)
(* System updates: staging and queueing in the web process                 *)
(* (system_update.py) and the root helper that installs, verifies and      *)
(* rolls back one component (scripts/system-update-helper.py).             *)
(*                                                                         *)
(* A version is a number; 0 is a version nobody can read.  The commit of a *)
(* release is its version, so the checkout and the provenance are versions *)
(* too.  An offline package has no commit and leaves the checkout alone.   *)
(***************************************************************************)
EXTENDS Naturals

CONSTANTS Updates,        \* one per staged upload and the job made from it
          NewVersions,    \* the versions on offer
          RootAllowsDowngrade,  \* TEC_TAC_ALLOW_SYSTEM_DOWNGRADES
          UpdateBudgets   \* [fault, crash, late, admin]: what may happen

VARIABLES upd,      \* the staged upload, its job record and its worker
          site,     \* runtime, checkout, provenance, and the update lock
          updLeft

updateVars == <<upd, site, updLeft>>

Unread == 0
NoUpdate == [at |-> "new", rec |-> "none", staged |-> FALSE, held |-> FALSE,
             online |-> FALSE, ver |-> Unread, down |-> FALSE, op |-> "update",
             old |-> Unread, head |-> Unread, backup |-> Unread, began |-> FALSE,
             roll |-> "none", why |-> "none", caller |-> "idle", was |-> <<>>]

Free == "free"
InitUpdate ==
  /\ upd = [j \in Updates |-> NoUpdate]
  /\ site = [runtime |-> [ver |-> 1, whole |-> TRUE], checkout |-> 1, prov |-> 1, lock |-> Free]
  /\ updLeft \in UpdateBudgets

UpdateSpend(what) == /\ updLeft[what] > 0
                     /\ updLeft' = [updLeft EXCEPT ![what] = @ - 1]
UpdateFault == UpdateSpend("fault")
NoUpdateFault == UNCHANGED updLeft

AtUpdate(j, place) == upd[j].at = place
\* What the record "with" says of j, where it says anything.
Merge(r, with) == [f \in DOMAIN r |-> IF f \in DOMAIN with THEN with[f] ELSE r[f]]
Change(j, with) == upd' = [upd EXCEPT ![j] = Merge(@, with)]
KeepSite == UNCHANGED site

----------------------------------------------------------------------------
(* The web process.                                                        *)

\* The preview compares with the VERSION of the source checkout.
_operation(v) == IF v > site.checkout THEN "update"
                 ELSE IF v < site.checkout THEN "downgrade" ELSE "reinstall"

\* stage_uploaded_package or stage_online_package: the inspected upload.
_stage_bytes(j) ==
  /\ AtUpdate(j, "new")
  /\ \E v \in NewVersions, online \in BOOLEAN :
       Change(j, [at |-> "staged", staged |-> TRUE, ver |-> v, online |-> online,
                  op |-> _operation(v)])
  /\ KeepSite /\ NoUpdateFault

discard_stage(j) ==
  /\ AtUpdate(j, "staged")
  /\ Change(j, [at |-> "over", staged |-> FALSE])
  /\ KeepSite /\ NoUpdateFault

queue_install(j) ==
  /\ AtUpdate(j, "staged")
  /\ \E down \in BOOLEAN :
       /\ upd[j].op = "downgrade" => down
       /\ Change(j, [at |-> "claim", rec |-> "queued", down |-> down, caller |-> "waiting"])
  /\ KeepSite /\ NoUpdateFault

\* _dispatch gives up after 15 s, or the helper failed: the request's record
\* is unlinked.  A helper that was only slow goes on.
CallerGivesUp(j) ==
  /\ upd[j].caller = "waiting"
  /\ UpdateSpend("late")
  /\ Change(j, [rec |-> "none", caller |-> "failed"])
  /\ KeepSite

CallerReturns(j) ==
  /\ upd[j].caller = "waiting" /\ upd[j].at \notin {"claim", "spawn"}
  /\ Change(j, [caller |-> "told"])
  /\ KeepSite /\ NoUpdateFault

----------------------------------------------------------------------------
(* The root helper: claim and dispatch.                                    *)

HelperFails(j, with) ==
  Change(j, Merge([at |-> "over", staged |-> upd[j].staged, held |-> upd[j].held,
                   rec |-> "none", caller |-> "failed"], with))

\* The package moves from staging to the root-private folder; incomplete
\* sidecars are found out after the package was taken.
claim_update_job(j) ==
  /\ AtUpdate(j, "claim") /\ KeepSite
  /\ \/ /\ upd[j].rec = "queued" /\ NoUpdateFault
        /\ Change(j, [at |-> "spawn", staged |-> FALSE, held |-> TRUE, rec |-> "dispatched"])
     \/ /\ upd[j].rec # "queued" /\ NoUpdateFault
        /\ HelperFails(j, [at |-> "over"])
     \/ /\ UpdateFault
        /\ \E taken \in BOOLEAN : HelperFails(j, [staged |-> ~taken])

\* A unit that cannot be created: the helper records the failure, and the
\* caller then unlinks that record.
dispatch(j) ==
  /\ AtUpdate(j, "spawn") /\ KeepSite
  /\ \/ NoUpdateFault /\ Change(j, [at |-> "load"])
     \/ UpdateFault /\ HelperFails(j, [at |-> "over"])

----------------------------------------------------------------------------
(* run_job                                                                 *)

\* mark_failed: only a record that is there and not final is changed.
mark_error(r) == IF r \in {"none", "succeeded", "failed"} THEN r ELSE "error"   \* Mutant: a word of its own.
mark_failed(r) == IF r \in {"none", "succeeded", "failed"} THEN r ELSE "failed"

\* load_job, load_running_request, the update lock and the lifecycle lock,
\* none of them waited for; what was claimed stays behind when one refuses.
LoadsIf(free, j) ==
  LET r == upd[j].rec IN
  /\ AtUpdate(j, "load")
  /\ \/ /\ r \notin {"dispatched", "running"} /\ NoUpdateFault /\ KeepSite
        /\ Change(j, [at |-> "over", rec |-> mark_failed(r)])
     \/ /\ r \in {"dispatched", "running"} /\ ~free /\ NoUpdateFault /\ KeepSite
        /\ Change(j, [at |-> "over", rec |-> mark_failed(r), why |-> "busy"])
     \/ /\ r \in {"dispatched", "running"} /\ free /\ NoUpdateFault
        /\ Change(j, [at |-> "extract", rec |-> "running", old |-> site.runtime.ver,
                      was |-> <<site.runtime, site.checkout, site.prov>>])
        /\ site' = [site EXCEPT !.lock = j]
     \/ /\ r \in {"dispatched", "running"} /\ free /\ UpdateFault /\ KeepSite
        /\ Change(j, [at |-> "over", rec |-> mark_failed(r), why |-> "busy"])
LoadsAnyway(j) == LoadsIf(TRUE, j)   \* Mutant: the update lock is not asked for.
UpdateLoads(j) == LoadsIf(site.lock = Free, j)

\* Where an exception leads: before the installer started (or when it refused)
\* only the checkout goes back, if its state was read; after, the rollback.
Raise(j, why) ==
  LET u == upd[j] IN
  Change(j, [why |-> why, rec |-> IF u.began \/ u.head # Unread THEN "running" ELSE u.rec,
             at |-> IF u.began THEN "rbStage" ELSE IF u.head # Unread THEN "source" ELSE "finish",
             roll |-> IF u.began \/ u.head # Unread THEN "none" ELSE "not-required"])

Breaks(j) == UpdateFault /\ KeepSite /\ Raise(j, "fault")

\* extract_archive and _root_verify_tree on the private copy.
RunExtract(j) ==
  /\ AtUpdate(j, "extract")
  /\ \/ NoUpdateFault /\ KeepSite /\ Change(j, [at |-> "gate", rec |-> "running"])
     \/ Breaks(j)

\* The downgrade policy against the version root recorded.
DowngradeAllowed(j) == upd[j].down /\ RootAllowsDowngrade
GateIf(lower, j) ==
  /\ AtUpdate(j, "gate") /\ NoUpdateFault /\ KeepSite
  /\ IF lower /\ ~DowngradeAllowed(j)
     THEN Raise(j, "policy") ELSE Change(j, [at |-> "prepare", rec |-> "running"])
GateByPreview(j) == GateIf(upd[j].op = "downgrade", j)   \* Mutant: what the preview said decides.
RunGate(j) == GateIf(upd[j].old = Unread \/ upd[j].ver < upd[j].old, j)

prepare_source_checkout(j) ==
  /\ AtUpdate(j, "prepare")
  /\ \/ NoUpdateFault /\ KeepSite /\ Change(j, [at |-> "agree", head |-> site.checkout])
     \/ Breaks(j)

\* The checkout at HEAD is what the backup will hold, so it must be the
\* installed release.
AgreesAlways(j) == TRUE   \* Mutant: the checkout is not compared.
Agrees(j) == upd[j].old = Unread \/ site.checkout = upd[j].old
RunAgree(j) ==
  /\ AtUpdate(j, "agree") /\ NoUpdateFault /\ KeepSite
  /\ IF Agrees(j) THEN Change(j, [at |-> "backup", rec |-> "running"]) ELSE Raise(j, "checkout")

backup_root(j) ==
  /\ AtUpdate(j, "backup")
  /\ \/ NoUpdateFault /\ KeepSite /\ Change(j, [at |-> "move", backup |-> site.checkout, rec |-> "running"])
     \/ Breaks(j)

\* A failing move may have set HEAD already (the clean check comes after).
move_source_to_commit(j) ==
  /\ AtUpdate(j, "move")
  /\ \/ ~upd[j].online /\ NoUpdateFault /\ KeepSite /\ Change(j, [at |-> "stage", rec |-> "running"])
     \/ /\ upd[j].online /\ NoUpdateFault
        /\ site' = [site EXCEPT !.checkout = upd[j].ver]
        /\ Change(j, [at |-> "stage", rec |-> "running"])
     \/ /\ upd[j].online /\ UpdateFault /\ Raise(j, "fault")
        /\ \E c \in {site.checkout, upd[j].ver} : site' = [site EXCEPT !.checkout = c]

\* stage_release_tree and verify_staged_tree
RunStage(j) ==
  /\ AtUpdate(j, "stage")
  /\ \/ NoUpdateFault /\ KeepSite /\ Change(j, [at |-> "install", rec |-> "running"])
     \/ Breaks(j)

\* An installer that breaks leaves any VERSION behind, or none to read.
Broken(v, old) == {[ver |-> x, whole |-> FALSE] : x \in {Unread, old, v}}

\* run_install: success, a refusal before any change (status 78), or a break.
run_install(j) ==
  LET u == upd[j] IN
  /\ AtUpdate(j, "install")
  /\ \/ /\ NoUpdateFault
        /\ site' = [site EXCEPT !.runtime = [ver |-> u.ver, whole |-> TRUE]]
        /\ Change(j, [at |-> "verify", began |-> TRUE, rec |-> "running"])
     \/ /\ UpdateFault /\ KeepSite
        /\ Raise(j, "refused")
     \/ /\ UpdateFault
        /\ \E b \in Broken(u.ver, u.old) : site' = [site EXCEPT !.runtime = b]
        /\ Change(j, [at |-> "rbStage", began |-> TRUE, why |-> "fault", rec |-> "running"])

\* verify, plugins, ownership, verify_source_runtime_layout, write_provenance.
VerifyWriting(prov, j) ==
  /\ AtUpdate(j, "verify")
  /\ \/ /\ NoUpdateFault
        /\ site' = [site EXCEPT !.prov = prov]
        /\ Change(j, [at |-> "finish", roll |-> "not-required", rec |-> "running"])
     \/ Breaks(j)
VerifyOnly(j) == VerifyWriting(site.prov, j)   \* Mutant: the provenance is not written.
verify(j) == VerifyWriting(upd[j].ver, j)

----------------------------------------------------------------------------
(* After an exception.                                                     *)

restore_source_checkout(j) ==
  /\ AtUpdate(j, "source")
  /\ \/ /\ NoUpdateFault /\ site' = [site EXCEPT !.checkout = upd[j].head]
        /\ Change(j, [at |-> "finish", roll |-> "not-required"])
     \/ UpdateFault /\ KeepSite /\ Change(j, [at |-> "finish", roll |-> "failed"])

\* A failed rollback still tries to put the checkout back.
RollbackRaises(j, runtime) ==
  /\ Change(j, [at |-> "finish", roll |-> "failed"])
  /\ \E c \in {site.checkout, upd[j].head} :
       site' = [site EXCEPT !.checkout = c, !.runtime = runtime]

\* extract_rollback_backup, stage_release_tree and verify_rollback_tree
verify_rollback_tree(j) ==
  LET ok == upd[j].old # Unread /\ upd[j].backup = upd[j].old IN
  /\ AtUpdate(j, "rbStage")
  /\ \/ ok /\ NoUpdateFault /\ KeepSite /\ Change(j, [at |-> "rbInstall"])
     \/ ~ok /\ NoUpdateFault /\ RollbackRaises(j, site.runtime)
     \/ ok /\ UpdateFault /\ RollbackRaises(j, site.runtime)

\* The old installer: success, a verification step that timed out (a warning),
\* or a failure.
RollbackInstall(j) ==
  LET u == upd[j] IN
  /\ AtUpdate(j, "rbInstall")
  /\ \/ /\ NoUpdateFault /\ Change(j, [at |-> "rbCheck", roll |-> "succeeded"])
        /\ site' = [site EXCEPT !.runtime = [ver |-> u.old, whole |-> TRUE]]
     \/ /\ UpdateFault /\ Change(j, [at |-> "rbCheck", roll |-> "warning"])
        /\ site' = [site EXCEPT !.runtime = [ver |-> u.old, whole |-> TRUE]]
     \/ UpdateFault /\ \E b \in Broken(u.ver, u.old) : RollbackRaises(j, b)

\* Plugins, ownership, the checkout and the previous provenance.
RollbackChecks(checkout, j) ==
  /\ AtUpdate(j, "rbCheck")
  /\ \/ /\ NoUpdateFault /\ Change(j, [at |-> "finish"])
        /\ site' = [site EXCEPT !.checkout = checkout, !.prov = upd[j].was[3]]
     \/ UpdateFault /\ RollbackRaises(j, site.runtime)
RollbackRuntimeOnly(j) == RollbackChecks(site.checkout, j)   \* Mutant: the checkout stays ahead.
RollbackCheck(j) == RollbackChecks(upd[j].head, j)

\* finally: the record, its history copy, the claimed files and both locks.
FinishesAs(failed, j) ==
  /\ AtUpdate(j, "finish") /\ NoUpdateFault
  /\ Change(j, [at |-> "over", held |-> FALSE,
                rec |-> IF upd[j].why = "none" THEN "succeeded" ELSE failed])
  /\ site' = [site EXCEPT !.lock = Free]
FinishesSuccess(j) == FinishesAs(upd[j].rec, j)   \* Mutant: only a success is recorded.
UpdateFinishes(j) == FinishesAs("failed", j)

\* The worker is killed: the kernel drops its locks, nothing else is written.
WorkerKilled(j) ==
  /\ site.lock = j /\ UpdateSpend("crash")
  /\ Change(j, [at |-> "dead"])
  /\ site' = [site EXCEPT !.lock = Free,
                !.runtime = IF upd[j].at \in {"install", "rbInstall"}
                            THEN [@ EXCEPT !.whole = FALSE] ELSE @]

\* An administrator moves the checkout between two updates.
AdminMovesCheckout ==
  /\ site.lock = Free /\ UpdateSpend("admin")
  /\ \E v \in NewVersions \cup {1} : site' = [site EXCEPT !.checkout = v]
  /\ UNCHANGED upd

WebPart(j) == _stage_bytes(j) \/ discard_stage(j) \/ queue_install(j)
CallerPart(j) == CallerGivesUp(j) \/ CallerReturns(j)
ClaimPart(j) == claim_update_job(j) \/ dispatch(j)
InstallPart(j) == \/ UpdateLoads(j) \/ RunExtract(j) \/ RunGate(j) \/ prepare_source_checkout(j)
                  \/ RunAgree(j) \/ backup_root(j) \/ move_source_to_commit(j) \/ RunStage(j)
                  \/ run_install(j) \/ verify(j) \/ UpdateFinishes(j)
UndoPart(j) == \/ restore_source_checkout(j) \/ verify_rollback_tree(j)
               \/ RollbackInstall(j) \/ RollbackCheck(j)
UpdateWorker(j) == ClaimPart(j) \/ InstallPart(j) \/ UndoPart(j)

NextUpdate == \/ \E j \in Updates : \/ WebPart(j) \/ CallerPart(j) \/ UpdateWorker(j)
                                    \/ WorkerKilled(j)
              \/ AdminMovesCheckout

SpecUpdate == InitUpdate /\ [][NextUpdate]_updateVars

\* A worker that can go on does: it waits for no lock (both are taken without
\* blocking) and every command it runs has a timeout.
FairUpdate == \A j \in Updates : WF_updateVars(UpdateWorker(j))
FairSpecUpdate == SpecUpdate /\ FairUpdate
----------------------------------------------------------------------------
Ended == {"over", "dead"}
Mutating_update == {"extract", "gate", "prepare", "agree", "backup", "move", "stage",
                    "install", "verify", "source", "rbStage", "rbInstall", "rbCheck", "finish"}

\* Types of the update state; a record that is final says succeeded or failed.
UpdateTypeOK ==
  /\ \A j \in Updates :
       /\ upd[j].at \in Ended \cup Mutating_update \cup {"new", "staged", "claim", "spawn", "load"}
       /\ upd[j].rec \in {"none", "queued", "dispatched", "running", "succeeded", "failed"}
       /\ {upd[j].ver, upd[j].old, upd[j].head, upd[j].backup} \subseteq NewVersions \cup {Unread, 1}
       /\ upd[j].roll \in {"none", "not-required", "succeeded", "warning", "failed"}
  /\ site.lock \in Updates \cup {Free}

\* Only the worker that holds the update lock is past its load step, so two
\* workers never write runtime, checkout or provenance at the same time
\* (run_job takes LOCK_PATH without waiting and keeps it to the end).
OneUpdate == \A j \in Updates : upd[j].at \in Mutating_update => site.lock = j

\* A job that reports success left the whole release in place: runtime and
\* provenance at its version, and the checkout too unless it was offline.
\* Holds at the moment the report is written, whatever ran before.
SucceededIsInstalled ==
  \A j \in Updates : upd[j].rec # "succeeded" /\ upd'[j].rec = "succeeded" =>
    /\ site'.runtime = [ver |-> upd[j].ver, whole |-> TRUE]
    /\ site'.prov = upd[j].ver
    /\ upd[j].online => site'.checkout = upd[j].ver

\* A failed job that reports nothing to roll back, or a rollback that worked,
\* leaves the checkout and the provenance as it found them, and the runtime
\* untouched or reinstalled whole at the version it found.
RolledBackIsOld ==
  \A j \in Updates :
    upd[j].at = "finish" /\ upd'[j].rec = "failed" /\ upd'[j].roll # "failed" =>
      /\ <<site'.checkout, site'.prov>> = <<upd[j].was[2], upd[j].was[3]>>
      /\ \/ site'.runtime = upd[j].was[1]
         \/ upd[j].began /\ site'.runtime = [ver |-> upd[j].old, whole |-> TRUE]

\* The rollback copy is the installed release: an installer only starts when
\* the backup holds the version that root recorded as installed (or nobody
\* could read that version), although the checkout is moved freely between
\* updates and stays behind after an offline one.
BackupIsInstalled ==
  \A j \in Updates : upd[j].at \in {"install", "verify", "rbStage", "rbInstall"} =>
    upd[j].old \in {Unread, upd[j].backup}

\* The runtime only goes back to an older version with the administrator's
\* and root's consent, or in a rollback: a package staged as an update can be
\* overtaken by another job before it runs.
NoSilentDowngrade ==
  site'.runtime.whole /\ site'.runtime.ver < site.runtime.ver =>
    \E j \in Updates : site.lock = j /\ (upd[j].at = "rbInstall" \/ DowngradeAllowed(j))

\* What an update reports is what is installed; while it works it is alone and
\* has the installed release to go back to, and it never goes back silently.
UpdateIsTrue ==
  [][OneUpdate' /\ BackupIsInstalled' /\ SucceededIsInstalled /\ RolledBackIsOld /\ NoSilentDowngrade]_updateVars

\* Every claimed job gets its final record, unless its worker is killed:
\* each place of run_job leads to the finally block or to mark_failed.
UpdateEnds ==
  \A j \in Updates : (upd[j].at = "load" /\ upd[j].rec = "dispatched") ~>
    upd[j].rec \in {"succeeded", "failed", "none"} \/ upd[j].at = "dead"
=============================================================================
