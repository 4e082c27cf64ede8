---------------------------- MODULE ModuleSwitch -----------------------------
(***************************************************************************)
(* Module replacement: a premium module that replaces a core module, and   *)
(* the jobs that switch the pair.  Core (module_manager_v2.py,             *)
(* module_manager.py, module_replacement.py) plans a job on the live state *)
(* with the pending jobs applied; the root workers                         *)
(* (module-v2-job-helper.py, module-job-helper.py) run it later, one at a  *)
(* time under the lifecycle lock, and check the rules again.               *)
(*                                                                         *)
(* Every replacement here is premium and declares the capabilities of      *)
(* "core", so the checks of category and parity never refuse.              *)
(***************************************************************************)
EXTENDS Naturals, FiniteSets

CONSTANTS Jobs,            \* 1..n, in the order in which they are created
          Replacements,    \* the modules that replace "core"
          SwitchBudgets    \* [fault, late, kill, hand]

ASSUME SwitchConstants ==
  /\ Jobs \subseteq Nat \ {0}
  /\ "core" \notin Replacements
  /\ SwitchBudgets \subseteq [{"fault", "late", "kill", "hand"} -> Nat]

VARIABLES mods,     \* installed modules, enabled flags, holder of the lifecycle lock;
                    \* whether the flags were ever edited by hand
          swj,      \* the jobs
          swLeft

switchVars == <<mods, swj, swLeft>>

Modules == {"core"} \cup Replacements
Unlocked == 0
NoSwitch == [at |-> "none", rec |-> "none", kind |-> "none", mod |-> "core", off |-> {},
             back |-> {}, second |-> FALSE, fresh |-> FALSE, was |-> {}, did |-> {}]

\* A module without a record in module-state.json is enabled.
InitSwitch ==
  /\ mods \in [present : {{"core"} \cup r : r \in SUBSET Replacements}, on : SUBSET Modules,
               lock : {Unlocked}, edited : {FALSE}]
  /\ \A m \in Modules \ mods.present : m \in mods.on
  /\ Cardinality(Replacements \cap mods.present \cap mods.on) <= 1
  /\ "core" \in mods.on <=> Replacements \cap mods.present \cap mods.on = {}
  /\ swj = [j \in Jobs |-> NoSwitch]
  /\ swLeft \in SwitchBudgets

SwitchSpend(what) == swLeft[what] > 0 /\ swLeft' = [swLeft EXCEPT ![what] = @ - 1]
SwitchCalm == UNCHANGED swLeft
AtSwitch(j, place) == swj[j].at = place
MoveTo(j, place) == swj' = [swj EXCEPT ![j].at = place]
Flags(on) == mods' = [mods EXCEPT !.on = on]

----------------------------------------------------------------------------
(* The rules, on a set of enabled modules.  Core and the root worker have a
   copy each (module_replacement.py and module-v2-job-helper.py).          *)

\* The enabled and installed replacements of core.
replacements_of(on) == {r \in Replacements \cap mods.present : r \in on}

ReplacementOfDisabled(on, r) ==   \* Mutant: another enabled replacement is no reason.
  "core" \in mods.present /\ "core" \notin on

\* The first reason of check() that can apply: core is missing or enabled, or
\* another replacement is enabled.
replacement_check(on, r) ==
  /\ "core" \in mods.present /\ "core" \notin on
  /\ replacements_of(on) \subseteq {r}

\* disable_plan: what enabling m switches off.
disable_plan(on, m) == IF m = "core" THEN replacements_of(on) ELSE on \cap {"core"}

\* enable_problems: a replacement is checked as if core were off already.
enable_allowed(on, m) == m = "core" \/ replacement_check(on \ {"core"}, m)

\* hand_back_plan: disabling or removing the only enabled replacement brings core back.
hand_back_plan(on, m) ==
  IF /\ m \in replacements_of(on) /\ replacements_of(on) = {m}
     /\ "core" \in mods.present /\ "core" \notin on
  THEN {"core"} ELSE {}

conflicted_replacements(on) == IF "core" \in mods.present \cap on THEN replacements_of(on) ELSE {}

\* _model_with_pending_jobs: enable, disable and v2 install jobs that have not
\* ended count as done, in the order of creation.
Pending(j) == /\ swj[j].rec \in {"queued", "dispatched", "running"}
              /\ swj[j].kind \in {"enable", "disable", "install"}
Applied(j, on) ==
  LET own == CASE swj[j].kind = "enable" -> on \cup {swj[j].mod}
               [] swj[j].kind = "disable" -> on \ {swj[j].mod}
               [] OTHER -> on
  IN  (own \ swj[j].off) \cup swj[j].back
_model_with_pending_jobs ==
  LET upto[n \in Jobs \cup {0}] ==
        IF n = 0 THEN mods.on ELSE IF Pending(n) THEN Applied(n, upto[n - 1]) ELSE upto[n - 1]
  IN  upto[Cardinality(Jobs)]

----------------------------------------------------------------------------
(* Core plans a job and then writes its record; another request may pass
   between the two.                                                        *)
NextJob(j) == AtSwitch(j, "none") /\ \A i \in Jobs : i < j => swj[i].at # "none"
Plan(j, kind, m, off, back) ==
  /\ NextJob(j)
  /\ swj' = [swj EXCEPT ![j] = [NoSwitch EXCEPT !.at = "plan", !.kind = kind, !.mod = m, !.off = off,
                                !.back = back, !.second = (m = "core" /\ off # {})]]
  /\ UNCHANGED mods /\ SwitchCalm

\* queue_set_enabled(..., True): the operator confirms the exact list, and the
\* switch itself when it turns a replacement off.
queue_enable(j) ==
  LET on == _model_with_pending_jobs IN
  \E m \in mods.present \ on :
    enable_allowed(on, m) /\ Plan(j, "enable", m, disable_plan(on, m), {})

\* queue_set_enabled(..., False): core comes back, or the operator confirms
\* that it cannot.
queue_disable(j) ==
  LET on == _model_with_pending_jobs IN
  \E m \in mods.present \cap on :
    \E back \in {hand_back_plan(on, m), {}} : Plan(j, "disable", m, {}, back)

\* queue_remove, with the same hand-back.
queue_remove(j) ==
  LET on == _model_with_pending_jobs IN
  \E m \in mods.present \cap Replacements :
    \E back \in {hand_back_plan(on, m), {}} : Plan(j, "remove", m, {}, back)

\* queue_v2_install of a new replacement, planned on the live state only: the
\* v2 worker when it disables core, else possibly the v1 worker.
queue_v2_install(j) ==
  \E m \in Replacements \ mods.present :
    /\ enable_allowed(mods.on, m)
    /\ LET off == disable_plan(mods.on, m) IN
       \E kind \in {"install"} \cup (IF off = {} THEN {"legacy"} ELSE {}) : Plan(j, kind, m, off, {})

\* reconcile_conflicts, from the scheduler tick.
reconcile_conflicts(j) ==
  \E m \in conflicted_replacements(mods.on) \cap conflicted_replacements(_model_with_pending_jobs) :
    Plan(j, "disable", m, {}, {})

\* _new_job, then the sudo dispatch, which claims the job and starts its worker.
_queue_v2(j) ==
  /\ AtSwitch(j, "plan")
  /\ swj' = [swj EXCEPT ![j].at = "claim", ![j].rec = "queued"]
  /\ UNCHANGED mods /\ SwitchCalm

claim_module_job(j) ==
  /\ AtSwitch(j, "claim")
  /\ \/ swj' = [swj EXCEPT ![j].at = "start", ![j].rec = "dispatched"] /\ SwitchCalm
     \/ SwitchSpend("fault") /\ swj' = [swj EXCEPT ![j].at = "over", ![j].rec = "dispatch_failed"]
  /\ UNCHANGED mods

\* The eight seconds of the caller pass after the claim: it writes
\* dispatch_failed over the record of a job that goes on.
DispatchTimesOut(j) ==
  /\ AtSwitch(j, "start") /\ swj[j].rec = "dispatched" /\ SwitchSpend("late")
  /\ swj' = [swj EXCEPT ![j].rec = "dispatch_failed"]
  /\ UNCHANGED mods

----------------------------------------------------------------------------
(* The root workers. *)
Ends(j, rec) == swj' = [swj EXCEPT ![j].at = "over", ![j].rec = rec]
Frees(on) == mods' = [mods EXCEPT !.on = on, !.lock = Unlocked]

\* run_job refuses a record that is not dispatched, and does not wait for the lock.
RunModuleJobIf(free, j) ==
  /\ AtSwitch(j, "start") /\ SwitchCalm
  /\ IF swj[j].rec # "dispatched" \/ ~free
     THEN Ends(j, "failed") /\ UNCHANGED mods
     ELSE /\ mods' = [mods EXCEPT !.lock = j]
          /\ swj' = [swj EXCEPT ![j].at = swj[j].kind, ![j].rec = "running", ![j].was = mods.on,
                                ![j].fresh = (swj[j].mod \notin mods.present)]
RunUnlocked(j) == RunModuleJobIf(TRUE, j)   \* Mutant: the lifecycle lock is not asked for.
run_module_job(j) == RunModuleJobIf(mods.lock = Unlocked, j)

\* plan_enable_disables: the rules again, on the state as it is now, and
\* nothing off that was not confirmed.
plan_enable_disables(j) ==
  LET m == swj[j].mod
      off == disable_plan(mods.on, m) IN
  /\ m \in mods.present
  /\ enable_allowed(mods.on \ {m}, m)
  /\ off \subseteq swj[j].off
  /\ (m = "core" /\ off # {}) => swj[j].second

\* apply_enable_job: one write, with the pairs found enabled together settled.
EnableAndDisable(off, j) ==
  LET m == swj[j].mod
      on == (mods.on \cup {m}) \ off
      gone == conflicted_replacements(on) \ {m} IN
  /\ AtSwitch(j, "enable") /\ SwitchCalm
  /\ IF plan_enable_disables(j)
     THEN /\ Flags(on \ gone)
          /\ swj' = [swj EXCEPT ![j].at = "sync", ![j].did = off \cup gone]
     ELSE Ends(j, "failed") /\ Frees(mods.on)
EnableOnly(j) == EnableAndDisable({}, j)   \* Mutant: the confirmed modules stay on.
apply_enable_job(j) == EnableAndDisable(disable_plan(mods.on, swj[j].mod), j)

\* plan_hand_back: core is off, the replacement that leaves is on, no rival is.
plan_hand_back(j) ==
  swj[j].back = {} \/ hand_back_plan(mods.on, swj[j].mod) = swj[j].back

apply_disable_job(j) ==
  /\ AtSwitch(j, "disable") /\ SwitchCalm
  /\ IF plan_hand_back(j)
     THEN /\ Flags((mods.on \ {swj[j].mod}) \cup swj[j].back)
          /\ swj' = [swj EXCEPT ![j].at = "sync", ![j].did = swj[j].back]
     ELSE Ends(j, "failed") /\ Frees(mods.on)

\* sync_and_reload; when it fails, a job that switched another module puts
\* every flag back (restore_enabled_flags, which may fail too).
SyncOr(on, j) ==
  /\ AtSwitch(j, "sync")
  /\ \/ SwitchCalm /\ Ends(j, "succeeded") /\ Frees(mods.on)
     \/ /\ SwitchSpend("fault") /\ Ends(j, "failed")
        /\ \/ Frees(IF swj[j].did = {} THEN mods.on ELSE on)
           \/ swj[j].did # {} /\ swLeft'.fault > 0 /\ Frees(mods.on)
SyncOrLeave(j) == SyncOr(mods.on, j)   \* Mutant: the flags are not put back.
sync_and_reload(j) == SyncOr(swj[j].was, j)

\* apply_install_prepare_disable: core goes off right before the shell.
apply_install_prepare_disable(j) ==
  /\ AtSwitch(j, "install") /\ SwitchCalm
  /\ LET off == IF swj[j].fresh THEN mods.on \cap mods.present \cap {"core"} ELSE {} IN
     IF off \subseteq swj[j].off
     THEN Flags(mods.on \ off) /\ swj' = [swj EXCEPT ![j].at = "shell", ![j].did = off]
     ELSE MoveTo(j, "restore") /\ UNCHANGED mods

\* install-extension.sh refuses a disabled module; it cannot load a replacement
\* next to an enabled core, which bootstrap leaves out; when it fails it puts
\* its own copy back.
install_extension(j) ==
  LET m == swj[j].mod IN
  /\ AtSwitch(j, "shell")
  /\ \/ m \in mods.on /\ "core" \notin mods.on /\ SwitchCalm
        /\ mods' = [mods EXCEPT !.present = @ \cup {m}]
        /\ MoveTo(j, IF swj[j].kind = "install" THEN "verify" ELSE "tail")
     \/ /\ IF m \in mods.on /\ "core" \notin mods.on THEN SwitchSpend("fault") ELSE SwitchCalm
        /\ IF swj[j].kind = "install" THEN MoveTo(j, "restore") /\ UNCHANGED mods
           ELSE Ends(j, "failed") /\ Frees(mods.on)

\* The v1 worker runs the script alone: no replacement rule is checked again,
\* and a failure after it leaves the module installed.
InstallLegacy(j) == AtSwitch(j, "legacy") /\ SwitchCalm /\ MoveTo(j, "shell") /\ UNCHANGED mods
LegacyTail(j) ==
  /\ AtSwitch(j, "tail") /\ Frees(mods.on)
  /\ \/ SwitchCalm /\ Ends(j, "succeeded")
     \/ SwitchSpend("fault") /\ Ends(j, "failed")

\* verify_install_disables: the rules on the installed manifests; then the
\* versions are written and what is still to be disabled is.
verify_install_disables(j) ==
  /\ AtSwitch(j, "verify")
  /\ LET off == IF swj[j].fresh /\ swj[j].mod \in mods.on THEN mods.on \cap {"core"} ELSE {}
         ok == swj[j].fresh => replacement_check(mods.on \ off, swj[j].mod) IN
     \/ ok /\ off \subseteq swj[j].off /\ SwitchCalm /\ Flags(mods.on \ off) /\ MoveTo(j, "refresh")
     \/ ~(ok /\ off \subseteq swj[j].off) /\ SwitchCalm /\ UNCHANGED mods /\ MoveTo(j, "restore")

\* The runtime sync and the action registration, then the end.
InstallRefresh(j) ==
  /\ AtSwitch(j, "refresh")
  /\ \/ SwitchCalm /\ Ends(j, "succeeded") /\ Frees(mods.on)
     \/ SwitchSpend("fault") /\ MoveTo(j, "restore") /\ UNCHANGED mods

\* The except clause: restore_modules puts code and module-state.json back.
restore_modules(j) ==
  /\ AtSwitch(j, "restore") /\ SwitchCalm
  /\ mods' = [mods EXCEPT !.lock = Unlocked, !.on = swj[j].was,
                !.present = IF swj[j].fresh THEN @ \ {swj[j].mod} ELSE @]
  /\ Ends(j, "failed")

\* plan_remove_hand_back, before anything changes, then remove-extension.sh,
\* which may fail after it removed the code.
remove_extension(j) ==
  /\ AtSwitch(j, "remove")
  /\ \/ /\ plan_hand_back(j) /\ swj[j].mod \in mods.present /\ SwitchCalm
        /\ MoveTo(j, "forget") /\ mods' = [mods EXCEPT !.present = @ \ {swj[j].mod}]
     \/ /\ plan_hand_back(j) /\ swj[j].mod \in mods.present /\ SwitchSpend("fault")
        /\ Ends(j, "failed") /\ mods' = [mods EXCEPT !.present = @ \ {swj[j].mod}, !.lock = Unlocked]
     \/ ~(plan_hand_back(j) /\ swj[j].mod \in mods.present) /\ SwitchCalm
        /\ Ends(j, "failed") /\ Frees(mods.on)

\* forget_module_state: the record goes, so the module is enabled by default.
forget_module_state(j) ==
  /\ AtSwitch(j, "forget") /\ SwitchCalm
  /\ Flags(mods.on \cup {swj[j].mod}) /\ MoveTo(j, "unregister")

\* Its server actions go, then set_module_enabled brings core back.
RemoveFinish(j) ==
  /\ AtSwitch(j, "unregister")
  /\ \/ SwitchCalm /\ Frees(mods.on \cup swj[j].back) /\ Ends(j, "succeeded")
     \/ SwitchSpend("fault") /\ Frees(mods.on) /\ Ends(j, "failed")

ModuleWorkerKilled(j) ==
  /\ mods.lock = j /\ SwitchSpend("kill")
  /\ mods' = [mods EXCEPT !.lock = Unlocked] /\ MoveTo(j, "dead")

\* An administrator edits module-state.json by hand.
HandEdit ==
  /\ mods.lock = Unlocked /\ SwitchSpend("hand")
  /\ \E m \in mods.present :
       mods' = [mods EXCEPT !.edited = TRUE, !.on = IF m \in @ THEN @ \ {m} ELSE @ \cup {m}]
  /\ UNCHANGED swj

QueuePart(j) == \/ queue_enable(j) \/ queue_disable(j) \/ queue_remove(j) \/ queue_v2_install(j)
                \/ reconcile_conflicts(j) \/ _queue_v2(j) \/ claim_module_job(j) \/ DispatchTimesOut(j)
SwitchPart(j) == \/ run_module_job(j) \/ apply_enable_job(j) \/ apply_disable_job(j) \/ sync_and_reload(j)
                 \/ remove_extension(j) \/ forget_module_state(j) \/ RemoveFinish(j)
InstallModulePart(j) == \/ apply_install_prepare_disable(j) \/ install_extension(j) \/ verify_install_disables(j)
                        \/ InstallRefresh(j) \/ restore_modules(j) \/ InstallLegacy(j) \/ LegacyTail(j)

NextSwitch == \/ \E j \in Jobs : \/ QueuePart(j) \/ SwitchPart(j) \/ InstallModulePart(j)
                                 \/ ModuleWorkerKilled(j)
              \/ HandEdit

SpecSwitch == InitSwitch /\ [][NextSwitch]_switchVars

----------------------------------------------------------------------------
Working == {"enable", "disable", "remove", "install", "legacy", "sync", "shell", "verify",
            "refresh", "restore", "tail", "forget", "unregister"}

\* Types of the switch state.
SwitchTypeOK ==
  /\ mods.edited \in BOOLEAN /\ mods.present \subseteq Modules /\ mods.on \subseteq Modules /\ mods.lock \in Jobs \cup {Unlocked}
  /\ \A j \in Jobs : /\ swj[j].at \in Working \cup {"none", "plan", "claim", "start", "over", "dead"}
                     /\ swj[j].rec \in {"none", "queued", "dispatched", "dispatch_failed", "running",
                                       "succeeded", "failed"}
                     /\ swj[j].off \cup swj[j].back \cup swj[j].was \subseteq Modules

\* One job at a time works on modules and flags (acquire_lifecycle_lock).
OneModuleJob == \A j \in Jobs : swj[j].at \in Working => mods.lock = j

\* A replacement and its core module are never both enabled, whatever jobs
\* were planned on a stale state, timed out, failed half way or were killed,
\* as long as nobody edits module-state.json by hand.
NeverBothEnabled == OneModuleJob /\ (mods.edited \/ conflicted_replacements(mods.on) = {})

\* An enable job, or the job of a first install, reports success only when its module is enabled and
\* is the only enabled one of core and its replacements.
SwitchIsWhole ==
  \A j \in Jobs :
    /\ swj[j].rec = "running" /\ swj'[j].rec = "succeeded"
    /\ swj[j].kind = "enable" \/ (swj[j].kind = "install" /\ swj[j].fresh)
    => mods'.present \cap mods'.on = {swj[j].mod}

\* A job that switched a second module, or installed one, and failed leaves
\* every flag and every installed module as it found them, unless putting the
\* flags back failed as well.
FailedSwitchRestores ==
  \A j \in Jobs :
    /\ swj[j].rec = "running" /\ swj'[j].rec = "failed" /\ swLeft.fault < 2
    /\ swj[j].kind = "install" \/ (swj[j].kind \in {"enable", "disable"} /\ swj[j].did # {})
    => /\ mods'.on = swj[j].was
       /\ swj[j].kind = "install" /\ swj[j].fresh => swj[j].mod \notin mods'.present

\* What a switch job reports is what the flags and modules are.
SwitchIsTrue == [][SwitchIsWhole /\ FailedSwitchRestores]_switchVars
=============================================================================
