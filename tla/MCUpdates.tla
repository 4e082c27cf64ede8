------------------------------ MODULE MCUpdates ------------------------------
(* One run over what installs and updates code: Core itself, the online check,
   and modules.  As in MCServer a behaviour follows one component, its focus. *)
EXTENDS SystemUpdate, UpdateCheck, ModuleSwitch, ModuleInstall

VARIABLE focus

vars == <<focus, updateVars, checkVars, switchVars, installVars>>

Focuses == {"update", "check", "switch", "install"}

MCUpdateBudgets == {[fault |-> 2, crash |-> 0, late |-> 0, admin |-> 0], [fault |-> 0, crash |-> 1, late |-> 1, admin |-> 0],
                    [fault |-> 0, crash |-> 0, late |-> 0, admin |-> 1]}
MCCheckBudgets == {[net |-> 1, cache |-> 0, lock |-> 0], [net |-> 0, cache |-> 1, lock |-> 0],
                   [net |-> 0, cache |-> 0, lock |-> 1]}
MCFreshTicks == [s \in Sources |-> 2]
MCSuppressTicks == [s \in Sources |-> 1]
MCAsked == {[w \in Checkers |-> s] : s \in Sources}
MCSwitchBudgets == {[fault |-> 2, late |-> 0, kill |-> 0, hand |-> 0], [fault |-> 1, late |-> 0, kill |-> 0, hand |-> 1],
                    [fault |-> 1, late |-> 1, kill |-> 1, hand |-> 0]}
ToVersion(m, v, f) == [id |-> m, version |-> v, from |-> f]
MCInstallPlans == {<<ToVersion("a", 2, "a"), ToVersion("c", 2, "c")>>, <<ToVersion("b", 3, "a")>>,
                   <<ToVersion("b", 3, "a"), ToVersion("c", 2, "c")>>, <<ToVersion("c", 2, "c"), ToVersion("b", 3, "a")>>}
MCInstalled0 == [a |-> 1, b |-> 0, c |-> 0]
MCInstallBudgets == {[fault |-> 2, kill |-> 0], [fault |-> 1, kill |-> 1]}

\* A component that is not the focus starts in one of its initial states.
Init ==
  /\ focus \in Focuses
  /\ InitUpdate /\ (focus # "update" => updLeft.admin = 1)
  /\ InitCheck /\ (focus # "check" => checkLeft.net = 1)
  /\ focus # "check" \/ checkLeft.net = 0 => \A w \in Checkers : chk[w].src = "branch"
  /\ InitSwitch /\ (focus # "switch" => mods.present = {"core"} /\ swLeft.fault = 2)
  /\ InitInstall /\ (focus # "install" => insLeft.kill = 0)

Updating == focus = "update" /\ NextUpdate /\ UNCHANGED <<focus, checkVars, switchVars, installVars>>
Checking == focus = "check" /\ NextCheck /\ UNCHANGED <<focus, updateVars, switchVars, installVars>>
Switching == focus = "switch" /\ NextSwitch /\ UNCHANGED <<focus, updateVars, checkVars, installVars>>
Installing == focus = "install" /\ NextInstall /\ UNCHANGED <<focus, updateVars, checkVars, switchVars>>

Next == Updating \/ Checking \/ Switching \/ Installing
Spec == Init /\ [][Next]_vars

\* The state of every component keeps its shape.
UpdatesTypesOK == UpdateTypeOK /\ CheckTypeOK /\ SwitchTypeOK /\ InstallTypeOK
=============================================================================
