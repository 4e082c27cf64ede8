--------------------------- MODULE ModuleJobs_proofs ---------------------------
(* What the jobs on modules keep: a replacement and its core module exclude *)
(* each other, a switch job reports what the flags and modules are, and a   *)
(* server action that can be used is one its module declares.  For every    *)
(* number of jobs, replacements and packages and every budget of failures.  *)
EXTENDS ModuleSwitch, ServerActions, TLAPS

(* Types of the jobs, of modules and flags, and of the budgets. *)
Places == Working \cup {"none", "plan", "claim", "start", "over", "dead"}
Records == {"none", "queued", "dispatched", "dispatch_failed", "running", "succeeded", "failed"}
JobKinds == {"enable", "disable", "remove", "install", "legacy"}

SwitchRows ==
  [at : Places, rec : Records, kind : JobKinds \cup {"none"}, mod : Modules, off : SUBSET Modules,
   back : SUBSET Modules, second : BOOLEAN, fresh : BOOLEAN, was : SUBSET Modules, did : SUBSET Modules]

ModState ==
  [present : SUBSET Modules, on : SUBSET Modules, lock : Jobs \cup {Unlocked}, edited : BOOLEAN]

SwitchTypes ==
  /\ mods \in ModState
  /\ swj \in [Jobs -> SwitchRows]
  /\ swLeft \in [{"fault", "late", "kill", "hand"} -> Nat]

(* Core and one of its replacements are installed and enabled. *)
Clash(present, on) == "core" \in present \cap on /\ Replacements \cap present \cap on # {}

(* Where a job of each kind can be, and what its record says there. *)
PlaceInv(x) ==
  /\ x.at \in Working => x.kind \in JobKinds /\ x.rec = "running"
  /\ x.at \in {"plan", "claim", "start"} => x.kind \in JobKinds /\ x.did = {}
  /\ x.at \in {"plan", "claim", "start", "none"} => x.rec \in {"none", "queued", "dispatched", "dispatch_failed"}
  /\ x.at \in {"enable", "disable", "remove", "install", "legacy"} => x.kind = x.at /\ x.did = {}
  /\ x.at = "sync" => x.kind \in {"enable", "disable"}
  /\ x.at = "shell" => x.kind \in {"install", "legacy"}
  /\ x.at \in {"verify", "refresh", "restore"} => x.kind = "install"
  /\ x.at = "tail" => x.kind = "legacy"
  /\ x.at \in {"forget", "unregister"} => x.kind = "remove"

(* What the job that holds the lifecycle lock knows of modules and flags. *)
HolderInv(x, present, on, edited) ==
  /\ x.at \in {"enable", "disable", "sync"} /\ ~edited => ~Clash(present, x.was)
  /\ x.at \in {"install", "legacy", "shell", "verify", "refresh", "restore"} =>
       /\ ~edited => ~Clash(IF x.fresh THEN present \ {x.mod} ELSE present, x.was)
       /\ ~x.fresh => x.mod \in present
  /\ x.at \in {"install", "legacy"} => (x.fresh <=> x.mod \notin present)
  /\ x.at \in {"verify", "refresh"} => x.mod \in present \cap on
  /\ x.at = "verify" => "core" \notin on
  /\ x.at = "refresh" /\ x.fresh => present \cap on = {x.mod}
  /\ x.at = "sync" /\ x.kind = "enable" => present \cap on = {x.mod}
  /\ x.at \in {"forget", "unregister"} =>
       /\ x.mod \notin present /\ x.back \subseteq {"core"}
       /\ x.back # {} => Replacements \cap present \cap on = {}

(* The inductive invariant: types, no clash unless the flags were edited by
   hand, one job under the lock, and what each job knows where it is. *)
SwitchInv ==
  /\ SwitchTypes
  /\ ~mods.edited => ~Clash(mods.present, mods.on)
  /\ OneModuleJob
  /\ \A j \in Jobs : /\ PlaceInv(swj[j])
                     /\ swj[j].at \in Working => HolderInv(swj[j], mods.present, mods.on, mods.edited)

(* The row of a job, field by field. *)
LEMMA RowAt ==
  ASSUME NEW x \in SwitchRows, NEW p \in Places
  PROVE  LET y == [x EXCEPT !.at = p]
         IN  /\ y \in SwitchRows /\ y.at = p /\ y.rec = x.rec /\ y.kind = x.kind /\ y.mod = x.mod
             /\ y.back = x.back /\ y.fresh = x.fresh /\ y.was = x.was /\ y.did = x.did
BY DEF SwitchRows

LEMMA RowRec ==
  ASSUME NEW x \in SwitchRows, NEW r \in Records
  PROVE  LET y == [x EXCEPT !.rec = r]
         IN  /\ y \in SwitchRows /\ y.at = x.at /\ y.rec = r /\ y.kind = x.kind /\ y.mod = x.mod
             /\ y.back = x.back /\ y.fresh = x.fresh /\ y.was = x.was /\ y.did = x.did
BY DEF SwitchRows

LEMMA RowDid ==
  ASSUME NEW x \in SwitchRows, NEW d \in SUBSET Modules
  PROVE  LET y == [x EXCEPT !.did = d]
         IN  /\ y \in SwitchRows /\ y.at = x.at /\ y.rec = x.rec /\ y.kind = x.kind /\ y.mod = x.mod
             /\ y.back = x.back /\ y.fresh = x.fresh /\ y.was = x.was /\ y.did = d
BY DEF SwitchRows

LEMMA RowWas ==
  ASSUME NEW x \in SwitchRows, NEW w \in SUBSET Modules
  PROVE  LET y == [x EXCEPT !.was = w]
         IN  /\ y \in SwitchRows /\ y.at = x.at /\ y.rec = x.rec /\ y.kind = x.kind /\ y.mod = x.mod
             /\ y.back = x.back /\ y.fresh = x.fresh /\ y.was = w /\ y.did = x.did
BY DEF SwitchRows

LEMMA RowFresh ==
  ASSUME NEW x \in SwitchRows, NEW f \in BOOLEAN
  PROVE  LET y == [x EXCEPT !.fresh = f]
         IN  /\ y \in SwitchRows /\ y.at = x.at /\ y.rec = x.rec /\ y.kind = x.kind /\ y.mod = x.mod
             /\ y.back = x.back /\ y.fresh = f /\ y.was = x.was /\ y.did = x.did
BY DEF SwitchRows

(* A step of one job. *)
JobStep(j, x) ==
  /\ swj' = [swj EXCEPT ![j] = x] /\ x \in SwitchRows /\ PlaceInv(x)
  /\ mods' \in ModState /\ swLeft' \in [{"fault", "late", "kill", "hand"} -> Nat]
  /\ ~mods'.edited => ~Clash(mods'.present, mods'.on)
  /\ x.at \in Working => mods'.lock = j /\ HolderInv(x, mods'.present, mods'.on, mods'.edited)
  /\ mods' = mods \/ \A i \in Jobs \ {j} : swj[i].at \notin Working

(* What one job does keeps the invariant, if its own row and the flags fit
   and no other job is under the lock when modules or flags change. *)
LEMMA JobStepKeeps == ASSUME SwitchInv, NEW j \in Jobs, NEW x, JobStep(j, x) PROVE SwitchInv'
<1>1. SwitchTypes'
  BY DEF SwitchInv, SwitchTypes, JobStep
<1>2. \A i \in Jobs : swj'[i] = IF i = j THEN x ELSE swj[i]
  BY DEF SwitchInv, SwitchTypes, JobStep
<1>3. ASSUME NEW i \in Jobs
      PROVE  /\ PlaceInv(swj'[i])
             /\ swj'[i].at \in Working =>
                  mods'.lock = i /\ HolderInv(swj'[i], mods'.present, mods'.on, mods'.edited)
  <2>1. CASE i = j
    BY <1>2, <2>1 DEF JobStep
  <2>2. CASE i # j /\ swj[i].at \notin Working
    BY <1>2, <2>2 DEF SwitchInv
  <2>3. CASE i # j /\ mods' = mods
    BY <1>2, <2>3 DEF SwitchInv, OneModuleJob
  <2> QED
    BY <2>1, <2>2, <2>3 DEF JobStep
<1> QED
  BY <1>1, <1>3 DEF SwitchInv, OneModuleJob, JobStep

(* The holder of the lock is alone. *)
LEMMA HolderAlone ==
  ASSUME SwitchInv, NEW j \in Jobs, swj[j].at \in Working \/ mods.lock = Unlocked \/ mods.lock = j
  PROVE  \A i \in Jobs \ {j} : swj[i].at \notin Working
BY SwitchConstants DEF SwitchInv, OneModuleJob, Unlocked

(* Budgets stay natural numbers. *)
LEMMA BudgetTypes ==
  ASSUME SwitchTypes, SwitchCalm \/ \E what \in {"fault", "late", "kill", "hand"} : SwitchSpend(what)
  PROVE  swLeft' \in [{"fault", "late", "kill", "hand"} -> Nat]
BY DEF SwitchTypes, SwitchCalm, SwitchSpend

(* A job outside the lock moves and leaves modules and flags alone. *)
LEMMA Outside ==
  ASSUME SwitchInv, NEW j \in Jobs, NEW x \in SwitchRows, PlaceInv(x), x.at \notin Working,
         swj' = [swj EXCEPT ![j] = x], UNCHANGED mods,
         SwitchCalm \/ \E what \in {"fault", "late", "kill", "hand"} : SwitchSpend(what)
  PROVE  SwitchInv'
<1>1. swLeft' \in [{"fault", "late", "kill", "hand"} -> Nat]
  BY BudgetTypes DEF SwitchInv
<1>2. JobStep(j, x)
  BY <1>1 DEF JobStep, SwitchInv, SwitchTypes
<1> QED
  BY <1>2, JobStepKeeps

(* Core plans a job. *)
LEMMA PlanKeeps ==
  ASSUME SwitchInv, NEW j \in Jobs, NEW k \in JobKinds, NEW m \in Modules,
         NEW off \in SUBSET Modules, NEW back \in SUBSET Modules, Plan(j, k, m, off, back)
  PROVE  SwitchInv'
<1> DEFINE s == m = "core" /\ off # {}
           y == [NoSwitch EXCEPT !.at = "plan", !.kind = k, !.mod = m, !.off = off, !.back = back, !.second = s]
<1>00. "core" \in Modules
  BY DEF Modules
<1>0. s \in BOOLEAN /\ swj' = [swj EXCEPT ![j] = y]
  BY DEF Plan
<1> HIDE DEF s
<1>1. y \in SwitchRows /\ y.at = "plan" /\ y.kind = k /\ y.rec = "none" /\ y.did = {}
  BY <1>0, <1>00 DEF NoSwitch, SwitchRows, Places, Records, JobKinds
<1>2. swj' = [swj EXCEPT ![j] = y] /\ UNCHANGED mods /\ SwitchCalm
  BY <1>0 DEF Plan
<1> HIDE DEF y
<1>3. PlaceInv(y) /\ y.at \notin Working
  BY <1>1 DEF PlaceInv, Working
<1> QED
  BY <1>1, <1>2, <1>3, Outside

(* The requests of core, the claim and the late caller. *)
LEMMA QueueKeeps == ASSUME SwitchInv, NEW j \in Jobs, QueuePart(j) PROVE SwitchInv'
<1>0. mods.present \in SUBSET Modules /\ mods.on \in SUBSET Modules /\ Replacements \subseteq Modules
      /\ "core" \in Modules /\ swj[j] \in SwitchRows
  BY DEF SwitchInv, SwitchTypes, ModState, Modules
<1>1. \A on, m : disable_plan(on, m) \in SUBSET Modules /\ hand_back_plan(on, m) \in SUBSET Modules
  BY <1>0 DEF disable_plan, hand_back_plan, replacements_of
<1>2. CASE queue_enable(j)
  <2>1. PICK m \in mods.present : Plan(j, "enable", m, disable_plan(_model_with_pending_jobs, m), {})
    BY <1>2 DEF queue_enable
  <2> QED
    BY <1>0, <1>1, <2>1, PlanKeeps DEF JobKinds
<1>3. CASE queue_disable(j)
  <2>1. PICK m \in mods.present, back \in SUBSET Modules : Plan(j, "disable", m, {}, back)
    BY <1>1, <1>3 DEF queue_disable
  <2> QED
    BY <1>0, <2>1, PlanKeeps DEF JobKinds
<1>4. CASE queue_remove(j)
  <2>1. PICK m \in mods.present, back \in SUBSET Modules : Plan(j, "remove", m, {}, back)
    BY <1>1, <1>4 DEF queue_remove
  <2> QED
    BY <1>0, <2>1, PlanKeeps DEF JobKinds
<1>5. CASE queue_v2_install(j)
  <2>1. PICK m \in Replacements, k \in {"install", "legacy"} : Plan(j, k, m, disable_plan(mods.on, m), {})
    BY <1>5 DEF queue_v2_install
  <2> QED
    BY <1>0, <1>1, <2>1, PlanKeeps DEF JobKinds
<1>6. CASE reconcile_conflicts(j)
  <2>1. PICK m \in Modules : Plan(j, "disable", m, {}, {})
    BY <1>0, <1>6 DEF reconcile_conflicts, conflicted_replacements, replacements_of
  <2> QED
    BY <2>1, PlanKeeps DEF JobKinds
<1>7. PlaceInv(swj[j])
  BY DEF SwitchInv
<1>8. ASSUME NEW p \in Places, NEW r \in Records, swj' = [swj EXCEPT ![j].at = p, ![j].rec = r],
             p \notin Working, swj[j].at \in {"plan", "claim", "start"}, p \in {"claim", "start", "over"},
             p # "over" => r \in {"queued", "dispatched", "dispatch_failed"}, UNCHANGED mods,
             SwitchCalm \/ \E what \in {"fault", "late", "kill", "hand"} : SwitchSpend(what)
      PROVE  SwitchInv'
  <2> DEFINE y == [swj[j] EXCEPT !.at = p]
             z == [y EXCEPT !.rec = r]
  <2>1. y \in SwitchRows /\ y.at = p /\ y.kind = swj[j].kind /\ y.did = swj[j].did
    BY <1>0, RowAt
  <2>2. swj' = [swj EXCEPT ![j] = z]
    BY <1>8 DEF SwitchInv, SwitchTypes
  <2> HIDE DEF y
  <2>3. z \in SwitchRows /\ z.at = p /\ z.rec = r /\ z.kind = swj[j].kind /\ z.did = swj[j].did
    BY <2>1, RowRec
  <2> HIDE DEF z
  <2>4. PlaceInv(z)
    BY <1>7, <1>8, <2>3 DEF PlaceInv, Working
  <2> QED
    BY <1>8, <2>2, <2>3, <2>4, Outside
<1>9. CASE _queue_v2(j)
  BY <1>8, <1>9 DEF _queue_v2, AtSwitch, Places, Records, Working
<1>10. CASE claim_module_job(j)
  BY <1>8, <1>10 DEF claim_module_job, AtSwitch, Places, Records, Working
<1>11. CASE DispatchTimesOut(j)
  <2> DEFINE z == [swj[j] EXCEPT !.rec = "dispatch_failed"]
  <2>1. z \in SwitchRows /\ z.at = "start" /\ z.rec = "dispatch_failed" /\ z.kind = swj[j].kind /\ z.did = swj[j].did
    BY <1>0, <1>11, RowRec DEF DispatchTimesOut, AtSwitch, Records
  <2>2. swj' = [swj EXCEPT ![j] = z] /\ UNCHANGED mods /\ SwitchSpend("late")
    BY <1>11 DEF DispatchTimesOut
  <2> HIDE DEF z
  <2>3. PlaceInv(z)
    BY <1>7, <1>11, <2>1 DEF PlaceInv, Working, DispatchTimesOut, AtSwitch
  <2> QED
    BY <2>1, <2>2, <2>3, Outside DEF Working
<1> QED
  BY <1>2, <1>3, <1>4, <1>5, <1>6, <1>9, <1>10, <1>11 DEF QueuePart

----------------------------------------------------------------------------
(* The job under the lock. *)

(* Row y of a job after a step from row x that keeps its plan. *)
Becomes(j, y) == swj' = [swj EXCEPT ![j] = y]
SamePlan(x, y) ==
  y \in SwitchRows /\ y.kind = x.kind /\ y.mod = x.mod /\ y.back = x.back /\ y.fresh = x.fresh /\ y.was = x.was

SetEnd(j, p, r) == swj' = [swj EXCEPT ![j].at = p, ![j].rec = r]
SetDone(j, p, d) == swj' = [swj EXCEPT ![j].at = p, ![j].did = d]

(* The row after a move, an end, and a move that notes what was switched. *)
LEMMA MovedRow ==
  ASSUME SwitchTypes, NEW j \in Jobs, NEW p \in Places, MoveTo(j, p)
  PROVE  \E y : /\ Becomes(j, y) /\ SamePlan(swj[j], y)
                /\ y.at = p /\ y.rec = swj[j].rec /\ y.did = swj[j].did
<1> DEFINE y == [swj[j] EXCEPT !.at = p]
<1>1. Becomes(j, y)
  BY DEF MoveTo, SwitchTypes, Becomes
<1>2. SamePlan(swj[j], y) /\ y.at = p /\ y.rec = swj[j].rec /\ y.did = swj[j].did
  BY RowAt DEF SwitchTypes, SamePlan
<1> QED
  BY <1>1, <1>2, Zenon

LEMMA EndedRow ==
  ASSUME SwitchTypes, NEW j \in Jobs, NEW p \in Places, NEW r \in Records, SetEnd(j, p, r)
  PROVE  \E y : /\ Becomes(j, y) /\ SamePlan(swj[j], y)
                /\ y.at = p /\ y.rec = r /\ y.did = swj[j].did
<1> DEFINE y == [swj[j] EXCEPT !.at = p]
           z == [y EXCEPT !.rec = r]
<1>1. Becomes(j, z)
  BY DEF SwitchTypes, SetEnd, Becomes
<1>2. SamePlan(swj[j], y) /\ y.at = p /\ y.did = swj[j].did
  BY RowAt DEF SwitchTypes, SamePlan
<1> HIDE DEF y
<1>3. SamePlan(swj[j], z) /\ z.at = p /\ z.rec = r /\ z.did = swj[j].did
  BY <1>2, RowRec DEF SamePlan
<1> QED
  BY <1>1, <1>3

LEMMA DoneRow ==
  ASSUME SwitchTypes, NEW j \in Jobs, NEW p \in Places, NEW d \in SUBSET Modules, SetDone(j, p, d)
  PROVE  \E y : /\ Becomes(j, y) /\ SamePlan(swj[j], y)
                /\ y.at = p /\ y.rec = swj[j].rec /\ y.did = d
<1> DEFINE y == [swj[j] EXCEPT !.at = p]
           z == [y EXCEPT !.did = d]
<1>1. Becomes(j, z)
  BY DEF SwitchTypes, SetDone, Becomes
<1>2. SamePlan(swj[j], y) /\ y.at = p /\ y.rec = swj[j].rec
  BY RowAt DEF SwitchTypes, SamePlan
<1> HIDE DEF y
<1>3. SamePlan(swj[j], z) /\ z.at = p /\ z.rec = swj[j].rec /\ z.did = d
  BY <1>2, RowDid DEF SamePlan
<1> QED
  BY <1>1, <1>3

(* What a step under the lock has to show. *)
Inside(j, y) ==
  /\ swj[j].at \in Working /\ Becomes(j, y) /\ y \in SwitchRows /\ PlaceInv(y)
  /\ mods' \in ModState
  /\ SwitchCalm \/ \E what \in {"fault", "late", "kill", "hand"} : SwitchSpend(what)
  /\ ~mods'.edited => ~Clash(mods'.present, mods'.on)
  /\ y.at \in Working => mods'.lock = j /\ HolderInv(y, mods'.present, mods'.on, mods'.edited)

(* A step under the lock keeps the invariant. *)
LEMMA InsideKeeps == ASSUME SwitchInv, NEW j \in Jobs, NEW y, Inside(j, y) PROVE SwitchInv'
<1>1. swLeft' \in [{"fault", "late", "kill", "hand"} -> Nat]
  BY BudgetTypes DEF SwitchInv, Inside
<1>2. \A i \in Jobs \ {j} : swj[i].at \notin Working
  BY HolderAlone DEF Inside
<1>3. JobStep(j, y)
  BY <1>1, <1>2 DEF JobStep, Inside, Becomes
<1> QED
  BY <1>3, JobStepKeeps

(* A job ends, or is killed, with the lock free. *)
LEMMA EndKeeps ==
  ASSUME SwitchInv, NEW j \in Jobs, swj[j].at \in Working, NEW r \in Records,
         Ends(j, r) \/ MoveTo(j, "dead"), mods' \in ModState,
         SwitchCalm \/ \E what \in {"fault", "late", "kill", "hand"} : SwitchSpend(what),
         ~mods'.edited => ~Clash(mods'.present, mods'.on)
  PROVE  SwitchInv'
<1>1. PICK y : Becomes(j, y) /\ y \in SwitchRows /\ y.at \in {"over", "dead"}
  <2>1. CASE Ends(j, r)
    <3>1. "over" \in Places /\ SwitchTypes /\ SetEnd(j, "over", r)
      BY <2>1 DEF Ends, SetEnd, SwitchInv, Places
    <3> QED
      BY <3>1, EndedRow DEF SamePlan
  <2>2. CASE MoveTo(j, "dead")
    BY <2>2, MovedRow DEF SwitchInv, SamePlan, Places
  <2> QED
    BY <2>1, <2>2
<1>2. PlaceInv(y) /\ y.at \notin Working
  BY <1>1 DEF PlaceInv, Working
<1>3. Inside(j, y)
  BY <1>1, <1>2 DEF Inside
<1> QED
  BY <1>3, InsideKeeps

(* The enable job: its module ends as the only enabled one of the family. *)
LEMMA EnableKeeps == ASSUME SwitchInv, NEW j \in Jobs, apply_enable_job(j) PROVE SwitchInv'
<1> DEFINE m == swj[j].mod
           off == disable_plan(mods.on, m)
           on == (mods.on \cup {m}) \ off
           gone == conflicted_replacements(on) \ {m}
<1>0. /\ SwitchTypes /\ mods \in ModState /\ mods.present \in SUBSET Modules /\ mods.on \in SUBSET Modules
      /\ m \in Modules /\ PlaceInv(swj[j]) /\ swj[j].at = "enable" /\ swj[j].at \in Working /\ SwitchCalm
      /\ mods.lock = j /\ HolderInv(swj[j], mods.present, mods.on, mods.edited)
  BY DEF SwitchInv, SwitchTypes, SwitchRows, ModState, apply_enable_job, EnableAndDisable, AtSwitch, Working, OneModuleJob
<1>1. CASE plan_enable_disables(j)
  <2>1. SetDone(j, "sync", off \cup gone) /\ mods' = [mods EXCEPT !.on = on \ gone]
    BY <1>1 DEF apply_enable_job, EnableAndDisable, Flags, SetDone
  <2>2. off \cup gone \in SUBSET Modules /\ on \ gone \in SUBSET Modules /\ "sync" \in Places
    BY <1>0 DEF disable_plan, conflicted_replacements, replacements_of, Places, Working
  <2>3. mods.present \cap (on \ gone) = {m}
    <3>1. m \in mods.present /\ enable_allowed(mods.on \ {m}, m)
      BY <1>1 DEF plan_enable_disables
    <3>2. CASE m = "core"
      BY <1>0, <3>1, <3>2, SwitchConstants DEF disable_plan, conflicted_replacements, replacements_of, Modules
    <3>3. CASE m # "core"
      <4>1. replacements_of((mods.on \ {m}) \ {"core"}) \subseteq {m} /\ off = mods.on \cap {"core"}
        BY <3>1, <3>3 DEF enable_allowed, replacement_check, disable_plan
      <4>2. "core" \notin on /\ gone = {}
        BY <3>3, <4>1 DEF conflicted_replacements
      <4> QED
        BY <1>0, <3>1, <3>3, <4>1, <4>2 DEF replacements_of, Modules
    <3> QED
      BY <3>2, <3>3
  <2> HIDE DEF off, on, gone
  <2>4. mods' \in ModState /\ mods'.present = mods.present /\ mods'.on = on \ gone /\ mods'.lock = j
        /\ mods'.edited = mods.edited
    BY <1>0, <2>1, <2>2 DEF ModState
  <2>5. PICK y : /\ Becomes(j, y) /\ SamePlan(swj[j], y)
                 /\ y.at = "sync" /\ y.rec = swj[j].rec /\ y.did = off \cup gone
    BY <1>0, <2>1, <2>2, DoneRow
  <2>6. PlaceInv(y) /\ HolderInv(y, mods'.present, mods'.on, mods'.edited)
    BY <1>0, <2>3, <2>4, <2>5 DEF PlaceInv, HolderInv, SamePlan, Working
  <2>7. ~Clash(mods'.present, mods'.on)
    BY <2>3, <2>4, SwitchConstants DEF Clash
  <2>8. Inside(j, y)
    BY <1>0, <2>4, <2>5, <2>6, <2>7 DEF Inside, SamePlan
  <2> QED
    BY <2>8, InsideKeeps
<1>2. CASE ~plan_enable_disables(j)
  <2>1. Ends(j, "failed") /\ mods' = [mods EXCEPT !.on = mods.on, !.lock = Unlocked]
    BY <1>2 DEF apply_enable_job, EnableAndDisable, Frees
  <2>2. mods' \in ModState /\ mods'.present = mods.present /\ mods'.on = mods.on /\ mods'.edited = mods.edited
    BY <1>0, <2>1 DEF ModState
  <2> QED
    BY <1>0, <2>1, <2>2, EndKeeps DEF SwitchInv, Records
<1> QED
  BY <1>1, <1>2

(* What holds of the job under the lock. *)
LEMMA AtWork ==
  ASSUME SwitchInv, NEW j \in Jobs, swj[j].at \in Working
  PROVE  /\ SwitchTypes /\ mods \in ModState /\ mods.present \in SUBSET Modules /\ mods.on \in SUBSET Modules
         /\ swj[j].mod \in Modules /\ swj[j].back \in SUBSET Modules /\ swj[j].was \in SUBSET Modules
         /\ swj[j].fresh \in BOOLEAN /\ PlaceInv(swj[j])
         /\ mods.lock = j /\ HolderInv(swj[j], mods.present, mods.on, mods.edited)
         /\ ~mods.edited => ~Clash(mods.present, mods.on)
BY DEF SwitchInv, SwitchTypes, SwitchRows, ModState, OneModuleJob

(* A job that fails with the flags as they are. *)
LEMMA RefuseKeeps ==
  ASSUME SwitchInv, NEW j \in Jobs, swj[j].at \in Working, NEW r \in Records, Ends(j, r), Frees(mods.on),
         SwitchCalm \/ SwitchSpend("fault")
  PROVE  SwitchInv'
<1>1. mods' \in ModState /\ mods'.present = mods.present /\ mods'.on = mods.on /\ mods'.edited = mods.edited
  BY AtWork DEF Frees, ModState
<1>2. ~mods'.edited => ~Clash(mods'.present, mods'.on)
  BY <1>1, AtWork
<1> QED
  BY <1>1, <1>2, EndKeeps

(* The disable job: core comes back only from the last enabled replacement. *)
LEMMA DisableKeeps == ASSUME SwitchInv, NEW j \in Jobs, apply_disable_job(j) PROVE SwitchInv'
<1> DEFINE m == swj[j].mod
           back == swj[j].back
           on == (mods.on \ {m}) \cup back
<1>0. swj[j].at = "disable" /\ swj[j].at \in Working /\ SwitchCalm
  BY DEF apply_disable_job, AtSwitch, Working
<1>1. CASE plan_hand_back(j)
  <2>1. SetDone(j, "sync", back) /\ mods' = [mods EXCEPT !.on = on]
    BY <1>1 DEF apply_disable_job, Flags, SetDone
  <2>2. on \in SUBSET Modules /\ back \in SUBSET Modules /\ "sync" \in Places
    BY <1>0, AtWork DEF Places, Working
  <2>3. ~mods.edited => ~Clash(mods.present, on)
    <3>1. CASE back = {}
      BY <1>0, <3>1, AtWork DEF Clash
    <3>2. CASE back # {}
      <4>1. replacements_of(mods.on) = {m} /\ back = {"core"}
        BY <1>1, <3>2 DEF plan_hand_back, hand_back_plan
      <4> QED
        BY <4>1, SwitchConstants DEF Clash, replacements_of
    <3> QED
      BY <3>1, <3>2
  <2> HIDE DEF on
  <2>4. mods' \in ModState /\ mods'.present = mods.present /\ mods'.on = on /\ mods'.lock = j
        /\ mods'.edited = mods.edited
    BY <1>0, <2>1, <2>2, AtWork DEF ModState
  <2>5. PICK y : /\ Becomes(j, y) /\ SamePlan(swj[j], y)
                 /\ y.at = "sync" /\ y.rec = swj[j].rec /\ y.did = back
    BY <1>0, <2>1, <2>2, AtWork, DoneRow
  <2>6. PlaceInv(y) /\ HolderInv(y, mods'.present, mods'.on, mods'.edited)
    BY <1>0, <2>4, <2>5, AtWork DEF PlaceInv, HolderInv, SamePlan, Working
  <2>7. Inside(j, y)
    BY <1>0, <2>3, <2>4, <2>5, <2>6 DEF Inside, SamePlan
  <2> QED
    BY <2>7, InsideKeeps
<1>2. CASE ~plan_hand_back(j)
  BY <1>0, <1>2, RefuseKeeps DEF apply_disable_job, Records
<1> QED
  BY <1>1, <1>2

(* The end of enable and disable, with the flags kept or put back. *)
LEMMA SyncKeeps == ASSUME SwitchInv, NEW j \in Jobs, sync_and_reload(j) PROVE SwitchInv'
<1>0. swj[j].at = "sync" /\ swj[j].at \in Working
  BY DEF sync_and_reload, SyncOr, AtSwitch, Working
<1>1. PICK r \in {"succeeded", "failed"}, on \in {mods.on, swj[j].was} :
        Ends(j, r) /\ Frees(on) /\ (SwitchCalm \/ SwitchSpend("fault"))
  BY DEF sync_and_reload, SyncOr
<1>2. on \in SUBSET Modules /\ (~mods.edited => ~Clash(mods.present, on))
  BY <1>0, AtWork DEF HolderInv
<1>3. mods' \in ModState /\ mods'.present = mods.present /\ mods'.on = on /\ mods'.edited = mods.edited
  BY <1>0, <1>1, <1>2, AtWork DEF ModState, Frees
<1>4. ~mods'.edited => ~Clash(mods'.present, mods'.on)
  BY <1>2, <1>3
<1> QED
  BY <1>0, <1>1, <1>3, <1>4, EndKeeps DEF Records

(* The remove job, step by step. *)
LEMMA RemoveKeeps == ASSUME SwitchInv, NEW j \in Jobs, remove_extension(j) PROVE SwitchInv'
<1> DEFINE m == swj[j].mod
           left == mods.present \ {m}
<1>0. swj[j].at = "remove" /\ swj[j].at \in Working
  BY DEF remove_extension, AtSwitch, Working
<1>1. left \in SUBSET Modules /\ (~mods.edited => ~Clash(left, mods.on))
  BY <1>0, AtWork DEF Clash
<1>2. CASE /\ plan_hand_back(j) /\ SwitchCalm
           /\ MoveTo(j, "forget") /\ mods' = [mods EXCEPT !.present = @ \ {m}]
  <2>1. mods' \in ModState /\ mods'.present = left /\ mods'.on = mods.on /\ mods'.lock = j
        /\ mods'.edited = mods.edited
    BY <1>0, <1>1, <1>2, AtWork DEF ModState
  <2>2. PICK y : /\ Becomes(j, y) /\ SamePlan(swj[j], y)
                 /\ y.at = "forget" /\ y.rec = swj[j].rec /\ y.did = swj[j].did
    <3>1. "forget" \in Places
      BY DEF Places, Working
    <3> QED
      BY <1>0, <1>2, <3>1, AtWork, MovedRow
  <2>3. swj[j].back \subseteq {"core"} /\ (swj[j].back # {} => Replacements \cap left \cap mods.on = {})
    <3>1. swj[j].back # {} => replacements_of(mods.on) = {m} /\ swj[j].back = {"core"}
      BY <1>2 DEF plan_hand_back, hand_back_plan
    <3> QED
      BY <3>1 DEF replacements_of
  <2>4. HolderInv(y, mods'.present, mods'.on, mods'.edited)
    BY <2>1, <2>2, <2>3 DEF HolderInv, SamePlan
  <2>5. PlaceInv(y)
    BY <1>0, <2>2, AtWork DEF PlaceInv, SamePlan, Working
  <2>6. Inside(j, y)
    BY <1>0, <1>1, <1>2, <2>1, <2>2, <2>4, <2>5 DEF Inside, SamePlan
  <2> QED
    BY <2>6, InsideKeeps
<1>3. CASE SwitchSpend("fault") /\ Ends(j, "failed")
           /\ mods' = [mods EXCEPT !.present = @ \ {m}, !.lock = Unlocked]
  <2>1. mods' \in ModState /\ mods'.present = left /\ mods'.on = mods.on /\ mods'.edited = mods.edited
    BY <1>0, <1>1, <1>3, AtWork DEF ModState
  <2>2. ~mods'.edited => ~Clash(mods'.present, mods'.on)
    BY <1>1, <2>1
  <2> QED
    BY <1>0, <1>3, <2>1, <2>2, EndKeeps DEF Records
<1>4. CASE SwitchCalm /\ Ends(j, "failed") /\ Frees(mods.on)
  BY <1>0, <1>4, RefuseKeeps DEF Records
<1> QED
  BY <1>2, <1>3, <1>4 DEF remove_extension

LEMMA ForgetKeeps == ASSUME SwitchInv, NEW j \in Jobs, forget_module_state(j) PROVE SwitchInv'
<1> DEFINE on == mods.on \cup {swj[j].mod}
<1>0. swj[j].at = "forget" /\ swj[j].at \in Working /\ SwitchCalm /\ "unregister" \in Places
  BY DEF forget_module_state, AtSwitch, Working, Places
<1>1. /\ on \in SUBSET Modules /\ swj[j].mod \notin mods.present /\ swj[j].back \subseteq {"core"}
      /\ ~mods.edited => ~Clash(mods.present, on)
      /\ swj[j].back # {} => Replacements \cap mods.present \cap on = {}
  BY <1>0, AtWork DEF Clash, HolderInv
<1>2. mods' \in ModState /\ mods'.present = mods.present /\ mods'.on = on /\ mods'.lock = j
      /\ mods'.edited = mods.edited
  BY <1>0, <1>1, AtWork DEF ModState, forget_module_state, Flags
<1>3. PICK y : /\ Becomes(j, y) /\ SamePlan(swj[j], y)
               /\ y.at = "unregister" /\ y.rec = swj[j].rec /\ y.did = swj[j].did
  BY <1>0, AtWork, MovedRow DEF forget_module_state
<1>4. HolderInv(y, mods'.present, mods'.on, mods'.edited)
  BY <1>1, <1>2, <1>3 DEF HolderInv, SamePlan
<1>5. PlaceInv(y)
  BY <1>0, <1>3, AtWork DEF PlaceInv, SamePlan, Working
<1>6. Inside(j, y)
  BY <1>0, <1>1, <1>2, <1>3, <1>4, <1>5 DEF Inside, SamePlan
<1> QED
  BY <1>6, InsideKeeps

LEMMA FinishKeeps == ASSUME SwitchInv, NEW j \in Jobs, RemoveFinish(j) PROVE SwitchInv'
<1> DEFINE on == mods.on \cup swj[j].back
<1>0. swj[j].at = "unregister" /\ swj[j].at \in Working
  BY DEF RemoveFinish, AtSwitch, Working
<1>1. on \in SUBSET Modules
  BY <1>0, AtWork
<1>2. CASE SwitchCalm /\ Frees(on) /\ Ends(j, "succeeded")
  <2>1. mods' \in ModState /\ mods'.present = mods.present /\ mods'.on = on /\ mods'.edited = mods.edited
    BY <1>0, <1>1, <1>2, AtWork DEF ModState, Frees
  <2>2. /\ ~mods.edited => ~Clash(mods.present, mods.on)
        /\ swj[j].back \subseteq {"core"} /\ (swj[j].back # {} => Replacements \cap mods.present \cap mods.on = {})
    BY <1>0, AtWork DEF HolderInv
  <2>3. ~mods'.edited => ~Clash(mods'.present, mods'.on)
    BY <2>1, <2>2, SwitchConstants DEF Clash
  <2> QED
    BY <1>0, <1>2, <2>1, <2>3, EndKeeps DEF Records
<1>3. CASE SwitchSpend("fault") /\ Frees(mods.on) /\ Ends(j, "failed")
  BY <1>0, <1>3, RefuseKeeps DEF Records
<1> QED
  BY <1>2, <1>3 DEF RemoveFinish

(* A worker starts: it is refused, or takes the free lock. *)
LEMMA RunKeeps == ASSUME SwitchInv, NEW j \in Jobs, run_module_job(j) PROVE SwitchInv'
<1>0. /\ swj[j].at = "start" /\ SwitchCalm /\ SwitchTypes /\ PlaceInv(swj[j]) /\ swj[j] \in SwitchRows
      /\ mods \in ModState
  BY DEF SwitchInv, SwitchTypes, run_module_job, RunModuleJobIf, AtSwitch
<1>1. CASE Ends(j, "failed") /\ UNCHANGED mods
  <2>1. "over" \in Places /\ "failed" \in Records /\ SetEnd(j, "over", "failed")
    BY <1>1 DEF Ends, SetEnd, Places, Records
  <2>2. PICK y : Becomes(j, y) /\ y \in SwitchRows /\ y.at = "over"
    BY <1>0, <2>1, EndedRow DEF SamePlan
  <2>3. PlaceInv(y) /\ y.at \notin Working
    BY <2>2 DEF PlaceInv, Working
  <2> QED
    BY <1>0, <1>1, <2>2, <2>3, Outside DEF Becomes
<1>2. CASE /\ mods.lock = Unlocked /\ mods' = [mods EXCEPT !.lock = j]
           /\ swj' = [swj EXCEPT ![j].at = swj[j].kind, ![j].rec = "running", ![j].was = mods.on,
                                 ![j].fresh = (swj[j].mod \notin mods.present)]
  <2> DEFINE f == swj[j].mod \notin mods.present
             x == [swj[j] EXCEPT !.at = swj[j].kind]
             y == [x EXCEPT !.rec = "running"]
             v == [y EXCEPT !.was = mods.on]
             z == [v EXCEPT !.fresh = f]
  <2>1. Becomes(j, z) /\ f \in BOOLEAN
    BY <1>0, <1>2 DEF SwitchTypes, Becomes
  <2>2. swj[j].kind \in JobKinds /\ swj[j].kind \in Places /\ swj[j].kind \in Working /\ swj[j].did = {}
        /\ mods.on \in SUBSET Modules /\ "running" \in Records
    BY <1>0 DEF PlaceInv, JobKinds, Places, Working, ModState, Records
  <2>3. SamePlan(swj[j], x) /\ x.at = swj[j].kind /\ x.did = {}
    BY <1>0, <2>2, RowAt DEF SamePlan
  <2> HIDE DEF x, f
  <2>4. SamePlan(swj[j], y) /\ y.at = swj[j].kind /\ y.did = {} /\ y.rec = "running"
    BY <2>2, <2>3, RowRec DEF SamePlan
  <2> HIDE DEF y
  <2>12. /\ v \in SwitchRows /\ v.at = swj[j].kind /\ v.kind = swj[j].kind /\ v.did = {} /\ v.rec = "running"
         /\ v.was = mods.on /\ v.mod = swj[j].mod
    BY <2>2, <2>4, RowWas DEF SamePlan
  <2> HIDE DEF v
  <2>5. /\ z \in SwitchRows /\ z.at = swj[j].kind /\ z.kind = swj[j].kind /\ z.did = {} /\ z.rec = "running"
        /\ z.was = mods.on /\ z.fresh = f /\ z.mod = swj[j].mod
    BY <2>1, <2>12, RowFresh
  <2> HIDE DEF z
  <2>6. mods' \in ModState /\ mods'.present = mods.present /\ mods'.on = mods.on /\ mods'.lock = j
        /\ mods'.edited = mods.edited
    BY <1>0, <1>2 DEF ModState
  <2>7. PlaceInv(z)
    BY <2>2, <2>5 DEF PlaceInv, JobKinds, Working
  <2>8. ~mods.edited => ~Clash(mods.present, mods.on) /\ ~Clash(mods.present \ {swj[j].mod}, mods.on)
    BY DEF SwitchInv, Clash
  <2>9. HolderInv(z, mods'.present, mods'.on, mods'.edited)
    BY <2>2, <2>5, <2>6, <2>8 DEF HolderInv, JobKinds, f
  <2>10. \A i \in Jobs \ {j} : swj[i].at \notin Working
    BY <1>2, HolderAlone
  <2>11. JobStep(j, z)
    BY <1>0, <2>1, <2>5, <2>6, <2>7, <2>8, <2>9, <2>10 DEF JobStep, Becomes, SwitchTypes, SwitchCalm
  <2> QED
    BY <2>11, JobStepKeeps
<1> QED
  BY <1>1, <1>2 DEF run_module_job, RunModuleJobIf

LEMMA KillKeeps == ASSUME SwitchInv, NEW j \in Jobs, ModuleWorkerKilled(j) PROVE SwitchInv'
<1>0. SwitchTypes /\ mods \in ModState /\ mods.lock = j
  BY DEF SwitchInv, SwitchTypes, ModuleWorkerKilled
<1>1. "dead" \in Places /\ MoveTo(j, "dead") /\ SwitchSpend("kill")
  BY DEF ModuleWorkerKilled, Places
<1>2. PICK y : Becomes(j, y) /\ y \in SwitchRows /\ y.at = "dead"
  BY <1>0, <1>1, MovedRow DEF SamePlan
<1>3. PlaceInv(y) /\ y.at \notin Working
  BY <1>2 DEF PlaceInv, Working
<1>4. mods' \in ModState /\ mods'.present = mods.present /\ mods'.on = mods.on /\ mods'.edited = mods.edited
  BY <1>0 DEF ModState, ModuleWorkerKilled
<1>5. \A i \in Jobs \ {j} : swj[i].at \notin Working
  BY <1>0, HolderAlone
<1>6. swLeft' \in [{"fault", "late", "kill", "hand"} -> Nat]
  BY <1>0, <1>1, BudgetTypes
<1>7. ~mods.edited => ~Clash(mods.present, mods.on)
  BY DEF SwitchInv
<1>8. JobStep(j, y)
  BY <1>2, <1>3, <1>4, <1>5, <1>6, <1>7 DEF JobStep, Becomes
<1> QED
  BY <1>8, JobStepKeeps

(* A step of the install that moves on with flags that only went off, or with
   the module installed while core is off.                                  *)
LEMMA InstallMoves ==
  ASSUME SwitchInv, NEW j \in Jobs, swj[j].at \in Working, NEW y, Becomes(j, y), SamePlan(swj[j], y),
         PlaceInv(y), y.at \in Working, SwitchCalm \/ SwitchSpend("fault"), mods' \in ModState,
         mods'.edited = mods.edited, mods'.lock = j, mods'.on \subseteq mods.on,
         mods'.present = mods.present \/ "core" \notin mods'.on,
         HolderInv(y, mods'.present, mods'.on, mods'.edited)
  PROVE  SwitchInv'
<1>1. ~mods'.edited => ~Clash(mods'.present, mods'.on)
  BY AtWork DEF Clash
<1>2. Inside(j, y)
  BY <1>1 DEF Inside, SamePlan
<1> QED
  BY <1>2, InsideKeeps

(* The install job, step by step. *)
LEMMA PrepareKeeps == ASSUME SwitchInv, NEW j \in Jobs, apply_install_prepare_disable(j) PROVE SwitchInv'
<1> DEFINE off == IF swj[j].fresh THEN mods.on \cap mods.present \cap {"core"} ELSE {}
           on == mods.on \ off
<1>0. swj[j].at = "install" /\ swj[j].at \in Working /\ SwitchCalm
  BY DEF apply_install_prepare_disable, AtSwitch, Working
<1>1. off \in SUBSET Modules /\ on \in SUBSET Modules /\ on \subseteq mods.on
  BY <1>0, AtWork
<1>2. "shell" \in Places /\ "restore" \in Places
  BY DEF Places, Working
<1>3. CASE mods' = [mods EXCEPT !.on = on] /\ SetDone(j, "shell", off)
  <2> HIDE DEF off, on
  <2>1. mods' \in ModState /\ mods'.present = mods.present /\ mods'.on = on /\ mods'.lock = j
        /\ mods'.edited = mods.edited
    BY <1>0, <1>1, <1>3, AtWork DEF ModState
  <2>2. PICK y : /\ Becomes(j, y) /\ SamePlan(swj[j], y)
                 /\ y.at = "shell" /\ y.rec = swj[j].rec /\ y.did = off
    BY <1>0, <1>1, <1>2, <1>3, AtWork, DoneRow
  <2>3. PlaceInv(y) /\ y.at \in Working
    BY <1>0, <2>2, AtWork DEF PlaceInv, SamePlan, Working
  <2>4. HolderInv(y, mods'.present, mods'.on, mods'.edited)
    BY <1>0, <2>1, <2>2, AtWork DEF HolderInv, SamePlan
  <2> QED
    BY <1>0, <1>1, <2>1, <2>2, <2>3, <2>4, InstallMoves
<1>4. CASE MoveTo(j, "restore") /\ UNCHANGED mods
  <2>2. PICK y : /\ Becomes(j, y) /\ SamePlan(swj[j], y)
                 /\ y.at = "restore" /\ y.rec = swj[j].rec /\ y.did = swj[j].did
    BY <1>0, <1>2, <1>4, AtWork, MovedRow
  <2>3. PlaceInv(y) /\ y.at \in Working
    BY <1>0, <2>2, AtWork DEF PlaceInv, SamePlan, Working
  <2>4. HolderInv(y, mods'.present, mods'.on, mods'.edited)
    BY <1>0, <1>4, <2>2, AtWork DEF HolderInv, SamePlan
  <2> QED
    BY <1>0, <1>4, <2>2, <2>3, <2>4, AtWork, InstallMoves
<1> QED
  BY <1>3, <1>4 DEF apply_install_prepare_disable, Flags, SetDone

LEMMA ShellKeeps == ASSUME SwitchInv, NEW j \in Jobs, install_extension(j) PROVE SwitchInv'
<1> DEFINE m == swj[j].mod
           p == IF swj[j].kind = "install" THEN "verify" ELSE "tail"
           more == mods.present \cup {m}
<1>0. swj[j].at = "shell" /\ swj[j].at \in Working
  BY DEF install_extension, AtSwitch, Working
<1>1. "restore" \in Places /\ p \in Places /\ p \in {"verify", "tail"} /\ "verify" \in Working /\ "tail" \in Working
  BY DEF Places, Working
<1>2. CASE m \in mods.on /\ "core" \notin mods.on /\ SwitchCalm /\ MoveTo(j, p)
           /\ mods' = [mods EXCEPT !.present = @ \cup {m}]
  <2>1. mods' \in ModState /\ mods'.present = more /\ mods'.on = mods.on /\ mods'.lock = j
        /\ mods'.edited = mods.edited
    BY <1>0, <1>2, AtWork DEF ModState
  <2>2. PICK y : /\ Becomes(j, y) /\ SamePlan(swj[j], y)
                 /\ y.at = p /\ y.rec = swj[j].rec /\ y.did = swj[j].did
    BY <1>0, <1>1, <1>2, AtWork, MovedRow
  <2>3. PlaceInv(y) /\ y.at \in Working
    BY <1>0, <1>1, <2>2, AtWork DEF PlaceInv, SamePlan, Working
  <2>4. (IF swj[j].fresh THEN more \ {m} ELSE more) = (IF swj[j].fresh THEN mods.present \ {m} ELSE mods.present)
    BY <1>0, AtWork DEF HolderInv
  <2>5. /\ ~mods.edited => ~Clash(IF swj[j].fresh THEN more \ {m} ELSE more, swj[j].was)
        /\ m \in more \cap mods.on
    BY <1>0, <1>2, <2>4, AtWork DEF HolderInv
  <2>6. HolderInv(y, mods'.present, mods'.on, mods'.edited)
    BY <1>1, <1>2, <2>1, <2>2, <2>5 DEF HolderInv, SamePlan
  <2> QED
    BY <1>0, <1>2, <2>1, <2>2, <2>3, <2>6, InstallMoves
<1>3. CASE (SwitchCalm \/ SwitchSpend("fault")) /\ swj[j].kind = "install" /\ MoveTo(j, "restore") /\ UNCHANGED mods
  <2>2. PICK y : /\ Becomes(j, y) /\ SamePlan(swj[j], y)
                 /\ y.at = "restore" /\ y.rec = swj[j].rec /\ y.did = swj[j].did
    BY <1>0, <1>1, <1>3, AtWork, MovedRow
  <2>3. PlaceInv(y) /\ y.at \in Working
    BY <1>0, <1>3, <2>2, AtWork DEF PlaceInv, SamePlan, Working
  <2>4. HolderInv(y, mods'.present, mods'.on, mods'.edited)
    BY <1>0, <1>3, <2>2, AtWork DEF HolderInv, SamePlan
  <2> QED
    BY <1>0, <1>3, <2>2, <2>3, <2>4, AtWork, InstallMoves
<1>4. CASE (SwitchCalm \/ SwitchSpend("fault")) /\ Ends(j, "failed") /\ Frees(mods.on)
  BY <1>0, <1>4, RefuseKeeps DEF Records
<1> QED
  BY <1>2, <1>3, <1>4 DEF install_extension

LEMMA VerifyKeeps == ASSUME SwitchInv, NEW j \in Jobs, verify_install_disables(j) PROVE SwitchInv'
<1> DEFINE m == swj[j].mod
           off == IF swj[j].fresh /\ m \in mods.on THEN mods.on \cap {"core"} ELSE {}
           on == mods.on \ off
           ok == swj[j].fresh => replacement_check(on, m)
<1>0. swj[j].at = "verify" /\ swj[j].at \in Working /\ SwitchCalm
  BY DEF verify_install_disables, AtSwitch, Working
<1>1. "refresh" \in Places /\ "restore" \in Places
  BY DEF Places, Working
<1>2. on = mods.on /\ m \in mods.present \cap mods.on /\ "core" \notin mods.on
  BY <1>0, AtWork DEF HolderInv
<1>3. CASE ok /\ Flags(on) /\ MoveTo(j, "refresh")
  <2>1. swj[j].fresh => mods.present \cap mods.on = {m}
    BY <1>0, <1>2, <1>3, AtWork DEF replacement_check, replacements_of, Modules
  <2>2. mods' \in ModState /\ mods'.present = mods.present /\ mods'.on = mods.on /\ mods'.lock = j
        /\ mods'.edited = mods.edited
    BY <1>0, <1>2, <1>3, AtWork DEF ModState, Flags
  <2>3. PICK y : /\ Becomes(j, y) /\ SamePlan(swj[j], y)
                 /\ y.at = "refresh" /\ y.rec = swj[j].rec /\ y.did = swj[j].did
    BY <1>0, <1>1, <1>3, AtWork, MovedRow
  <2>4. PlaceInv(y) /\ y.at \in Working
    BY <1>0, <2>3, AtWork DEF PlaceInv, SamePlan, Working
  <2>5. HolderInv(y, mods'.present, mods'.on, mods'.edited)
    BY <1>0, <1>2, <2>1, <2>2, <2>3, AtWork DEF HolderInv, SamePlan
  <2> QED
    BY <1>0, <2>2, <2>3, <2>4, <2>5, InstallMoves
<1>4. CASE MoveTo(j, "restore") /\ UNCHANGED mods
  <2>1. PICK y : /\ Becomes(j, y) /\ SamePlan(swj[j], y)
                 /\ y.at = "restore" /\ y.rec = swj[j].rec /\ y.did = swj[j].did
    BY <1>0, <1>1, <1>4, AtWork, MovedRow
  <2>2. PlaceInv(y) /\ y.at \in Working
    BY <1>0, <2>1, AtWork DEF PlaceInv, SamePlan, Working
  <2>3. HolderInv(y, mods'.present, mods'.on, mods'.edited)
    BY <1>0, <1>4, <2>1, AtWork DEF HolderInv, SamePlan
  <2> QED
    BY <1>0, <1>4, <2>1, <2>2, <2>3, AtWork, InstallMoves
<1> QED
  BY <1>3, <1>4 DEF verify_install_disables

LEMMA RefreshKeeps == ASSUME SwitchInv, NEW j \in Jobs, InstallRefresh(j) PROVE SwitchInv'
<1>0. swj[j].at = "refresh" /\ swj[j].at \in Working
  BY DEF InstallRefresh, AtSwitch, Working
<1>1. "restore" \in Places
  BY DEF Places, Working
<1>2. CASE SwitchCalm /\ Ends(j, "succeeded") /\ Frees(mods.on)
  BY <1>0, <1>2, RefuseKeeps DEF Records
<1>3. CASE SwitchSpend("fault") /\ MoveTo(j, "restore") /\ UNCHANGED mods
  <2>1. PICK y : /\ Becomes(j, y) /\ SamePlan(swj[j], y)
                 /\ y.at = "restore" /\ y.rec = swj[j].rec /\ y.did = swj[j].did
    BY <1>0, <1>1, <1>3, AtWork, MovedRow
  <2>2. PlaceInv(y) /\ y.at \in Working
    BY <1>0, <2>1, AtWork DEF PlaceInv, SamePlan, Working
  <2>3. HolderInv(y, mods'.present, mods'.on, mods'.edited)
    BY <1>0, <1>3, <2>1, AtWork DEF HolderInv, SamePlan
  <2> QED
    BY <1>0, <1>3, <2>1, <2>2, <2>3, AtWork, InstallMoves
<1> QED
  BY <1>2, <1>3 DEF InstallRefresh

LEMMA RestoreKeeps == ASSUME SwitchInv, NEW j \in Jobs, restore_modules(j) PROVE SwitchInv'
<1> DEFINE back == IF swj[j].fresh THEN mods.present \ {swj[j].mod} ELSE mods.present
<1>0. swj[j].at = "restore" /\ swj[j].at \in Working /\ SwitchCalm /\ Ends(j, "failed")
  BY DEF restore_modules, AtSwitch, Working
<1>1. back \in SUBSET Modules /\ (~mods.edited => ~Clash(back, swj[j].was))
  BY <1>0, AtWork DEF HolderInv
<1>2. mods' = [mods EXCEPT !.lock = Unlocked, !.on = swj[j].was, !.present = back]
  BY DEF restore_modules
<1> HIDE DEF back
<1>3. mods' \in ModState /\ mods'.present = back /\ mods'.on = swj[j].was /\ mods'.edited = mods.edited
  BY <1>0, <1>1, <1>2, AtWork DEF ModState
<1> QED
  BY <1>0, <1>1, <1>3, EndKeeps DEF Records

LEMMA LegacyKeeps == ASSUME SwitchInv, NEW j \in Jobs, InstallLegacy(j) \/ LegacyTail(j) PROVE SwitchInv'
<1>1. CASE InstallLegacy(j)
  <2>0. /\ swj[j].at = "legacy" /\ swj[j].at \in Working /\ SwitchCalm /\ UNCHANGED mods
        /\ MoveTo(j, "shell") /\ "shell" \in Places
    BY <1>1 DEF InstallLegacy, AtSwitch, Working, Places
  <2>1. PICK y : /\ Becomes(j, y) /\ SamePlan(swj[j], y)
                 /\ y.at = "shell" /\ y.rec = swj[j].rec /\ y.did = swj[j].did
    BY <2>0, AtWork, MovedRow
  <2>2. PlaceInv(y) /\ y.at \in Working
    BY <2>0, <2>1, AtWork DEF PlaceInv, SamePlan, Working
  <2>3. HolderInv(y, mods'.present, mods'.on, mods'.edited)
    BY <2>0, <2>1, AtWork DEF HolderInv, SamePlan
  <2> QED
    BY <2>0, <2>1, <2>2, <2>3, AtWork, InstallMoves
<1>2. CASE LegacyTail(j)
  <2>1. swj[j].at \in Working /\ Frees(mods.on)
    BY <1>2 DEF LegacyTail, AtSwitch, Working
  <2>2. PICK r \in {"succeeded", "failed"} : Ends(j, r) /\ (SwitchCalm \/ SwitchSpend("fault"))
    BY <1>2 DEF LegacyTail
  <2> QED
    BY <2>1, <2>2, RefuseKeeps DEF Records
<1> QED
  BY <1>1, <1>2

----------------------------------------------------------------------------
(* A hand edit happens while nobody is under the lock. *)
LEMMA HandKeeps == ASSUME SwitchInv, HandEdit PROVE SwitchInv'
<1>1. PICK on \in SUBSET Modules : mods' = [mods EXCEPT !.edited = TRUE, !.on = on]
  BY DEF HandEdit, SwitchInv, SwitchTypes, ModState
<1>2. mods' \in ModState /\ mods'.edited
  BY <1>1 DEF SwitchInv, SwitchTypes, ModState
<1>3. SwitchTypes'
  BY <1>2, BudgetTypes DEF HandEdit, SwitchInv, SwitchTypes
<1>4. \A j \in Jobs : swj'[j].at \notin Working /\ PlaceInv(swj'[j])
  BY SwitchConstants DEF HandEdit, SwitchInv, OneModuleJob, Unlocked
<1> QED
  BY <1>2, <1>3, <1>4 DEF SwitchInv, OneModuleJob

(* Every step keeps the invariant, and it holds at the start. *)
LEMMA SwitchStep == SwitchInv /\ [NextSwitch]_switchVars => SwitchInv'
<1> SUFFICES ASSUME SwitchInv, [NextSwitch]_switchVars PROVE SwitchInv'
  OBVIOUS
<1>1. CASE UNCHANGED switchVars
  BY <1>1 DEF switchVars, SwitchInv, SwitchTypes, OneModuleJob
<1>2. CASE HandEdit
  BY <1>2, HandKeeps
<1>3. ASSUME NEW j \in Jobs, QueuePart(j) \/ SwitchPart(j) PROVE SwitchInv'
  BY <1>3, QueueKeeps, RunKeeps, EnableKeeps, DisableKeeps, SyncKeeps, RemoveKeeps, ForgetKeeps, FinishKeeps
  DEF SwitchPart
<1>4. ASSUME NEW j \in Jobs, InstallModulePart(j) \/ ModuleWorkerKilled(j) PROVE SwitchInv'
  BY <1>4, PrepareKeeps, ShellKeeps, VerifyKeeps, RefreshKeeps, RestoreKeeps, LegacyKeeps, KillKeeps
  DEF InstallModulePart
<1> QED
  BY <1>1, <1>2, <1>3, <1>4 DEF NextSwitch

LEMMA SwitchStart == InitSwitch => SwitchInv
<1> SUFFICES ASSUME InitSwitch PROVE SwitchInv
  OBVIOUS
<1>1. mods \in ModState
  BY DEF InitSwitch, ModState, Modules
<1>2. NoSwitch \in SwitchRows /\ NoSwitch.at = "none" /\ NoSwitch.rec = "none"
  BY DEF NoSwitch, SwitchRows, Places, Records, Modules
<1>3. \A j \in Jobs : swj[j] = NoSwitch
  BY DEF InitSwitch
<1>4. SwitchTypes
  BY <1>1, <1>2, SwitchConstants DEF SwitchTypes, InitSwitch
<1>5. \A j \in Jobs : PlaceInv(swj[j]) /\ swj[j].at \notin Working
  BY <1>2, <1>3 DEF PlaceInv, Working
<1>6. ~Clash(mods.present, mods.on)
  BY DEF InitSwitch, Clash
<1> QED
  BY <1>4, <1>5, <1>6 DEF SwitchInv, OneModuleJob

(* SwitchInv is kept, whatever the jobs, the replacements and the failures. *)
LEMMA SwitchAlways == SpecSwitch => []SwitchInv
<1> QED
  BY SwitchStart, SwitchStep, PTL DEF SpecSwitch

(* A replacement and its core module are never both enabled by the jobs of
   module_manager_v2.py and their root workers: a plan made on a stale state,
   a dispatch that times out, a failed step and a killed worker included.   *)
THEOREM ReplacementsExclude == SpecSwitch => []NeverBothEnabled
<1>1. SwitchInv => NeverBothEnabled
  BY DEF SwitchInv, NeverBothEnabled, Clash, conflicted_replacements, replacements_of
<1> QED
  BY <1>1, SwitchAlways, PTL

(* A record that leaves "running" is written by the holder of the lock, by one
   of the steps that end a job.                                             *)
LEMMA Reported ==
  ASSUME SwitchInv, [NextSwitch]_switchVars, NEW j \in Jobs, swj[j].rec = "running",
         swj'[j].rec \in {"succeeded", "failed"}
  PROVE  /\ swj[j].at \in Working
         /\ \/ apply_enable_job(j) \/ apply_disable_job(j) \/ sync_and_reload(j) \/ remove_extension(j)
            \/ RemoveFinish(j) \/ install_extension(j) \/ InstallRefresh(j) \/ restore_modules(j) \/ LegacyTail(j)
<1>1. \A i \in Jobs : swj[i] \in SwitchRows
  BY DEF SwitchInv, SwitchTypes
<1> DEFINE Only(i) == \A k \in Jobs \ {i} : swj'[k] = swj[k]
<1>2. swj'[j] # swj[j]
  OBVIOUS
<1>3. ASSUME NEW i \in Jobs, QueuePart(i) PROVE swj[i].at \in {"none", "plan", "claim", "start"} /\ Only(i)
  BY <1>3 DEF QueuePart, queue_enable, queue_disable, queue_remove, queue_v2_install, reconcile_conflicts,
     Plan, NextJob, AtSwitch, _queue_v2, claim_module_job, DispatchTimesOut, SwitchInv, SwitchTypes
<1>4. ASSUME NEW i \in Jobs, SwitchPart(i) PROVE Only(i)
  BY <1>4 DEF SwitchPart, run_module_job, RunModuleJobIf, apply_enable_job, EnableAndDisable, apply_disable_job,
     sync_and_reload, SyncOr, remove_extension, forget_module_state, RemoveFinish, Ends, MoveTo, SwitchInv, SwitchTypes
<1>5. ASSUME NEW i \in Jobs, InstallModulePart(i) PROVE Only(i)
  BY <1>5 DEF InstallModulePart, apply_install_prepare_disable, install_extension, verify_install_disables,
     InstallRefresh, restore_modules, InstallLegacy, LegacyTail, Ends, MoveTo, SwitchInv, SwitchTypes
<1>6. ASSUME NEW i \in Jobs, ModuleWorkerKilled(i) PROVE Only(i) /\ swj'[i].rec = swj[i].rec
  BY <1>6, <1>1 DEF ModuleWorkerKilled, MoveTo, SwitchInv, SwitchTypes, SwitchRows
<1>7. swj[j].at \notin {"none", "plan", "claim", "start"}
  BY DEF SwitchInv, PlaceInv
<1>8. SwitchPart(j) \/ InstallModulePart(j)
  BY <1>2, <1>3, <1>4, <1>5, <1>6, <1>7 DEF NextSwitch, HandEdit, switchVars
<1>9. ~run_module_job(j)
  BY <1>7 DEF run_module_job, RunModuleJobIf, AtSwitch
<1>10. ASSUME NEW p, MoveTo(j, p) PROVE FALSE
  BY <1>1, <1>10 DEF MoveTo, SwitchInv, SwitchTypes, SwitchRows
<1>11. ASSUME NEW p, NEW d, SetDone(j, p, d) PROVE FALSE
  BY <1>1, <1>11 DEF SetDone, SwitchInv, SwitchTypes, SwitchRows
<1>12. /\ ~forget_module_state(j) /\ ~verify_install_disables(j) /\ ~InstallLegacy(j)
  BY <1>10 DEF forget_module_state, verify_install_disables, InstallLegacy
<1>13. ~apply_install_prepare_disable(j)
  BY <1>10, <1>11 DEF apply_install_prepare_disable, SetDone
<1>14. \/ apply_enable_job(j) \/ apply_disable_job(j) \/ sync_and_reload(j) \/ remove_extension(j)
       \/ RemoveFinish(j) \/ install_extension(j) \/ InstallRefresh(j) \/ restore_modules(j) \/ LegacyTail(j)
  BY <1>8, <1>9, <1>12, <1>13 DEF SwitchPart, InstallModulePart
<1> QED
  BY <1>14 DEF apply_enable_job, EnableAndDisable, apply_disable_job, sync_and_reload, SyncOr, remove_extension,
     RemoveFinish, install_extension, InstallRefresh, restore_modules, LegacyTail, AtSwitch, Working

(* How the record of a job under the lock changes. *)
LEMMA RecordOf ==
  ASSUME SwitchInv, NEW j \in Jobs
  PROVE  /\ \A r : Ends(j, r) => swj'[j].rec = r
         /\ \A p : MoveTo(j, p) => swj'[j].rec = swj[j].rec
         /\ \A p, d : SetDone(j, p, d) => swj'[j].rec = swj[j].rec
<1>1. swj[j] \in SwitchRows
  BY DEF SwitchInv, SwitchTypes
<1> QED
  BY <1>1 DEF Ends, MoveTo, SetDone, SwitchInv, SwitchTypes, SwitchRows

(* Success is reported from "sync" or "refresh" only, where the module is alone. *)
LEMMA WholeStep == SwitchInv /\ [NextSwitch]_switchVars => SwitchIsWhole
<1> SUFFICES ASSUME SwitchInv, [NextSwitch]_switchVars, NEW j \in Jobs,
                    swj[j].rec = "running", swj'[j].rec = "succeeded",
                    swj[j].kind = "enable" \/ (swj[j].kind = "install" /\ swj[j].fresh)
             PROVE  mods'.present \cap mods'.on = {swj[j].mod}
  BY DEF SwitchIsWhole
<1>0. swj[j].at \in Working
  BY Reported
<1>1. sync_and_reload(j) \/ InstallRefresh(j)
  <2>1. ~apply_enable_job(j) /\ ~apply_disable_job(j)
    BY RecordOf DEF apply_enable_job, EnableAndDisable, apply_disable_job, SetDone
  <2>2. ~remove_extension(j) /\ ~install_extension(j) /\ ~restore_modules(j)
    BY RecordOf DEF remove_extension, install_extension, restore_modules
  <2>3. ~RemoveFinish(j) /\ ~LegacyTail(j)
    BY <1>0, AtWork DEF RemoveFinish, LegacyTail, AtSwitch, PlaceInv
  <2> QED
    BY <2>1, <2>2, <2>3, Reported
<1>2. mods.present \cap mods.on = {swj[j].mod}
  BY <1>0, <1>1, AtWork DEF sync_and_reload, SyncOr, InstallRefresh, AtSwitch, HolderInv, PlaceInv
<1>3. Frees(mods.on)
  BY <1>1, RecordOf DEF sync_and_reload, SyncOr, InstallRefresh
<1> QED
  BY <1>0, <1>2, <1>3, AtWork DEF Frees, ModState

(* Failure after a switch is reported from "sync" or "restore" only. *)
LEMMA RestoredStep == SwitchInv /\ [NextSwitch]_switchVars => FailedSwitchRestores
<1> SUFFICES ASSUME SwitchInv, [NextSwitch]_switchVars, NEW j \in Jobs,
                    swj[j].rec = "running", swj'[j].rec = "failed", swLeft.fault < 2,
                    \/ swj[j].kind = "install"
                    \/ swj[j].kind \in {"enable", "disable"} /\ swj[j].did # {}
             PROVE  /\ mods'.on = swj[j].was
                    /\ swj[j].kind = "install" /\ swj[j].fresh => swj[j].mod \notin mods'.present
  BY DEF FailedSwitchRestores
<1>0. swj[j].at \in Working
  BY Reported
<1>1. sync_and_reload(j) \/ restore_modules(j)
  <2>1. ~apply_enable_job(j) /\ ~apply_disable_job(j)
    BY <1>0, AtWork DEF apply_enable_job, EnableAndDisable, apply_disable_job, AtSwitch, PlaceInv
  <2>2. ~remove_extension(j) /\ ~RemoveFinish(j) /\ ~LegacyTail(j)
    BY <1>0, AtWork DEF remove_extension, RemoveFinish, LegacyTail, AtSwitch, PlaceInv
  <2>3. ~install_extension(j) /\ ~InstallRefresh(j)
    BY <1>0, AtWork, RecordOf DEF install_extension, InstallRefresh, AtSwitch, PlaceInv
  <2> QED
    BY <2>1, <2>2, <2>3, Reported
<1>2. CASE sync_and_reload(j)
  <2>1. swj[j].kind # "install" /\ swj[j].did # {}
    BY <1>0, <1>2, AtWork DEF sync_and_reload, SyncOr, AtSwitch, PlaceInv
  <2>2. SwitchSpend("fault") /\ (Frees(swj[j].was) \/ swLeft'.fault > 0)
    BY <1>2, <2>1, RecordOf DEF sync_and_reload, SyncOr
  <2>3. ~(swLeft'.fault > 0)
    BY <2>2 DEF SwitchSpend, SwitchInv, SwitchTypes
  <2> QED
    BY <1>0, <2>1, <2>2, <2>3, AtWork DEF Frees, ModState
<1>3. CASE restore_modules(j)
  BY <1>0, <1>3, AtWork DEF restore_modules, ModState
<1> QED
  BY <1>1, <1>2, <1>3

(* An enable job, or the job of a first install, that reports success leaves
   its module the only enabled one of core and its replacements; a job that
   switched or installed a module and reports failure has put every flag and
   module back, unless putting them back failed too.                        *)
THEOREM SwitchReportsAreTrue == SpecSwitch => SwitchIsTrue
<1>1. SwitchInv /\ [NextSwitch]_switchVars => [SwitchIsWhole /\ FailedSwitchRestores]_switchVars
  BY WholeStep, RestoredStep
<1> QED
  BY <1>1, SwitchAlways, PTL DEF SpecSwitch, SwitchIsTrue

----------------------------------------------------------------------------
(* The registry of actions.                                                 *)

(* What each place of the root module job relies on: a manifest entry is
   written for a package that declares the action plain, after its bytes were
   copied; a removal takes the package first, then the entry, then the bytes. *)
RegistryInv ==
  /\ ActionsTypeOK
  /\ entry.by = "manifest" => entry.version \in Packages /\ Declares[entry.version] = "plain"
  /\ registrar \in {"register", "write", "sweep"} => installed # 0
  /\ registrar \in {"write", "sweep"} /\ Staged => bytes = installed
  /\ registrar = "sweep" /\ entry.by = "manifest" /\ Staged => entry.version = installed
  /\ registrar \in {"unregister", "folder"} => installed = 0
  /\ registrar = "folder" => entry.by # "manifest"
  /\ registrar = "idle" /\ installed = 0 => bytes = 0
  /\ RegistryMatchesPackage

(* Every step of the registry keeps its invariant. *)
LEMMA RegistryStep == ASSUME RegistryInv, NextActions PROVE RegistryInv'
<1> USE ServerActionsConstants
<1>0. /\ installed \in Packages \cup {0} /\ entry \in Entries /\ bytes \in Packages \cup {0}
      /\ registrar \in {"idle", "died", "register", "write", "sweep", "unregister", "folder"}
      /\ 0 \notin Packages
  BY DEF RegistryInv, ActionsTypeOK
<1>1. ASSUME NEW v \in Packages, InstallModule(v) PROVE RegistryInv'
  BY <1>0, <1>1 DEF RegistryInv, ActionsTypeOK, InstallModule, RegistryMatchesPackage
<1>2. CASE RemoveModule
  BY <1>0, <1>2 DEF RegistryInv, ActionsTypeOK, RemoveModule, RegistryMatchesPackage
<1>3. CASE RegisterCopy
  BY <1>0, <1>3 DEF RegistryInv, ActionsTypeOK, RegisterCopy, RegistryMatchesPackage, Staged
<1>4. CASE RegisterWrite
  <2>1. CASE Staged
    <3>1. entry' = [by |-> "manifest", version |-> installed, enabled |-> TRUE] /\ installed \in Packages
      BY <1>0, <1>4, <2>1 DEF RegisterWrite, RegistryInv
    <3>2. entry' \in Entries /\ entry'.version = installed
      BY <3>1 DEF Entries
    <3> QED
      BY <1>0, <1>4, <2>1, <3>1, <3>2 DEF RegistryInv, ActionsTypeOK, RegisterWrite, RegistryMatchesPackage, Staged
  <2>2. CASE ~Staged
    BY <1>0, <1>4, <2>2 DEF RegistryInv, ActionsTypeOK, RegisterWrite, RegistryMatchesPackage, Staged
  <2> QED
    BY <2>1, <2>2
<1>5. NoEntry \in Entries /\ NoEntry.by = "none"
  BY DEF NoEntry, Entries
<1>6. CASE RegisterSweep
  BY <1>0, <1>5, <1>6 DEF RegistryInv, ActionsTypeOK, RegisterSweep, RegistryMatchesPackage, Staged
<1>7. CASE UnregisterEntries
  <2>1. [entry EXCEPT !.enabled = FALSE] \in Entries /\ [entry EXCEPT !.enabled = FALSE].by = entry.by
    BY <1>0 DEF Entries
  <2> QED
    BY <1>0, <1>5, <1>7, <2>1 DEF RegistryInv, ActionsTypeOK, UnregisterEntries, RegistryMatchesPackage
<1>8. CASE UnregisterFolder
  BY <1>0, <1>8 DEF RegistryInv, ActionsTypeOK, UnregisterFolder, RegistryMatchesPackage
<1>9. CASE RegistrarDies
  BY <1>0, <1>9 DEF RegistryInv, ActionsTypeOK, RegistrarDies, RegistryMatchesPackage
<1>10. CASE HandRegister
  <2>1. entry' \in Entries /\ entry'.by = "hand" /\ installed \in Packages
    BY <1>0, <1>10 DEF HandRegister, Entries
  <2> QED
    BY <1>0, <1>10, <2>1 DEF RegistryInv, ActionsTypeOK, HandRegister, RegistryMatchesPackage, Between
<1>11. CASE HandUnregister
  BY <1>0, <1>5, <1>11 DEF RegistryInv, ActionsTypeOK, HandUnregister, RegistryMatchesPackage, Staged
<1> QED
  BY <1>1, <1>2, <1>3, <1>4, <1>6, <1>7, <1>8, <1>9, <1>10, <1>11 DEF NextActions, RegistrarStep

(* The helper never runs as root what nobody allowed: a manifest entry that
   can be used is the executable of a package that declares it plain, and
   after a removal there is none, wherever root module jobs die, for any
   packages (load_registered_action, register_module, unregister_module).   *)
THEOREM UsableIsDeclared == SpecActions => []RegistryIsSafe
<1>1. InitActions => RegistryInv
  <2>1. NoEntry \in Entries /\ NoEntry.by = "none"
    BY DEF NoEntry, Entries
  <2> QED
    BY <2>1 DEF InitActions, RegistryInv, ActionsTypeOK, RegistryMatchesPackage
<1>2. RegistryInv /\ UNCHANGED actionVars => RegistryInv'
  BY DEF RegistryInv, ActionsTypeOK, RegistryMatchesPackage, actionVars, Staged
<1>3. RegistryInv => RegistryIsSafe
  BY DEF RegistryInv, RegistryIsSafe, ProtectedNeedsHand, RemovedIsUnusable, load_registered_action,
         verify_registered_executable_hash, validate_executable
<1> QED
  BY <1>1, <1>2, <1>3, RegistryStep, PTL DEF SpecActions
=============================================================================
