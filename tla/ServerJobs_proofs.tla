-------------------------- MODULE ServerJobs_proofs --------------------------
(* Server-maintenance jobs and the hand-over of their results, for every      *)
(* number of jobs, processes, revisions and faults.                           *)
EXTENDS ServerMaintenance, ServerJobHooks, TLAPS

(* How far a worker is decides what its unit, its child and the lock are; a
   job reported cancelled has a worker that will not start anything again.   *)
JobInv(s) ==
  /\ s.run \notin {"idle", "over"} => s.unit = "active"
  /\ s.run \in {"idle", "loaded", "waiting", "locked", "begun"} => s.child = "none"
  /\ s.child = "alive" => s.run = "executing"
  /\ s.cancel = "stopped" => s.run = "over"
  /\ s.public.status = "cancelled" => s.run = "over"
  /\ s.public.status = "succeeded" => s.child = "succeeds"

Locks(s) == s.run \in {"locked", "begun", "executing"}

ServerInv ==
  /\ ServerTypeOK
  /\ \A j \in ServerJobs : JobInv(srv[j])
  /\ \A j \in ServerJobs : Locks(srv[j]) => lock = j

----------------------------------------------------------------------------
(* The hand-over.                                                            *)

(* The tick that claimed a job and has not recorded its end yet. *)
Claims(v, j) == v.job = j /\ v.step \in {"publish", "skip", "record"}

VisitTypes ==
  [job : HookJobs \cup {"none"}, status : HookTerminal \cup {"none"},
   step : {"idle", "owner", "claim", "claim_skip", "publish", "skip", "record"},
   outcome : {"none", "queued", "disabled", "error"}]

HookTypes ==
  /\ hook \in [HookJobs -> [state : HookStates, attempts : Nat]]
  /\ visit \in [Cores -> VisitTypes]
  /\ \A c \in Cores : visit[c].step # "idle" => visit[c].job \in HookJobs
  /\ stored \in [HookJobs -> Seq(HookTerminal \cup {"none"})]

OneClaim == \A j \in HookJobs : \A c, d \in Cores : Claims(visit[c], j) /\ Claims(visit[d], j) => c = d

ClaimIsTaken ==
  \A j \in HookJobs, c \in Cores : Claims(visit[c], j) => hook[j].state \in {"claiming", "abandoned", "ignored"}

(* Once an event is stored nobody may claim the job again, and whoever still
   has it claimed is about to record that it was stored.                     *)
StoredIsSettled ==
  \A j \in HookJobs :
    \/ stored[j] = <<>>
    \/ /\ Len(stored[j]) = 1 /\ hook[j].state \notin {"none", "retry"}
       /\ \A c \in Cores : Claims(visit[c], j) => visit[c].step = "record" /\ visit[c].outcome = "queued"

HookInv == HookTypes /\ OneClaim /\ ClaimIsTaken /\ StoredIsSettled

LEMMA NoVisitIsIdle == NoVisit \in VisitTypes /\ NoVisit.step = "idle"
BY DEF NoVisit, VisitTypes

(* A tick leaves its visit, or goes on with nothing claimed: rows that lose
   no claim stay settled.                                                    *)
Loosens(c, new) ==
  /\ visit' = [visit EXCEPT ![c] = new] /\ new \in VisitTypes
  /\ new.step # "idle" => new.job \in HookJobs
  /\ new.step \notin {"publish", "skip", "record"}

LEMMA LoosenedVisit ==
  ASSUME HookInv, NEW c \in Cores, NEW new, Loosens(c, new),
         hook' \in [HookJobs -> [state : HookStates, attempts : Nat]], UNCHANGED stored,
         \A j \in HookJobs : \/ hook'[j].state = hook[j].state
                             \/ hook'[j].state \in {"abandoned", "ignored"}
                             \/ /\ Claims(visit[c], j)
                                /\ stored[j] # <<>> => hook'[j].state \notin {"none", "retry"}
  PROVE  HookInv'
<1> USE DEF HookInv, Loosens
<1>1. /\ visit'[c] = new /\ visit' \in [Cores -> VisitTypes]
      /\ \A d \in Cores \ {c} : visit'[d] = visit[d]
  BY DEF HookTypes
<1>2. HookTypes'
  BY <1>1 DEF HookTypes
<1>3. \A j \in HookJobs, d \in Cores : Claims(visit'[d], j) => d # c /\ Claims(visit[d], j) /\ visit'[d] = visit[d]
  BY <1>1 DEF Claims
<1>4. OneClaim'
  BY <1>3 DEF OneClaim
<1>5. ClaimIsTaken'
  BY <1>3 DEF ClaimIsTaken, OneClaim
<1>6. StoredIsSettled'
  BY <1>3 DEF StoredIsSettled, HookTypes
<1> QED
  BY <1>2, <1>4, <1>5, <1>6

LEMMA SetState ==
  ASSUME HookTypes, NEW j \in HookJobs, NEW st \in HookStates, set_state(j, st)
  PROVE  /\ hook' \in [HookJobs -> [state : HookStates, attempts : Nat]]
         /\ hook'[j].state = st
         /\ \A k \in HookJobs \ {j} : hook'[k] = hook[k]
BY DEF HookTypes, set_state

LEMMA HandOverSteps ==
  ASSUME HookInv, NEW c \in Cores, VisitStep(c)
  PROVE  HookInv'
<1>0. /\ HookTypes /\ visit[c] \in VisitTypes /\ visit \in [Cores -> VisitTypes]
      /\ (visit[c].step # "idle" => visit[c].job \in HookJobs)
  BY DEF HookInv, HookTypes
<1> DEFINE j == visit[c].job
<1>1. CASE TickOwner(c)
  <2>0. visit[c].step = "owner" /\ j \in HookJobs /\ UNCHANGED stored
    BY <1>0, <1>1 DEF TickOwner
  <2>1. CASE set_state(j, "ignored") /\ Leave(c)
    <3>1. Loosens(c, NoVisit)
      BY <2>1, NoVisitIsIdle DEF Loosens, Leave
    <3>2. /\ hook' \in [HookJobs -> [state : HookStates, attempts : Nat]]
          /\ \A k \in HookJobs : hook'[k].state = hook[k].state \/ hook'[k].state = "ignored"
      BY <1>0, <2>0, <2>1, SetState DEF HookStates
    <3> QED
      BY <2>0, <3>1, <3>2, LoosenedVisit
  <2>2. CASE Leave(c) /\ UNCHANGED hook
    <3>1. Loosens(c, NoVisit)
      BY <2>2, NoVisitIsIdle DEF Loosens, Leave
    <3> QED
      BY <1>0, <2>0, <2>2, <3>1, LoosenedVisit DEF HookTypes
  <2>3. ASSUME NEW step \in {"claim", "claim_skip"}, HookGoes(c, step), UNCHANGED hook PROVE HookInv'
    <3> DEFINE new == [visit[c] EXCEPT !.step = step]
    <3>1. visit' = [visit EXCEPT ![c] = new]
      BY <1>0, <2>3 DEF HookGoes
    <3>2. new \in VisitTypes /\ new.step = step /\ new.job = visit[c].job
      BY <1>0 DEF VisitTypes
    <3> HIDE DEF new
    <3>3. Loosens(c, new)
      BY <2>0, <3>1, <3>2 DEF Loosens
    <3> QED
      BY <1>0, <2>0, <2>3, <3>3, LoosenedVisit DEF HookTypes
  <2> QED
    BY <1>1, <2>1, <2>2, <2>3 DEF TickOwner
<1>2. CASE claim(c)
  <2>0. visit[c].step \in {"claim", "claim_skip"} /\ j \in HookJobs /\ UNCHANGED stored
    BY <1>0, <1>2 DEF claim, ClaimFrom
  <2>1. CASE UNCHANGED hook /\ Leave(c)
    <3>1. Loosens(c, NoVisit)
      BY <2>1, NoVisitIsIdle DEF Loosens, Leave
    <3> QED
      BY <1>0, <2>0, <2>1, <3>1, LoosenedVisit DEF HookTypes
  <2>2. ASSUME NEW step \in {"publish", "skip"}, HookGoes(c, step), hook[j].state \in {"none", "retry"},
               hook' = [hook EXCEPT ![j] = [state |-> "claiming", attempts |-> @.attempts + 1]]
        PROVE  HookInv'
    <3> DEFINE new == [visit[c] EXCEPT !.step = step]
    <3>1. visit' = [visit EXCEPT ![c] = new]
      BY <1>0, <2>2 DEF HookGoes
    <3>2. new \in VisitTypes /\ new.step = step /\ new.job = j
      BY <1>0 DEF VisitTypes
    <3> HIDE DEF new
    <3>3. /\ visit'[c] = new /\ visit' \in [Cores -> VisitTypes]
          /\ \A d \in Cores \ {c} : visit'[d] = visit[d]
      BY <1>0, <3>1, <3>2
    <3>4. /\ hook'[j].state = "claiming" /\ hook' \in [HookJobs -> [state : HookStates, attempts : Nat]]
          /\ \A k \in HookJobs \ {j} : hook'[k] = hook[k]
      BY <1>0, <2>0, <2>2 DEF HookTypes, HookStates
    <3>5. HookTypes'
      BY <1>0, <2>0, <3>2, <3>3, <3>4 DEF HookTypes
    <3>6. stored[j] = <<>> /\ \A d \in Cores : ~Claims(visit[d], j)
      BY <2>0, <2>2 DEF HookInv, StoredIsSettled, ClaimIsTaken
    <3>7. \A k \in HookJobs, d \in Cores : Claims(visit'[d], k) => IF d = c THEN k = j ELSE Claims(visit[d], k) /\ k # j
      BY <3>2, <3>3, <3>6 DEF Claims
    <3>8. OneClaim' /\ ClaimIsTaken'
      BY <3>4, <3>7 DEF HookInv, OneClaim, ClaimIsTaken
    <3>9. StoredIsSettled'
      BY <2>0, <3>3, <3>4, <3>6, <3>7 DEF HookInv, StoredIsSettled
    <3> QED
      BY <3>5, <3>8, <3>9 DEF HookInv
  <2> QED
    BY <1>2, <2>0, <2>1, <2>2 DEF claim, ClaimFrom
<1>3. CASE TickSkip(c) \/ TickRecord(c)
  <2>0. visit[c].step \in {"skip", "record"} /\ j \in HookJobs /\ UNCHANGED stored /\ Leave(c)
    BY <1>0, <1>3 DEF TickSkip, TickRecord
  <2>1. PICK st \in HookStates :
          /\ set_state(j, st)
          /\ stored[j] # <<>> => st = "queued"
    <3>1. stored[j] # <<>> => visit[c].step = "record" /\ visit[c].outcome = "queued"
      BY <2>0 DEF HookInv, StoredIsSettled, Claims
    <3>2. CASE TickSkip(c)
      <4>1. visit[c].step = "skip" /\ set_state(j, "skipped")
        BY <3>2 DEF TickSkip
      <4> QED
        BY <3>1, <4>1 DEF HookStates
    <3>3. CASE TickRecord(c)
      <4> DEFINE end == CASE visit[c].outcome = "queued" -> "queued"
                          [] visit[c].outcome = "disabled" -> "skipped"
                          [] OTHER -> IF hook[j].attempts >= MaxHookAttempts THEN "abandoned" ELSE "retry"
      <4>1. set_state(j, end)
        BY <3>3 DEF TickRecord
      <4>2. end \in {"queued", "skipped", "abandoned", "retry"} /\ (visit[c].outcome = "queued" => end = "queued")
        OBVIOUS
      <4> HIDE DEF end
      <4> QED
        BY <3>1, <4>1, <4>2 DEF HookStates
    <3> QED
      BY <1>3, <3>2, <3>3
  <2>2. Loosens(c, NoVisit)
    BY <2>0, NoVisitIsIdle DEF Loosens, Leave
  <2>3. Claims(visit[c], j)
    BY <2>0 DEF Claims
  <2>4. /\ hook' \in [HookJobs -> [state : HookStates, attempts : Nat]]
        /\ hook'[j].state = st
        /\ \A k \in HookJobs \ {j} : hook'[k] = hook[k]
    BY <1>0, <2>0, <2>1, SetState
  <2> HIDE DEF j
  <2> QED
    BY <2>0, <2>1, <2>2, <2>3, <2>4, LoosenedVisit
<1>4. CASE TickPublish(c)
  <2>0. visit[c].step = "publish" /\ j \in HookJobs /\ UNCHANGED hook
    BY <1>0, <1>4 DEF TickPublish
  <2>1. Claims(visit[c], j)
    BY <2>0 DEF Claims
  <2>2. stored[j] = <<>>
    BY <2>0, <2>1 DEF HookInv, StoredIsSettled
  <2>3. PICK outcome \in {"queued", "disabled", "error"} :
          /\ visit' = [visit EXCEPT ![c].step = "record", ![c].outcome = outcome]
          /\ \/ stored' = stored
             \/ outcome = "queued" /\ stored' = [stored EXCEPT ![j] = Append(@, visit[c].status)]
    BY <1>4 DEF TickPublish
  <2> DEFINE new == [visit[c] EXCEPT !.step = "record", !.outcome = outcome]
  <2>4. visit' = [visit EXCEPT ![c] = new]
    BY <1>0, <2>3
  <2>5. /\ new \in VisitTypes /\ new.step = "record" /\ new.outcome = outcome /\ new.job = j
        /\ visit[c].status \in HookTerminal \cup {"none"}
    BY <1>0 DEF VisitTypes
  <2> HIDE DEF new, j
  <2>6. /\ visit'[c] = new /\ visit' \in [Cores -> VisitTypes]
        /\ \A d \in Cores \ {c} : visit'[d] = visit[d]
    BY <1>0, <2>4, <2>5
  <2>7. /\ stored' \in [HookJobs -> Seq(HookTerminal \cup {"none"})]
        /\ \A k \in HookJobs \ {j} : stored'[k] = stored[k]
        /\ stored'[j] = <<>> \/ (Len(stored'[j]) = 1 /\ outcome = "queued")
    <3> DEFINE S == HookTerminal \cup {"none"}
               more == Append(stored[j], visit[c].status)
    <3>1. stored \in [HookJobs -> Seq(S)] /\ stored[j] \in Seq(S) /\ visit[c].status \in S
      BY <1>0, <2>0, <2>5 DEF HookTypes
    <3> HIDE DEF S
    <3>2. more \in Seq(S) /\ Len(more) = Len(stored[j]) + 1
      BY <3>1
    <3>3. Len(more) = 1
      BY <2>2, <3>2
    <3>4. stored' = stored \/ (outcome = "queued" /\ stored' = [stored EXCEPT ![j] = more])
      BY <2>3
    <3> HIDE DEF more
    <3>5. stored' \in [HookJobs -> Seq(S)]
      BY <3>1, <3>2, <3>4
    <3> QED
      BY <2>0, <2>2, <3>1, <3>3, <3>4, <3>5 DEF S
  <2>8. HookTypes'
    BY <1>0, <2>0, <2>5, <2>6, <2>7 DEF HookTypes
  <2>9. \A k \in HookJobs, d \in Cores : Claims(visit'[d], k) => Claims(visit[d], k)
    BY <2>1, <2>5, <2>6 DEF Claims
  <2>10. OneClaim' /\ ClaimIsTaken'
    BY <2>0, <2>9 DEF HookInv, OneClaim, ClaimIsTaken
  <2>11. StoredIsSettled'
    <3> SUFFICES ASSUME NEW k \in HookJobs
                 PROVE  \/ stored'[k] = <<>>
                        \/ /\ Len(stored'[k]) = 1 /\ hook'[k].state \notin {"none", "retry"}
                           /\ \A d \in Cores : Claims(visit'[d], k) =>
                                                 visit'[d].step = "record" /\ visit'[d].outcome = "queued"
      BY DEF StoredIsSettled
    <3>1. CASE k = j
      <4>1. hook'[j].state \notin {"none", "retry"}
        BY <2>0, <2>1 DEF HookInv, ClaimIsTaken
      <4>2. \A d \in Cores : Claims(visit'[d], j) => d = c
        BY <2>0, <2>1, <2>9 DEF HookInv, OneClaim
      <4> QED
        BY <2>5, <2>6, <2>7, <3>1, <4>1, <4>2
    <3>2. CASE k # j
      <4>1. \A d \in Cores : Claims(visit'[d], k) => visit'[d] = visit[d] /\ Claims(visit[d], k)
        BY <2>5, <2>6, <3>2 DEF Claims
      <4> QED
        BY <2>0, <2>7, <3>2, <4>1 DEF HookInv, StoredIsSettled
    <3> QED
      BY <3>1, <3>2
  <2> QED
    BY <2>8, <2>10, <2>11 DEF HookInv
<1> QED
  BY <1>1, <1>2, <1>3, <1>4 DEF VisitStep

LEMMA OtherHookSteps ==
  ASSUME HookInv,
         \/ \E c \in Cores : TickDies(c) \/ \E j \in HookJobs : TickStep(c, j)
         \/ \E j \in HookJobs : expire_stale_claims(j) \/ Ages(j) \/ FileWritten(j)
         \/ ModuleChanges
         \/ UNCHANGED hookVars
  PROVE  HookInv'
<1>0. HookTypes
  BY DEF HookInv
<1>1. ASSUME NEW c \in Cores, TickDies(c) PROVE HookInv'
  <2>1. Loosens(c, NoVisit) /\ UNCHANGED <<hook, stored>>
    BY <1>1, NoVisitIsIdle DEF TickDies, Loosens, Leave
  <2> QED
    BY <1>0, <2>1, LoosenedVisit DEF HookTypes
<1>2. CASE UNCHANGED <<hook, visit, stored>>
  BY <1>2 DEF HookInv, HookTypes, OneClaim, ClaimIsTaken, StoredIsSettled
<1>3. ASSUME NEW c \in Cores, NEW j \in HookJobs, TickStep(c, j) PROVE HookInv'
  <2> DEFINE new == [job |-> j, step |-> "owner", status |-> file[j].status, outcome |-> "none"]
  <2>1. /\ UNCHANGED <<hook, stored>>
        /\ visit' = visit \/ (file[j].status \in HookTerminal /\ visit' = [visit EXCEPT ![c] = new])
    BY <1>3 DEF TickStep, TickSkips, SkipsBy, TickReads
  <2>2. file[j].status \in HookTerminal => new \in VisitTypes /\ new.step = "owner" /\ new.job = j
    BY DEF VisitTypes
  <2> HIDE DEF new
  <2>3. CASE file[j].status \in HookTerminal /\ visit' = [visit EXCEPT ![c] = new]
    <3>1. Loosens(c, new)
      BY <2>2, <2>3 DEF Loosens
    <3> QED
      BY <1>0, <2>1, <3>1, LoosenedVisit DEF HookTypes
  <2> QED
    BY <1>2, <2>1, <2>3
<1>4. ASSUME NEW j \in HookJobs, expire_stale_claims(j) PROVE HookInv'
  <2>1. set_state(j, "abandoned") /\ UNCHANGED <<visit, stored>>
    BY <1>4 DEF expire_stale_claims
  <2>2. /\ hook' \in [HookJobs -> [state : HookStates, attempts : Nat]]
        /\ hook'[j].state = "abandoned"
        /\ \A k \in HookJobs \ {j} : hook'[k] = hook[k]
    BY <1>0, <2>1, SetState DEF HookStates
  <2> QED
    BY <2>1, <2>2 DEF HookInv, HookTypes, OneClaim, ClaimIsTaken, StoredIsSettled
<1>5. ASSUME NEW j \in HookJobs, Ages(j) PROVE HookInv'
  <2>1. set_state(j, "old") /\ UNCHANGED <<visit, stored>> /\ \A c \in Cores : ~Claims(visit[c], j)
    BY <1>5 DEF Ages, AtRest, Claims
  <2>2. /\ hook' \in [HookJobs -> [state : HookStates, attempts : Nat]]
        /\ hook'[j].state = "old"
        /\ \A k \in HookJobs \ {j} : hook'[k] = hook[k]
    BY <1>0, <2>1, SetState DEF HookStates
  <2> QED
    BY <2>1, <2>2 DEF HookInv, HookTypes, OneClaim, ClaimIsTaken, StoredIsSettled
<1> QED
  BY <1>1, <1>2, <1>3, <1>4, <1>5 DEF FileWritten, ModuleChanges, hookVars

(* A finished job is told to its module once (_claim, _expire_stale_claims):
   for every number of jobs and of Core processes, and whatever ticks die,
   are slow, find the module switched off or meet a full store, the scheduler
   stores at most one event for a server-maintenance job.                    *)
THEOREM ResultsAreToldOnce == SpecHooks => []HandedOverOnce
<1>1. InitHooks => HookInv
  <2> SUFFICES ASSUME InitHooks PROVE HookInv
    OBVIOUS
  <2>1. /\ hook \in [HookJobs -> [state : HookStates, attempts : Nat]]
        /\ stored \in [HookJobs -> Seq(HookTerminal \cup {"none"})]
    BY DEF InitHooks, HookStates
  <2>2. \A c \in Cores : visit[c] = NoVisit
    BY DEF InitHooks
  <2>3. visit \in [Cores -> VisitTypes]
    BY NoVisitIsIdle DEF InitHooks
  <2>4. \A j \in HookJobs : stored[j] = <<>>
    BY DEF InitHooks
  <2> QED
    BY <2>1, <2>2, <2>3, <2>4, NoVisitIsIdle
    DEF HookInv, HookTypes, OneClaim, ClaimIsTaken, StoredIsSettled, Claims
<1>2. HookInv /\ [NextHooks]_hookVars => HookInv'
  BY HandOverSteps, OtherHookSteps DEF NextHooks
<1>3. HookInv => HandedOverOnce
  <2> SUFFICES ASSUME HookInv, NEW j \in HookJobs PROVE Len(stored[j]) <= 1
    BY DEF HandedOverOnce
  <2>1. stored[j] = <<>> \/ Len(stored[j]) = 1
    BY DEF HookInv, StoredIsSettled
  <2>2. CASE stored[j] = <<>>
    BY <2>2
  <2>3. CASE Len(stored[j]) = 1
    <3>1. 1 <= 1
      OBVIOUS
    <3> QED
      BY ONLY <2>3, <3>1
  <2> QED
    BY ONLY <2>1, <2>2, <2>3
<1> QED
  BY <1>1, <1>2, <1>3, PTL DEF SpecHooks

----------------------------------------------------------------------------
(* The jobs themselves.                                                      *)

(* One job's files and processes change, and the lock is kept, released by the
   job that holds it, or taken when it is free.                              *)
JobMoves(j, new) ==
  /\ srv' = [srv EXCEPT ![j] = new]
  /\ new \in ServerJobStates /\ JobInv(new)
  /\ Locks(new) => lock' = j
  /\ lock' \in {lock, Freed(j)} \/ (lock = "free" /\ lock' = j)
  /\ UNCHANGED registered
  /\ srvLeft' \in [{"registry", "cancel", "fault"} -> Nat]

LEMMA JobMoveKeeps ==
  ASSUME ServerInv, NEW j \in ServerJobs, NEW new, JobMoves(j, new)
  PROVE  ServerInv'
<1>1. ServerTypeOK'
  BY DEF JobMoves, ServerInv, ServerTypeOK, Freed
<1>2. ASSUME NEW k \in ServerJobs PROVE JobInv(srv'[k]) /\ (Locks(srv'[k]) => lock' = k)
  <2>1. CASE k = j
    BY <2>1 DEF JobMoves, ServerInv, ServerTypeOK
  <2>2. CASE k # j
    <3>1. srv'[k] = srv[k]
      BY <2>2 DEF JobMoves, ServerInv, ServerTypeOK
    <3>2. lock = k => lock' = k
      BY <2>2, ServerConstants DEF JobMoves, Freed
    <3> QED
      BY <3>1, <3>2 DEF ServerInv
  <2> QED
    BY <2>1, <2>2
<1> QED
  BY <1>1, <1>2 DEF ServerInv

LEMMA Budget ==
  ASSUME srvLeft \in [{"registry", "cancel", "fault"} -> Nat],
         NoFault \/ ServerFault \/ SpendServer("cancel") \/ SpendServer("registry")
  PROVE  srvLeft' \in [{"registry", "cancel", "fault"} -> Nat]
BY DEF NoFault, ServerFault, SpendServer

(* A record with another status is a record. *)
LEMMA Recorded ==
  ASSUME NEW rec \in JobFiles, NEW status \in Statuses
  PROVE  As(rec, status) \in JobFiles /\ As(rec, status).status = status
BY DEF As, JobFiles

LEMMA FixedRecords ==
  /\ NoFile \in JobFiles /\ Queued \in JobFiles
  /\ NoFile.status = "none" /\ Queued.status = "queued"
  /\ \A st \in Statuses, b \in BOOLEAN :
       [status |-> st, cancel |-> b] \in JobFiles /\ [status |-> st, cancel |-> b].status = st
BY DEF NoFile, Queued, JobFiles, Statuses, Terminal

(* Core and --dispatch: neither a child nor the lock is theirs to touch. *)
LEMMA CoreSteps ==
  ASSUME ServerInv, NEW j \in ServerJobs, CoreStep(j) \/ DispatchStep(j)
  PROVE  ServerInv'
<1> DEFINE s == srv[j]
<1>0. /\ s \in ServerJobStates /\ JobInv(s) /\ (Locks(s) => lock = j)
      /\ srv \in [ServerJobs -> ServerJobStates] /\ registered \in Revisions \cup {0}
      /\ srvLeft \in [{"registry", "cancel", "fault"} -> Nat]
  BY DEF ServerInv, ServerTypeOK
<1>s. Statuses = {"succeeded", "failed", "cancelled", "dispatch_failed", "none", "queued", "dispatched",
                  "waiting_for_lock", "running", "cancelling"}
  BY DEF Statuses, Terminal
<1>1. CASE StartJob(j)
  <2> DEFINE new == [s EXCEPT !.public = Queued, !.made = registered, !.start = "dispatching"]
  <2>1. srv' = [srv EXCEPT ![j] = new] /\ UNCHANGED <<registered, lock>> /\ NoFault
    BY <1>0, <1>1 DEF StartJob
  <2>2. new \in ServerJobStates
    BY <1>0, FixedRecords DEF ServerJobStates
  <2>3. new.run = s.run /\ new.unit = s.unit /\ new.child = s.child /\ new.cancel = s.cancel /\ new.public = Queued
    BY <1>0 DEF ServerJobStates
  <2> HIDE DEF new
  <2>4. JobMoves(j, new)
    BY <1>0, <2>1, <2>2, <2>3, FixedRecords, Budget DEF JobMoves, JobInv, Locks
  <2> QED
    BY <2>4, JobMoveKeeps
<1>2. CASE StartReturns(j)
  <2> DEFINE new == [s EXCEPT !.start = "done"]
  <2>1. srv' = [srv EXCEPT ![j] = new] /\ UNCHANGED <<registered, lock>> /\ (NoFault \/ ServerFault \/ SpendServer("cancel"))
    BY <1>0, <1>2 DEF StartReturns
  <2>2. new \in ServerJobStates
    BY <1>0, FixedRecords DEF ServerJobStates
  <2>3. /\ new.run = s.run /\ new.child = s.child
        /\ new.unit = s.unit /\ new.cancel = s.cancel /\ new.public = s.public
    BY <1>0, <1>2, FixedRecords DEF ServerJobStates
  <2> HIDE DEF new
  <2>4. JobMoves(j, new)
    BY <1>0, <1>2, <2>1, <2>2, <2>3, Budget DEF JobMoves, JobInv, Locks, StartReturns
  <2> QED
    BY <2>4, JobMoveKeeps
<1>4. CASE CancelAsk(j)
  <2> DEFINE new == [s EXCEPT !.cancel = "asked"]
  <2>1. srv' = [srv EXCEPT ![j] = new] /\ UNCHANGED <<registered, lock>> /\ (NoFault \/ ServerFault \/ SpendServer("cancel"))
    BY <1>0, <1>4 DEF CancelAsk
  <2>2. new \in ServerJobStates
    BY <1>0, FixedRecords DEF ServerJobStates
  <2>3. /\ new.run = s.run /\ new.child = s.child
        /\ new.unit = s.unit /\ new.cancel = "asked" /\ new.public = s.public
    BY <1>0, <1>4, FixedRecords DEF ServerJobStates
  <2> HIDE DEF new
  <2>4. JobMoves(j, new)
    BY <1>0, <1>4, <2>1, <2>2, <2>3, Budget DEF JobMoves, JobInv, Locks, CancelAsk
  <2> QED
    BY <2>4, JobMoveKeeps
<1>6. CASE DispatchSpawn(j)
  <2> DEFINE new == [s EXCEPT !.dispatch = "spawned", !.unit = "active"]
  <2>1. srv' = [srv EXCEPT ![j] = new] /\ UNCHANGED <<registered, lock>> /\ (NoFault \/ ServerFault \/ SpendServer("cancel"))
    BY <1>0, <1>6 DEF DispatchSpawn
  <2>2. new \in ServerJobStates
    BY <1>0, FixedRecords DEF ServerJobStates
  <2>3. /\ new.run = s.run /\ new.child = s.child
        /\ new.unit = "active" /\ new.cancel = s.cancel /\ new.public = s.public
    BY <1>0, <1>6, FixedRecords DEF ServerJobStates
  <2> HIDE DEF new
  <2>4. JobMoves(j, new)
    BY <1>0, <1>6, <2>1, <2>2, <2>3, Budget DEF JobMoves, JobInv, Locks, DispatchSpawn
  <2> QED
    BY <2>4, JobMoveKeeps
<1>7. CASE DispatchReturns(j)
  <2> DEFINE new == [s EXCEPT !.dispatch = "done"]
  <2>1. srv' = [srv EXCEPT ![j] = new] /\ UNCHANGED <<registered, lock>> /\ (NoFault \/ ServerFault \/ SpendServer("cancel"))
    BY <1>0, <1>7 DEF DispatchReturns
  <2>2. new \in ServerJobStates
    BY <1>0, FixedRecords DEF ServerJobStates
  <2>3. /\ new.run = s.run /\ new.child = s.child
        /\ new.unit = s.unit /\ new.cancel = s.cancel /\ new.public = s.public
    BY <1>0, <1>7, FixedRecords DEF ServerJobStates
  <2> HIDE DEF new
  <2>4. JobMoves(j, new)
    BY <1>0, <1>7, <2>1, <2>2, <2>3, Budget DEF JobMoves, JobInv, Locks, DispatchReturns
  <2> QED
    BY <2>4, JobMoveKeeps
<1>3. CASE StartFails(j)
  <2> DEFINE rec == IF s.public.status \in Terminal \ {"succeeded"} THEN s.public
                    ELSE [status |-> "dispatch_failed", cancel |-> FALSE]
             new == [s EXCEPT !.start = "done", !.public = rec]
  <2>1. srv' = [srv EXCEPT ![j] = new] /\ UNCHANGED <<registered, lock>> /\ (NoFault \/ ServerFault)
    BY <1>0, <1>3 DEF StartFails
  <2>2. rec \in JobFiles /\ (rec = s.public \/ rec.status = "dispatch_failed")
    BY <1>0, <1>s, FixedRecords DEF ServerJobStates
  <2> HIDE DEF rec
  <2>3. /\ new \in ServerJobStates
        /\ new.run = s.run /\ new.unit = s.unit /\ new.child = s.child /\ new.cancel = s.cancel /\ new.public = rec
    BY <1>0, <2>2 DEF ServerJobStates
  <2> HIDE DEF new
  <2>4. JobMoves(j, new)
    BY <1>0, <2>1, <2>2, <2>3, Budget DEF JobMoves, JobInv, Locks
  <2> QED
    BY <2>4, JobMoveKeeps
<1>5. CASE claim_job(j)
  <2> DEFINE st == IF s.public.status = "queued" THEN "claimed" ELSE "failed"
             new == [s EXCEPT !.claimed = s.public, !.dispatch = st]
  <2>1. srv' = [srv EXCEPT ![j] = new] /\ UNCHANGED <<registered, lock>> /\ NoFault
    BY <1>0, <1>5 DEF claim_job
  <2>2. st \in {"claimed", "failed"}
    OBVIOUS
  <2> HIDE DEF st
  <2>3. /\ new \in ServerJobStates
        /\ new.run = s.run /\ new.unit = s.unit /\ new.child = s.child /\ new.cancel = s.cancel /\ new.public = s.public
    BY <1>0, <2>2 DEF ServerJobStates
  <2> HIDE DEF new
  <2>4. JobMoves(j, new)
    BY <1>0, <2>1, <2>3, Budget DEF JobMoves, JobInv, Locks
  <2> QED
    BY <2>4, JobMoveKeeps
<1>8. ASSUME NEW st \in {"dispatched", "failed", "dispatch_failed"}, NEW d \in {"spawning", "failed"},
             srv' = [srv EXCEPT ![j] = [write_claimed_job(s, As(Queued, st)) EXCEPT !.dispatch = d]],
             UNCHANGED <<registered, lock>>, NoFault \/ ServerFault
      PROVE  ServerInv'
  <2> DEFINE rec == As(Queued, st)
             new == [write_claimed_job(s, rec) EXCEPT !.dispatch = d]
  <2>1. rec \in JobFiles /\ rec.status = st
    BY <1>s, FixedRecords, Recorded
  <2>2. srv' = [srv EXCEPT ![j] = new]
    BY <1>8
  <2> HIDE DEF rec
  <2>3. /\ new \in ServerJobStates
        /\ new.run = s.run /\ new.unit = s.unit /\ new.child = s.child /\ new.cancel = s.cancel /\ new.public = rec
    BY <1>0, <2>1 DEF ServerJobStates, write_claimed_job
  <2> HIDE DEF new
  <2>4. JobMoves(j, new)
    BY <1>0, <1>8, <2>1, <2>2, <2>3, Budget DEF JobMoves, JobInv, Locks
  <2> QED
    BY <2>4, JobMoveKeeps
<1>9. CASE DispatchCheck(j)
  <2>1. CASE load_action(s)
    BY <1>0, <1>8, <1>9, <2>1 DEF DispatchCheck
  <2>2. CASE ~load_action(s)
    BY <1>0, <1>8, <1>9, <2>2 DEF DispatchCheck
  <2> QED
    BY <2>1, <2>2
<1>10. CASE DispatchSpawnFails(j)
  BY <1>0, <1>8, <1>10 DEF DispatchSpawnFails
<1> QED
  BY <1>1, <1>2, <1>3, <1>4, <1>5, <1>6, <1>7, <1>9, <1>10 DEF CoreStep, DispatchStep

(* A job with one of its processes elsewhere is a job. *)
LEMMA ChildSet ==
  ASSUME NEW s \in ServerJobStates, NEW v \in {"none", "alive", "succeeds", "fails", "timed_out", "killed"}
  PROVE  [s EXCEPT !.child = v] \in ServerJobStates
BY DEF ServerJobStates

LEMMA RunSet ==
  ASSUME NEW s \in ServerJobStates,
         NEW v \in {"idle", "loaded", "waiting", "locked", "begun", "executing", "collected", "over"}
  PROVE  [s EXCEPT !.run = v] \in ServerJobStates
BY DEF ServerJobStates

LEMMA CancelSet ==
  ASSUME NEW s \in ServerJobStates,
         NEW v \in {"idle", "asked", "loaded", "marked", "stopping", "stopped", "not_stopped"}
  PROVE  [s EXCEPT !.cancel = v] \in ServerJobStates
BY DEF ServerJobStates

LEMMA UnitSet ==
  ASSUME NEW s \in ServerJobStates, NEW v \in {"none", "active", "gone"}
  PROVE  [s EXCEPT !.unit = v] \in ServerJobStates
BY DEF ServerJobStates

LEMMA StartSet ==
  ASSUME NEW s \in ServerJobStates, NEW v \in {"idle", "dispatching", "done"}
  PROVE  [s EXCEPT !.start = v] \in ServerJobStates
BY DEF ServerJobStates

LEMMA DispatchSet ==
  ASSUME NEW s \in ServerJobStates,
         NEW v \in {"idle", "claimed", "spawning", "spawned", "done", "failed", "lost"}
  PROVE  [s EXCEPT !.dispatch = v] \in ServerJobStates
BY DEF ServerJobStates

(* What the worker of a job, and the request that cancels it, write. *)
LEMMA Written ==
  ASSUME NEW s \in ServerJobStates, NEW rec \in JobFiles
  PROVE  /\ write_claimed_job(s, rec) \in ServerJobStates /\ update_job(s, rec) \in ServerJobStates
         /\ \A w \in {write_claimed_job(s, rec), update_job(s, rec)} :
              /\ w.run = s.run /\ w.unit = s.unit /\ w.child = s.child /\ w.cancel = s.cancel
              /\ w.public = rec
BY DEF write_claimed_job, update_job, ServerJobStates

LEMMA Overed ==
  ASSUME NEW s \in ServerJobStates
  PROVE  /\ Over(s) \in ServerJobStates
         /\ Over(s).run = "over" /\ Over(s).unit = "gone" /\ Over(s).child = s.child
         /\ Over(s).cancel = s.cancel /\ Over(s).public = s.public
BY DEF Over, ServerJobStates

(* A worker ends with a record of its own: its child is dead, and a success is
   written for a child that succeeded only.                                  *)
LEMMA WorkerEnds ==
  ASSUME ServerInv, NEW j \in ServerJobs, NEW rec \in JobFiles, srv[j].child # "alive",
         rec.status = "succeeded" => srv[j].child = "succeeds",
         srv' = [srv EXCEPT ![j] = Over(write_claimed_job(srv[j], rec))],
         UNCHANGED registered, lock' \in {lock, Freed(j)}, NoFault \/ ServerFault
  PROVE  ServerInv'
<1> DEFINE s == srv[j]
           w == write_claimed_job(s, rec)
           new == Over(w)
<1>0. s \in ServerJobStates /\ srvLeft \in [{"registry", "cancel", "fault"} -> Nat]
  BY DEF ServerInv, ServerTypeOK
<1>1. w \in ServerJobStates /\ w.child = s.child /\ w.public = rec
  BY <1>0, Written
<1> HIDE DEF w
<1>2. /\ new \in ServerJobStates /\ new.run = "over" /\ new.child = s.child /\ new.public = rec
  BY <1>1, Overed
<1>3. srv' = [srv EXCEPT ![j] = new]
  BY DEF w
<1> HIDE DEF new
<1>4. JobMoves(j, new)
  BY <1>0, <1>2, <1>3, Budget DEF JobMoves, JobInv, Locks
<1> QED
  BY <1>4, JobMoveKeeps

LEMMA RunSteps ==
  ASSUME ServerInv, NEW j \in ServerJobs, RunStep(j)
  PROVE  ServerInv'
<1> DEFINE s == srv[j]
<1>0. /\ s \in ServerJobStates /\ JobInv(s) /\ (Locks(s) => lock = j)
      /\ srv \in [ServerJobs -> ServerJobStates] /\ registered \in Revisions \cup {0}
      /\ srvLeft \in [{"registry", "cancel", "fault"} -> Nat]
      /\ s.mine \in JobFiles /\ s.claimed \in JobFiles /\ s.public \in JobFiles
  BY DEF ServerInv, ServerTypeOK, ServerJobStates
<1>s. Statuses = {"succeeded", "failed", "cancelled", "dispatch_failed", "none", "queued", "dispatched",
                  "waiting_for_lock", "running", "cancelling"}
  BY DEF Statuses, Terminal
<1>1. CASE RunLoad(j)
  <2> DEFINE new == [s EXCEPT !.run = "loaded", !.mine = s.claimed]
  <2>1. /\ srv' = [srv EXCEPT ![j] = new] \/ srv' = [srv EXCEPT ![j] = Over(s)]
        /\ UNCHANGED <<registered, lock>> /\ NoFault /\ s.run = "idle" /\ s.unit = "active"
    BY <1>0, <1>1 DEF RunLoad
  <2>2. /\ new \in ServerJobStates
        /\ new.run = "loaded" /\ new.unit = s.unit /\ new.child = s.child /\ new.cancel = s.cancel /\ new.public = s.public
    BY <1>0 DEF ServerJobStates
  <2> HIDE DEF new
  <2>3. CASE srv' = [srv EXCEPT ![j] = new]
    <3>1. JobMoves(j, new)
      BY <1>0, <2>1, <2>2, <2>3, Budget DEF JobMoves, JobInv, Locks
    <3> QED
      BY <3>1, JobMoveKeeps
  <2>4. CASE srv' = [srv EXCEPT ![j] = Over(s)]
    <3>1. JobMoves(j, Over(s))
      BY <1>0, <2>1, <2>4, Overed, Budget DEF JobMoves, JobInv, Locks
    <3> QED
      BY <3>1, JobMoveKeeps
  <2> QED
    BY <2>1, <2>3, <2>4
<1>2. ASSUME NEW st \in {"waiting_for_lock", "running"}, NEW r \in {"waiting", "begun"},
             srv' = [srv EXCEPT ![j] = [write_claimed_job(s, As(s.mine, st)) EXCEPT !.run = r]],
             s.run \in {"loaded", "locked"}, s.run = "loaded" => r = "waiting",
             UNCHANGED <<registered, lock>>, NoFault
      PROVE  ServerInv'
  <2> DEFINE rec == As(s.mine, st)
             w == write_claimed_job(s, rec)
             new == [w EXCEPT !.run = r]
  <2>1. rec \in JobFiles /\ rec.status = st
    BY <1>0, <1>s, Recorded
  <2>2. srv' = [srv EXCEPT ![j] = new]
    BY <1>2
  <2> HIDE DEF rec
  <2>3. /\ w \in ServerJobStates
        /\ w.unit = s.unit /\ w.child = s.child /\ w.cancel = s.cancel /\ w.public = rec
    BY <1>0, <2>1, Written
  <2> HIDE DEF w
  <2>4. /\ new \in ServerJobStates
        /\ new.run = r /\ new.unit = s.unit /\ new.child = s.child /\ new.cancel = s.cancel /\ new.public = rec
    BY <2>3 DEF ServerJobStates
  <2> HIDE DEF new
  <2>5. JobMoves(j, new)
    BY <1>0, <1>2, <2>1, <2>2, <2>4, Budget DEF JobMoves, JobInv, Locks
  <2> QED
    BY <2>5, JobMoveKeeps
<1>3. CASE RunWait(j)
  BY <1>0, <1>2, <1>3 DEF RunWait
<1>4. CASE RunLock(j)
  <2> DEFINE new == [s EXCEPT !.run = "locked", !.mine = s.claimed]
  <2>1. /\ s.run = "waiting" /\ UNCHANGED registered
        /\ \/ lock = "free" /\ lock' = j /\ srv' = [srv EXCEPT ![j] = new] /\ NoFault
           \/ ServerFault /\ srv' = [srv EXCEPT ![j] = Over(write_claimed_job(s, As(s.mine, "failed")))] /\ UNCHANGED lock
    BY <1>0, <1>4 DEF RunLock, RunLockIf
  <2>2. /\ new \in ServerJobStates
        /\ new.run = "locked" /\ new.unit = s.unit /\ new.child = s.child /\ new.cancel = s.cancel /\ new.public = s.public
    BY <1>0 DEF ServerJobStates
  <2> HIDE DEF new
  <2>3. CASE lock = "free" /\ lock' = j /\ srv' = [srv EXCEPT ![j] = new] /\ NoFault
    <3>1. JobMoves(j, new)
      BY <1>0, <2>1, <2>2, <2>3, Budget DEF JobMoves, JobInv, Locks
    <3> QED
      BY <3>1, JobMoveKeeps
  <2>4. CASE ServerFault /\ srv' = [srv EXCEPT ![j] = Over(write_claimed_job(s, As(s.mine, "failed")))] /\ UNCHANGED lock
    <3>1. As(s.mine, "failed") \in JobFiles /\ As(s.mine, "failed").status = "failed" /\ s.child # "alive"
      BY <1>0, <1>s, <2>1, Recorded DEF JobInv
    <3> QED
      BY <2>1, <2>4, <3>1, WorkerEnds
  <2> QED
    BY <2>1, <2>3, <2>4
<1>5. CASE RunBegin(j)
  <2>1. s.run = "locked" /\ s.child # "alive" /\ UNCHANGED registered /\ NoFault
    BY <1>0, <1>5 DEF RunBegin, JobInv
  <2>2. CASE s.mine.cancel \/ s.signalled
    <3>1. As(s.mine, "cancelled") \in JobFiles /\ As(s.mine, "cancelled").status = "cancelled"
      BY <1>0, <1>s, Recorded
    <3>2. srv' = [srv EXCEPT ![j] = Over(write_claimed_job(s, As(s.mine, "cancelled")))] /\ lock' = Freed(j)
      BY <1>0, <1>5, <2>2 DEF RunBegin
    <3> QED
      BY <2>1, <3>1, <3>2, WorkerEnds
  <2>3. CASE ~(s.mine.cancel \/ s.signalled)
    BY <1>0, <1>2, <1>5, <2>1, <2>3 DEF RunBegin
  <2> QED
    BY <2>2, <2>3
<1>6. CASE RunExec(j)
  <2> DEFINE new == [s EXCEPT !.run = "executing", !.child = "alive"]
  <2>1. /\ s.run = "begun" /\ s.child # "alive" /\ UNCHANGED registered
        /\ \/ srv' = [srv EXCEPT ![j] = new] /\ UNCHANGED lock /\ NoFault
           \/ ServerFault /\ srv' = [srv EXCEPT ![j] = Over(write_claimed_job(s, As(s.claimed, "failed")))] /\ lock' = Freed(j)
    BY <1>0, <1>6 DEF RunExec, JobInv
  <2>2x. [s EXCEPT !.run = "executing"] \in ServerJobStates
    BY <1>0, RunSet
  <2>2a. new \in ServerJobStates
    BY ONLY <2>2x, ChildSet
  <2>2b. new.run = "executing" /\ new.unit = s.unit /\ new.child = "alive"
    BY <1>0 DEF ServerJobStates
  <2>2c. new.cancel = s.cancel /\ new.public = s.public
    BY <1>0 DEF ServerJobStates
  <2>2. /\ new \in ServerJobStates
        /\ new.run = "executing" /\ new.unit = s.unit /\ new.child = "alive" /\ new.cancel = s.cancel /\ new.public = s.public
    BY ONLY <2>2a, <2>2b, <2>2c
  <2> HIDE DEF new
  <2>3. CASE srv' = [srv EXCEPT ![j] = new] /\ UNCHANGED lock /\ NoFault
    <3>1. JobMoves(j, new)
      BY <1>0, <2>1, <2>2, <2>3, Budget DEF JobMoves, JobInv, Locks
    <3> QED
      BY <3>1, JobMoveKeeps
  <2>4. CASE ServerFault /\ srv' = [srv EXCEPT ![j] = Over(write_claimed_job(s, As(s.claimed, "failed")))] /\ lock' = Freed(j)
    <3>1. As(s.claimed, "failed") \in JobFiles /\ As(s.claimed, "failed").status = "failed"
      BY <1>0, <1>s, Recorded
    <3> QED
      BY <2>1, <2>4, <3>1, WorkerEnds
  <2> QED
    BY <2>1, <2>3, <2>4
<1>7. CASE ChildEnds(j)
  <2> PICK how \in {"succeeds", "fails", "timed_out"} : srv' = [srv EXCEPT ![j].child = how]
    BY <1>7 DEF ChildEnds
  <2> DEFINE new == [s EXCEPT !.child = how]
  <2>1. srv' = [srv EXCEPT ![j] = new] /\ s.child = "alive" /\ UNCHANGED <<registered, lock>> /\ NoFault
    BY <1>0, <1>7 DEF ChildEnds
  <2>2. /\ new \in ServerJobStates
        /\ new.run = s.run /\ new.unit = s.unit /\ new.child = how /\ new.cancel = s.cancel /\ new.public = s.public
    BY <1>0 DEF ServerJobStates
  <2> HIDE DEF new
  <2>3. JobMoves(j, new)
    BY <1>0, <2>1, <2>2, Budget DEF JobMoves, JobInv, Locks
  <2> QED
    BY <2>3, JobMoveKeeps
<1>8. CASE RunCollect(j)
  <2> DEFINE new == [s EXCEPT !.run = "collected", !.mine = s.claimed]
  <2>1. /\ srv' = [srv EXCEPT ![j] = new] /\ lock' = Freed(j) /\ UNCHANGED registered /\ NoFault
        /\ s.run = "executing" /\ s.child # "alive"
    BY <1>0, <1>8 DEF RunCollect
  <2>2. /\ new \in ServerJobStates
        /\ new.run = "collected" /\ new.unit = s.unit /\ new.child = s.child /\ new.cancel = s.cancel /\ new.public = s.public
    BY <1>0 DEF ServerJobStates
  <2> HIDE DEF new
  <2>3. JobMoves(j, new)
    BY <1>0, <2>1, <2>2, Budget DEF JobMoves, JobInv, Locks
  <2> QED
    BY <2>3, JobMoveKeeps
<1>9. CASE RunFinish(j)
  <2> DEFINE rec == As(s.mine, Outcome(s))
  <2>1. s.child # "alive" /\ UNCHANGED <<registered, lock>> /\ NoFault /\ srv' = [srv EXCEPT ![j] = Over(write_claimed_job(s, rec))]
    BY <1>0, <1>9 DEF RunFinish, JobInv
  <2>2. Outcome(s) \in Statuses /\ (Outcome(s) = "succeeded" => s.child = "succeeds")
    BY <1>s DEF Outcome
  <2>3. rec \in JobFiles /\ rec.status = Outcome(s)
    BY <1>0, <2>2, Recorded
  <2> HIDE DEF rec
  <2> QED
    BY <2>1, <2>2, <2>3, WorkerEnds
<1> QED
  BY <1>1, <1>3, <1>4, <1>5, <1>6, <1>7, <1>8, <1>9 DEF RunStep

LEMMA CancelSteps ==
  ASSUME ServerInv, NEW j \in ServerJobs, CancelStep(j)
  PROVE  ServerInv'
<1> DEFINE s == srv[j]
<1>0. /\ s \in ServerJobStates /\ JobInv(s) /\ (Locks(s) => lock = j)
      /\ srv \in [ServerJobs -> ServerJobStates] /\ registered \in Revisions \cup {0}
      /\ srvLeft \in [{"registry", "cancel", "fault"} -> Nat]
      /\ s.mine \in JobFiles /\ s.claimed \in JobFiles /\ s.public \in JobFiles
  BY DEF ServerInv, ServerTypeOK, ServerJobStates
<1>s. Statuses = {"succeeded", "failed", "cancelled", "dispatch_failed", "none", "queued", "dispatched",
                  "waiting_for_lock", "running", "cancelling"}
  BY DEF Statuses, Terminal
<1>1. CASE CancelLoad(j)
  <2> DEFINE b == (s.claimed = NoFile)
             s1 == [s EXCEPT !.legacy = b]
             c == IF CancelReads(s1).status \in Terminal THEN "idle" ELSE "loaded"
             new == [s1 EXCEPT !.cancel = c]
  <2>1. srv' = [srv EXCEPT ![j] = new] /\ UNCHANGED <<registered, lock>> /\ NoFault
    BY <1>0, <1>1 DEF CancelLoad
  <2>2. c \in {"idle", "loaded"} /\ b \in BOOLEAN
    OBVIOUS
  <2> HIDE DEF c, b
  <2>3. /\ s1 \in ServerJobStates /\ s1.run = s.run /\ s1.unit = s.unit /\ s1.child = s.child /\ s1.public = s.public
    BY <1>0, <2>2 DEF ServerJobStates
  <2> HIDE DEF s1
  <2>4. /\ new \in ServerJobStates
        /\ new.run = s.run /\ new.unit = s.unit /\ new.child = s.child /\ new.cancel = c /\ new.public = s.public
    BY <2>2, <2>3 DEF ServerJobStates
  <2> HIDE DEF new
  <2>5. JobMoves(j, new)
    BY <1>0, <2>1, <2>2, <2>4, Budget DEF JobMoves, JobInv, Locks
  <2> QED
    BY <2>5, JobMoveKeeps
<1>2. ASSUME NEW rec \in JobFiles, NEW c \in {"marked", "idle"},
             rec.status \in {"cancelling", "cancelled", "failed"}, rec.status = "cancelled" => s.run = "over",
             srv' = [srv EXCEPT ![j] = [CancelWrites(s, rec) EXCEPT !.cancel = c]],
             UNCHANGED <<registered, lock>>, NoFault
      PROVE  ServerInv'
  <2> DEFINE w == CancelWrites(s, rec)
             new == [w EXCEPT !.cancel = c]
  <2>1. srv' = [srv EXCEPT ![j] = new]
    BY <1>2
  <2>2. w \in ServerJobStates /\ w.run = s.run /\ w.unit = s.unit /\ w.child = s.child /\ w.public = rec
    <3>1. CASE s.legacy
      BY <1>0, <3>1, Written DEF CancelWrites
    <3>2. CASE ~s.legacy
      BY <1>0, <3>2, Written DEF CancelWrites
    <3> QED
      BY <3>1, <3>2
  <2> HIDE DEF w
  <2>3. /\ new \in ServerJobStates
        /\ new.run = s.run /\ new.unit = s.unit /\ new.child = s.child /\ new.cancel = c /\ new.public = rec
    BY <2>2 DEF ServerJobStates
  <2> HIDE DEF new
  <2>4. JobMoves(j, new)
    BY <1>0, <1>2, <2>1, <2>3, Budget DEF JobMoves, JobInv, Locks
  <2> QED
    BY <2>4, JobMoveKeeps
<1>3. CASE CancelMark(j)
  <2> DEFINE rec == [status |-> "cancelling", cancel |-> TRUE]
  <2>1. rec \in JobFiles /\ rec.status = "cancelling"
    BY <1>s, FixedRecords
  <2>2. srv' = [srv EXCEPT ![j] = [CancelWrites(s, rec) EXCEPT !.cancel = "marked"]] /\ UNCHANGED <<registered, lock>> /\ NoFault
    BY <1>0, <1>3 DEF CancelMark
  <2> HIDE DEF rec
  <2> QED
    BY <1>2, <2>1, <2>2
<1>4. ASSUME NEW new \in ServerJobStates, srv' = [srv EXCEPT ![j] = new], UNCHANGED <<registered, lock>>,
             NoFault \/ ServerFault, new.run = s.run, new.unit = s.unit, new.child = s.child,
             new.public = s.public, new.cancel # "stopped"
      PROVE  ServerInv'
  <2>1. JobMoves(j, new)
    BY <1>0, <1>4, Budget DEF JobMoves, JobInv, Locks
  <2> QED
    BY <2>1, JobMoveKeeps
<1>5. ASSUME NEW k \in {"none", "succeeds", "fails", "timed_out", "killed"}, NEW new,
             new = [Over(s) EXCEPT !.cancel = "stopped", !.child = k],
             k = s.child \/ s.child = "alive",
             srv' = [srv EXCEPT ![j] = new], UNCHANGED registered, lock' \in {lock, Freed(j)}, NoFault
      PROVE  ServerInv'
  <2>1. Over(s) \in ServerJobStates /\ Over(s).run = "over" /\ Over(s).public = s.public
    BY <1>0, Overed
  <2> DEFINE o == Over(s)
             c == [o EXCEPT !.cancel = "stopped"]
  <2>a. new = [c EXCEPT !.child = k] /\ o \in ServerJobStates
    BY <1>5, <2>1
  <2> HIDE DEF o
  <2>b. c \in ServerJobStates
    BY <2>a, CancelSet
  <2> HIDE DEF c
  <2>2. new \in ServerJobStates
    BY <2>a, <2>b, ChildSet
  <2>3. new.run = "over" /\ new.child = k /\ new.cancel = "stopped" /\ new.public = s.public
    BY <1>5, <2>1 DEF ServerJobStates
  <2>4. JobMoves(j, new)
    BY <1>0, <1>5, <2>2, <2>3, Budget DEF JobMoves, JobInv, Locks
  <2> QED
    BY <2>4, JobMoveKeeps
<1>6. CASE CancelStop(j)
  <2> DEFINE a == [Over(s) EXCEPT !.cancel = "stopped"]
             b == [s EXCEPT !.signalled = TRUE, !.cancel = "stopping"]
             c == [s EXCEPT !.cancel = "not_stopped"]
  <2>1. /\ UNCHANGED <<registered, lock>>
        /\ \/ s.run = "idle" /\ srv' = [srv EXCEPT ![j] = a] /\ NoFault
           \/ srv' = [srv EXCEPT ![j] = b] /\ NoFault
           \/ srv' = [srv EXCEPT ![j] = c] /\ (NoFault \/ ServerFault)
    BY <1>0, <1>6 DEF CancelStop, CancelStopTo
  <2>2. CASE s.run = "idle" /\ srv' = [srv EXCEPT ![j] = a] /\ NoFault
    <3>1. s.child = "none" /\ Over(s) \in ServerJobStates /\ Over(s).child = s.child
      BY <1>0, <2>2, Overed DEF JobInv
    <3>2. a = [Over(s) EXCEPT !.cancel = "stopped", !.child = s.child]
      BY <3>1 DEF ServerJobStates
    <3> HIDE DEF a
    <3> QED
      BY <1>5, <2>1, <2>2, <3>1, <3>2
  <2>3. CASE srv' = [srv EXCEPT ![j] = b] /\ NoFault
    <3>a. [s EXCEPT !.signalled = TRUE] \in ServerJobStates
      BY <1>0 DEF ServerJobStates
    <3>b. b \in ServerJobStates
      BY ONLY <3>a, CancelSet
    <3>1. /\ b \in ServerJobStates
          /\ b.run = s.run /\ b.unit = s.unit /\ b.child = s.child /\ b.public = s.public /\ b.cancel = "stopping"
      BY <1>0, <3>b DEF ServerJobStates
    <3> HIDE DEF b
    <3> QED
      BY <1>4, <2>1, <2>3, <3>1
  <2>4. CASE srv' = [srv EXCEPT ![j] = c] /\ (NoFault \/ ServerFault)
    <3>1. /\ c \in ServerJobStates
          /\ c.run = s.run /\ c.unit = s.unit /\ c.child = s.child /\ c.public = s.public /\ c.cancel = "not_stopped"
      BY <1>0 DEF ServerJobStates
    <3> HIDE DEF c
    <3> QED
      BY <1>4, <2>1, <2>4, <3>1
  <2> HIDE DEF a, b, c
  <2> QED
    BY <2>1, <2>2, <2>3, <2>4
<1>7. CASE CancelStopped(j)
  <2> DEFINE k == IF s.child = "alive" THEN "killed" ELSE s.child
             new == [Over(s) EXCEPT !.cancel = "stopped", !.child = k]
  <2>1. Over(s) \in ServerJobStates /\ Over(s).child = s.child
    BY <1>0, Overed
  <2>2. srv' = [srv EXCEPT ![j] = new] /\ lock' = Freed(j) /\ UNCHANGED registered /\ NoFault
    BY <1>0, <1>7 DEF CancelStopped
  <2>3. k \in {"none", "succeeds", "fails", "timed_out", "killed"} /\ (k = s.child \/ s.child = "alive")
    BY <1>0 DEF ServerJobStates
  <2> HIDE DEF k
  <2> QED
    BY <1>5, <2>2, <2>3
<1>8. CASE CancelFinish(j)
  <2> DEFINE end == IF s.cancel = "stopped" THEN "cancelled" ELSE "failed"
             rec == As(CancelReads(s), end)
             n1 == [s EXCEPT !.cancel = "idle"]
             n2 == [CancelWrites(s, rec) EXCEPT !.cancel = "idle"]
  <2>1. /\ UNCHANGED <<registered, lock>> /\ NoFault
        /\ srv' = [srv EXCEPT ![j] = n1] \/ srv' = [srv EXCEPT ![j] = n2]
    BY <1>0, <1>8 DEF CancelFinish
  <2>2. CASE srv' = [srv EXCEPT ![j] = n1]
    <3>1. /\ n1 \in ServerJobStates
          /\ n1.run = s.run /\ n1.unit = s.unit /\ n1.child = s.child /\ n1.public = s.public /\ n1.cancel = "idle"
      BY <1>0 DEF ServerJobStates
    <3> HIDE DEF n1
    <3> QED
      BY <1>4, <2>1, <2>2, <3>1
  <2>3. CASE srv' = [srv EXCEPT ![j] = n2]
    <3>1. CancelReads(s) \in JobFiles /\ end \in Statuses
      BY <1>0, <1>s DEF CancelReads
    <3>2. rec \in JobFiles /\ rec.status = end
      BY <3>1, Recorded
    <3>3. end \in {"cancelled", "failed"} /\ (end = "cancelled" => s.run = "over")
      BY <1>0 DEF JobInv
    <3> HIDE DEF rec, end
    <3> QED
      BY <1>2, <2>1, <2>3, <3>2, <3>3
  <2> HIDE DEF n1, n2
  <2> QED
    BY <2>1, <2>2, <2>3
<1> QED
  BY <1>1, <1>3, <1>6, <1>7, <1>8 DEF CancelStep

(* A reboot ends every worker that had started, whoever held the lock. *)
LEMMA RebootKeeps ==
  ASSUME ServerInv, ServerReboot
  PROVE  ServerInv'
<1>0. /\ srv \in [ServerJobs -> ServerJobStates] /\ registered \in Revisions \cup {0}
      /\ srvLeft \in [{"registry", "cancel", "fault"} -> Nat]
  BY DEF ServerInv, ServerTypeOK
<1>1. srvLeft' \in [{"registry", "cancel", "fault"} -> Nat] /\ registered' = registered /\ lock' = "free"
  BY <1>0, Budget DEF ServerReboot
<1>2. ASSUME NEW j \in ServerJobs
      PROVE  srv'[j] \in ServerJobStates /\ JobInv(srv'[j]) /\ ~Locks(srv'[j])
  <2> DEFINE s == srv[j]
             st == IF s.start = "dispatching" THEN "done" ELSE s.start
             d == IF s.start = "idle" THEN s.dispatch ELSE "lost"
             u == IF s.unit = "active" THEN "gone" ELSE s.unit
             r == IF s.unit = "active" THEN "over" ELSE s.run
             k == IF s.child = "alive" THEN "killed" ELSE s.child
             new == [s EXCEPT !.start = st, !.dispatch = d, !.unit = u, !.run = r, !.child = k, !.cancel = "idle"]
  <2>0. s \in ServerJobStates /\ JobInv(s)
    BY <1>0 DEF ServerInv
  <2>1. srv'[j] = new
    BY <2>0 DEF ServerReboot, ServerJobStates
  <2>2. /\ st \in {"idle", "dispatching", "done"}
        /\ d \in {"idle", "claimed", "spawning", "spawned", "done", "failed", "lost"}
        /\ u \in {"none", "active", "gone"}
        /\ r \in {"idle", "loaded", "waiting", "locked", "begun", "executing", "collected", "over"}
        /\ k \in {"none", "succeeds", "fails", "timed_out", "killed"}
    BY <2>0 DEF ServerJobStates
  <2>3. /\ r \in {"idle", "over"} /\ (s.run = "over" => r = "over") /\ (r = "idle" => s.run = "idle")
        /\ k = s.child \/ s.child = "alive"
    BY <2>0 DEF JobInv
  <2> HIDE DEF st, d, u, r, k
  <2> DEFINE n1 == [s EXCEPT !.start = st]
             n2 == [n1 EXCEPT !.dispatch = d]
             n3 == [n2 EXCEPT !.unit = u]
             n4 == [n3 EXCEPT !.run = r]
             n5 == [n4 EXCEPT !.child = k]
  <2>4. new \in ServerJobStates
    <3>0. new = [n5 EXCEPT !.cancel = "idle"]
      OBVIOUS
    <3>1. n1 \in ServerJobStates
      BY <2>0, <2>2, StartSet
    <3> HIDE DEF n1
    <3>2. n2 \in ServerJobStates
      BY <2>2, <3>1, DispatchSet
    <3> HIDE DEF n2
    <3>3. n3 \in ServerJobStates
      BY <2>2, <3>2, UnitSet
    <3> HIDE DEF n3
    <3>4. n4 \in ServerJobStates
      BY <2>2, <3>3, RunSet
    <3> HIDE DEF n4
    <3>5. n5 \in ServerJobStates
      BY <2>2, <3>4, ChildSet
    <3> HIDE DEF n5, new
    <3> QED
      BY <3>0, <3>5, CancelSet
  <2>5. new.run = r /\ new.child = k /\ new.cancel = "idle" /\ new.public = s.public
    BY <2>0 DEF ServerJobStates
  <2> HIDE DEF new
  <2>6. JobInv(new) /\ ~Locks(new)
    BY <2>0, <2>2, <2>3, <2>5 DEF JobInv, Locks
  <2> QED
    BY <2>1, <2>4, <2>6
<1>3. srv' \in [ServerJobs -> ServerJobStates]
  BY <1>2 DEF ServerReboot
<1> QED
  BY <1>0, <1>1, <1>2, <1>3 DEF ServerInv, ServerTypeOK

(* The invariant of the jobs: it holds at the start and every step of Core, of
   the helper's processes, of the host and of the registry preserves it.     *)
THEOREM ServerInvariant == SpecServer => []ServerInv
<1>1. InitServer => ServerInv
  <2> SUFFICES ASSUME InitServer PROVE ServerInv
    OBVIOUS
  <2>1. srv0 \in ServerJobStates /\ JobInv(srv0) /\ ~Locks(srv0)
    BY FixedRecords DEF srv0, ServerJobStates, JobInv, Locks
  <2>2. srv \in [ServerJobs -> ServerJobStates] /\ \A j \in ServerJobs : srv[j] = srv0
    BY <2>1 DEF InitServer
  <2> QED
    BY <2>1, <2>2, ServerConstants DEF InitServer, ServerInv, ServerTypeOK
<1>2. ServerInv /\ [NextServer]_srvVars => ServerInv'
  <2> SUFFICES ASSUME ServerInv, [NextServer]_srvVars PROVE ServerInv'
    OBVIOUS
  <2>1. CASE RegistryChanges
    BY <2>1, Budget DEF RegistryChanges, ServerInv, ServerTypeOK
  <2>2. CASE UNCHANGED srvVars
    BY <2>2 DEF srvVars, ServerInv, ServerTypeOK
  <2> QED
    BY <2>1, <2>2, CoreSteps, RunSteps, CancelSteps, RebootKeeps DEF NextServer
<1> QED
  BY <1>1, <1>2, PTL DEF SpecServer

(* The global lock does its work (run_job, cancel_job, a reboot): whatever is
   cancelled, times out or is rebooted, and however many jobs there are, the
   process of an action is alive only while its job holds the lock.          *)
THEOREM ActionsNeverOverlap == SpecServer => []LockGuardsChild
<1>1. ServerInv => LockGuardsChild
  BY DEF ServerInv, JobInv, Locks, LockGuardsChild
<1> QED
  BY <1>1, ServerInvariant, PTL

(* The end a job file reports is the end its action had: succeeded only after
   a success of the process (run_job), cancelled only when no process is left
   at work (run_job, cancel_job).                                            *)
THEOREM ReportsAreTrue == SpecServer => []OutcomeIsTrue
<1>1. ServerInv => OutcomeIsTrue
  BY DEF ServerInv, JobInv, OutcomeIsTrue, SucceededIsTrue, CancelledIsOver
<1> QED
  BY <1>1, ServerInvariant, PTL
==============================================================================
