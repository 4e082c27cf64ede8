----------------------- MODULE SchedulerSafety_proofs -----------------------
(* The claim of a run and the SKIP policy, for every number of schedules,   *)
(* runs and workers and whatever crashes, faults and edits happen; then the *)
(* invariant behind the safety of recovery, and the steps that cannot        *)
(* disturb it because they start nothing: they keep rows or finish them, and *)
(* only ever free workers and empty queues.                                  *)
EXTENDS Scheduler_proofs

(* From the claim to the worker's last look at the row *)
Holding(w) == worker[w].phase \in {"handler", "refuse"}

(* What a worker that claimed a run relies on: the run has not gone back to
   the queue.  Without it a claim could find the run of another worker
   queued.                                                                 *)
HandlerInv ==
  \A w \in Workers : Holding(w) => run[worker[w].run].status \notin {"none", "queued"}

OneHolderPerRun ==
  \A v, w \in Workers :
    Holding(v) /\ Holding(w) /\ worker[v].run = worker[w].run => v = w

SafeInv == TypeOK /\ HandlerInv /\ OneHolderPerRun /\ SkipAtMostOneActive

(* No run becomes active, and a run that is left is left for good. *)
RunsWindDown ==
  \A r \in Runs :
    \/ run'[r].status \in {"succeeded", "failed", "skipped", "deleted"}
    \/ /\ run'[r].status = run[r].status
       /\ run'[r].linked => run[r].linked
       /\ run'[r].kind = run[r].kind /\ run'[r].sched = run[r].sched

(* A worker goes on with its run or stops executing. *)
WorkersWindDown ==
  \A w \in Workers : worker'[w] = worker[w] \/ worker'[w].phase \notin {"handler", "refuse"}

LEMMA RowFields ==
  ASSUME run \in [Runs -> RunRows], NEW r \in Runs
  PROVE  /\ \A st, why : Ended(r, st, why).status = st
         /\ \A st, why : [Ended(r, st, why) EXCEPT !.comp = "expired"].status = st
         /\ \A st, why : [Ended(r, st, why) EXCEPT !.comp = "completed"].status = st
BY DEF RunRows, Ended

LEMMA ParkFields ==
  ASSUME NEW x \in RunRows
  PROVE  /\ \A c : /\ [x EXCEPT !.comp = c].status = x.status
                   /\ [x EXCEPT !.comp = c].linked = x.linked
                   /\ [x EXCEPT !.comp = c].kind = x.kind
                   /\ [x EXCEPT !.comp = c].sched = x.sched
         /\ [x EXCEPT !.taskId = TRUE].status = x.status
         /\ [x EXCEPT !.taskId = TRUE].linked = x.linked
         /\ [x EXCEPT !.taskId = TRUE].kind = x.kind
         /\ [x EXCEPT !.taskId = TRUE].sched = x.sched
BY DEF RunRows

LEMMA UnlinkedFields ==
  ASSUME NEW s, NEW rows \in [Runs -> RunRows], NEW r \in Runs
  PROVE  /\ Unlinked(s, rows)[r].status = rows[r].status
         /\ Unlinked(s, rows)[r].linked => rows[r].linked
         /\ Unlinked(s, rows)[r].kind = rows[r].kind
         /\ Unlinked(s, rows)[r].sched = rows[r].sched
BY DEF RunRows, Unlinked

LEMMA QueuedFields ==
  ASSUME NEW s, NEW kind, NEW due
  PROVE  /\ Queued(s, kind, due).status = "queued"
         /\ Queued(s, kind, due).kind = kind
         /\ Queued(s, kind, due).sched = s
BY DEF Queued, Blank

LEMMA IdleAgainStops ==
  ASSUME worker \in [Workers -> WorkerStates], NEW w \in Workers, IdleAgain(w)
  PROVE  WorkersWindDown
BY DEF IdleAgain, WorkersWindDown, Idle

(* Every step winds down, except the ones that create, claim or requeue. *)
WindDown == RunsWindDown /\ WorkersWindDown

LEMMA StillIsDown == ASSUME UNCHANGED <<run, worker>> PROVE WindDown
BY DEF WindDown, RunsWindDown, WorkersWindDown

LEMMA ApplyEnds ==
  ASSUME run \in [Runs -> RunRows], NEW r \in Runs, NEW kind,
         NEW st \in {"succeeded", "failed"}, Apply(r, kind, st)
  PROVE  RunsWindDown
<1> DEFINE row == [Ended(r, st, "Outcome") EXCEPT !.comp = "completed"]
<1>1. row.status = st
  BY RowFields
<1>2. run' = [run EXCEPT ![r] = row]
  BY DEF Apply
<1> HIDE DEF row
<1> QED
  BY <1>1, <1>2 DEF RunsWindDown

LEMMA TickWindsDown ==
  ASSUME TypeOK, TickStep, ~ \E s \in Schedules : DispatchRun(s)
  PROVE  WindDown
<1> USE DEF TypeOK
<1>1. CASE TickStart
  <2>1. UNCHANGED worker
    BY <1>1 DEF TickStart, TickStartWith
  <2>2. \A r \in Runs : run'[r] = run[r] \/ run'[r].status = "failed"
    BY <1>1, RowFields DEF TickStart, TickStartWith
  <2> QED
    BY <2>1, <2>2 DEF WindDown, RunsWindDown, WorkersWindDown
<1>2. ASSUME NEW r \in Runs, RecoverRunning(r) PROVE WindDown
  <2>1. WorkersWindDown
    BY <1>2 DEF RecoverRunning, WorkersWindDown, Idle
  <2>2. \/ run' = run
        \/ run' = [run EXCEPT ![r] = Ended(r, "failed", "Stale")]
        \/ run' = [run EXCEPT ![r] =
                     [Ended(r, "failed", "CompletionTimeout") EXCEPT !.comp = "expired"]]
    BY <1>2 DEF RecoverRunning
  <2>3. \A q \in Runs : run'[q] = run[q] \/ run'[q].status = "failed"
    <3>1. /\ Ended(r, "failed", "Stale").status = "failed"
          /\ [Ended(r, "failed", "CompletionTimeout") EXCEPT !.comp = "expired"].status
               = "failed"
      BY RowFields
    <3> QED
      BY <2>2, <3>1
  <2>4. RunsWindDown
    BY <2>3 DEF RunsWindDown
  <2> QED
    BY <2>1, <2>4 DEF WindDown
<1>3. CASE TickList \/ TickCleanup \/ TickSettle \/ TickEnd
  BY <1>3, StillIsDown DEF TickList, TickCleanup, TickSettle, TickEnd, dbVars
<1>4. ASSUME NEW s \in Schedules,
             \/ DispatchGone(s) \/ DispatchError(s) \/ DispatchPaused(s) \/ DispatchInvalidTargets(s)
             \/ DispatchNothingNew(s) \/ DispatchBaseline(s)
             \/ DispatchUnauthorized(s) \/ DispatchMissed(s)
             \/ DispatchUnavailable(s) \/ DispatchOverlap(s)
      PROVE  WindDown
  <2>1. UNCHANGED <<run, worker>>
    BY <1>4 DEF DispatchGone, DispatchError, DispatchPaused, DispatchInvalidTargets,
       DispatchNothingNew, DispatchBaseline, DispatchUnauthorized, DispatchMissed,
       DispatchUnavailable, DispatchOverlap, Dispatching, NoRow, SkipRow
  <2> QED
    BY <2>1, StillIsDown
<1>5. ASSUME NEW s \in Schedules, CleanupCheck(s) PROVE WindDown
  BY <1>5, StillIsDown DEF CleanupCheck, dbVars
<1>6. ASSUME NEW s \in Schedules, CleanupDelete(s) PROVE WindDown
  BY <1>6, UnlinkedFields DEF CleanupDelete, WindDown, RunsWindDown, WorkersWindDown
<1>7. ASSUME NEW r \in Runs, CleanupRun(r) PROVE WindDown
  <2>1. RunsWindDown
    <3>1. run' = [run EXCEPT ![r] = Blank("deleted")]
      BY <1>7 DEF CleanupRun
    <3>2. Blank("deleted").status = "deleted"
      BY DEF Blank
    <3> QED
      BY <3>1, <3>2 DEF RunsWindDown
  <2> QED
    BY <1>7, <2>1 DEF CleanupRun, WindDown, WorkersWindDown
<1>8. ASSUME NEW r \in Runs, SettleServerJob(r) PROVE WindDown
  <2>1. PICK st \in {"succeeded", "failed"} : Apply(r, "server", st)
    BY <1>8 DEF SettleServerJob
  <2>2. RunsWindDown
    BY <2>1, ApplyEnds
  <2> QED
    BY <1>8, <2>2 DEF SettleServerJob, WindDown, WorkersWindDown
<1> QED
  BY <1>1, <1>2, <1>3, <1>4, <1>5, <1>6, <1>7, <1>8 DEF TickStep

LEMMA QueueWindsDown ==
  ASSUME TypeOK, NEW r \in Runs, QueueStep(r)
  PROVE  WindDown
<1> USE DEF TypeOK
<1>1. CASE QueueSend(r) \/ QueueSaveState(r)
  BY <1>1, StillIsDown DEF QueueSend, QueueSaveState, dbVars
<1>2. CASE QueueSaveId(r)
  <2>1. run' = run \/ run' = [run EXCEPT ![r] = [run[r] EXCEPT !.taskId = TRUE]]
    BY <1>2 DEF QueueSaveId
  <2>2. \A q \in Runs : /\ run'[q].status = run[q].status /\ run'[q].linked = run[q].linked
                        /\ run'[q].kind = run[q].kind /\ run'[q].sched = run[q].sched
    <3> DEFINE row == [run[r] EXCEPT !.taskId = TRUE]
    <3>1. /\ row.status = run[r].status /\ row.linked = run[r].linked
          /\ row.kind = run[r].kind /\ row.sched = run[r].sched
      BY ParkFields
    <3> HIDE DEF row
    <3> QED
      BY <2>1, <3>1 DEF row
  <2> QED
    BY <1>2, <2>2 DEF QueueSaveId, WindDown, RunsWindDown, WorkersWindDown
<1>3. CASE QueueFail(r)
  <2> DEFINE failed == [run EXCEPT ![r] = Ended(r, "failed", "DispatchError")]
  <2>1. failed \in [Runs -> RunRows]
    BY RunRowTypes DEF Statuses, Reasons
  <2>2. \A q \in Runs : failed[q] = run[q] \/ failed[q].status = "failed"
    BY RowFields
  <2>3. run' = failed \/ \E s : run' = Unlinked(s, failed)
    BY <1>3 DEF QueueFail
  <2> HIDE DEF failed
  <2>4. RunsWindDown
    BY <2>1, <2>2, <2>3, UnlinkedFields DEF RunsWindDown
  <2> QED
    BY <1>3, <2>4 DEF QueueFail, WindDown, WorkersWindDown
<1> QED
  BY <1>1, <1>2, <1>3 DEF QueueStep

LEMMA WorkerWindsDown ==
  ASSUME TypeOK,
         WorkerStep \/ \E w \in Workers : TimeLimit(w),
         ~ \E w \in Workers, x \in msgs, again, ok \in BOOLEAN : Claim(w, x, again, ok),
         ~ \E w \in Workers : Requeue(w)
  PROVE  WindDown
<1> USE DEF TypeOK
<1>1. ASSUME NEW x \in msgs, NEW again \in BOOLEAN, DropMessage(x, again) PROVE WindDown
  BY <1>1, StillIsDown DEF DropMessage, dbVars
<1>2. ASSUME NEW x \in msgs, NEW again \in BOOLEAN, SkipBlocked(x, again) PROVE WindDown
  <2>1. x.run \in Runs
    BY DEF Messages
  <2>2. \A q \in Runs : run'[q] = run[q] \/ run'[q].status = "skipped"
    BY <1>2, <2>1, RowFields DEF SkipBlocked
  <2> QED
    BY <1>2, <2>2 DEF SkipBlocked, WindDown, RunsWindDown, WorkersWindDown
<1>3. ASSUME NEW w \in Workers, Abandon(w) \/ SendRetry(w) \/ TimeLimit(w) PROVE WindDown
  <2>1. WorkersWindDown
    BY <1>3, IdleAgainStops DEF Abandon, SendRetry, TimeLimit
  <2> QED
    BY <1>3, <2>1 DEF Abandon, SendRetry, TimeLimit, dbVars, WindDown, RunsWindDown
<1>4. ASSUME NEW w \in Workers, RefuseOneOff(w) \/ Succeed(w) \/ Fail(w) PROVE WindDown
  <2>1. worker[w].run \in Runs
    BY <1>4, BusyFields DEF RefuseOneOff, Succeed, Fail, Executing
  <2>2. \A q \in Runs :
          run'[q] = run[q] \/ run'[q].status \in {"skipped", "succeeded", "failed"}
    <3> DEFINE r == worker[w].run
    <3>1. \/ run' = [run EXCEPT ![r] = Ended(r, "skipped", "AuthorizationRevoked")]
          \/ run' = [run EXCEPT ![r] = Ended(r, "succeeded", "")]
          \/ run' = [run EXCEPT ![r] = Ended(r, "failed", "Error")]
      BY <1>4 DEF RefuseOneOff, Succeed, Fail
    <3>2. r \in Runs /\ run \in [Runs -> RunRows]
      BY <2>1
    <3> HIDE DEF r
    <3>3. \A st, why : Ended(r, st, why).status = st
      BY <3>2, RowFields
    <3>4. \E st \in {"skipped", "succeeded", "failed"} : \E why :
            run' = [run EXCEPT ![r] = Ended(r, st, why)]
      BY <3>1
    <3>5. PICK st \in {"skipped", "succeeded", "failed"} :
            \E why : run' = [run EXCEPT ![r] = Ended(r, st, why)]
      BY <3>4
    <3> QED
      BY <3>2, <3>3, <3>5
  <2>3. WorkersWindDown
    BY <1>4, IdleAgainStops DEF RefuseOneOff, Succeed, Fail
  <2> QED
    BY <2>2, <2>3 DEF WindDown, RunsWindDown
<1>5. ASSUME NEW w \in Workers, NEW kind \in {"module", "server"}, Park(w, kind)
      PROVE  WindDown
  <2> DEFINE r == worker[w].run
             row == [run[r] EXCEPT !.comp = kind]
  <2>1. r \in Runs
    BY <1>5, BusyFields DEF Park, Executing
  <2>2. /\ row.status = run[r].status /\ row.linked = run[r].linked
        /\ row.kind = run[r].kind /\ row.sched = run[r].sched
    BY <2>1, ParkFields
  <2>3. run' = [run EXCEPT ![r] = row] /\ IdleAgain(w)
    BY <1>5 DEF Park
  <2> HIDE DEF row
  <2>4. RunsWindDown
    BY <2>1, <2>2, <2>3 DEF RunsWindDown
  <2> QED
    BY <2>3, <2>4, IdleAgainStops DEF WindDown
<1>6. ASSUME NEW r \in Runs, Complete(r) PROVE WindDown
  <2>1. PICK st \in {"succeeded", "failed"} : Apply(r, "module", st)
    BY <1>6 DEF Complete
  <2> QED
    BY <1>6, <2>1, ApplyEnds DEF Complete, WindDown, WorkersWindDown
<1> QED
  BY <1>1, <1>2, <1>3, <1>4, <1>5, <1>6 DEF WorkerStep

LEMMA WebWindsDown ==
  ASSUME TypeOK, WebStep \/ FaultStep, ~ \E s \in Schedules : RunNow(s) \/ StartOneOff(s)
  PROVE  WindDown
<1> USE DEF TypeOK
<1>1. ASSUME NEW s \in Schedules, EditRead(s) \/ EditSave(s) \/ RunNowInvalid(s)
      PROVE  WindDown
  BY <1>1, StillIsDown DEF EditRead, EditSave, RunNowInvalid, dbVars
<1>2. ASSUME NEW s \in Schedules, NEW force \in BOOLEAN, Delete(s, force) PROVE WindDown
  <2> DEFINE rows == [r \in Runs |-> IF r \in ActiveRuns(s)
                                    THEN Ended(r, "failed", "ForceDeleted") ELSE run[r]]
  <2>1. rows \in [Runs -> RunRows]
    BY RunRowTypes DEF Statuses, Reasons
  <2>2. \A q \in Runs : rows[q] = run[q] \/ rows[q].status = "failed"
    BY RowFields
  <2>3. run' = Unlinked(s, rows)
    BY <1>2 DEF Delete
  <2> HIDE DEF rows
  <2>4. RunsWindDown
    BY <2>1, <2>2, <2>3, UnlinkedFields DEF RunsWindDown
  <2> QED
    BY <1>2, <2>4 DEF Delete, WindDown, WorkersWindDown
<1>3. CASE TickCrash \/ ModuleChange
  BY <1>3, StillIsDown DEF TickCrash, ModuleChange, dbVars
<1>4. ASSUME NEW r \in Runs, WebCrash(r) PROVE WindDown
  BY <1>4, StillIsDown DEF WebCrash, dbVars
<1>5. ASSUME NEW w \in Workers, WorkerCrash(w) PROVE WindDown
  <2>1. WorkersWindDown
    BY <1>5, IdleAgainStops DEF WorkerCrash
  <2> QED
    BY <1>5, <2>1 DEF WorkerCrash, dbVars, WindDown, RunsWindDown
<1>6. ASSUME NEW x \in msgs, LoseMessage(x) PROVE WindDown
  BY <1>6, StillIsDown DEF LoseMessage, dbVars
<1> QED
  BY <1>1, <1>2, <1>3, <1>4, <1>5, <1>6 DEF WebStep, FaultStep

(* A step that winds down keeps the invariant. *)
LEMMA WindDownSafe ==
  ASSUME SafeInv, TypeOK', WindDown
  PROVE  SafeInv'
<1>1. HandlerInv'
  <2> SUFFICES ASSUME NEW w \in Workers, Holding(w)'
               PROVE  run'[worker'[w].run].status \notin {"none", "queued"}
    BY DEF HandlerInv
  <2>1. worker'[w] = worker[w] /\ Holding(w)
    BY DEF WindDown, WorkersWindDown, Holding
  <2>2. worker[w].run \in Runs /\ run[worker[w].run].status \notin {"none", "queued"}
    BY <2>1, BusyFields DEF SafeInv, HandlerInv, TypeOK, Holding
  <2> QED
    BY <2>1, <2>2 DEF WindDown, RunsWindDown
<1>2. OneHolderPerRun'
  BY DEF SafeInv, WindDown, WorkersWindDown, OneHolderPerRun, Holding
<1>3. SkipAtMostOneActive'
  <2>1. \A s \in Schedules, r \in Runs : r \in ScheduledActive(s)' => r \in ScheduledActive(s)
    BY DEF ScheduledActive, ActiveRuns, RunsOf, IsActive, WindDown, RunsWindDown
  <2>2. SkipPolicy \subseteq Schedules
    BY SchedulerConstants
  <2>3. \A s : ScheduledActive(s)' \subseteq Runs
    BY DEF ScheduledActive, ActiveRuns, RunsOf
  <2> QED
    BY <2>1, <2>2, <2>3 DEF SafeInv, SkipAtMostOneActive
<1> QED
  BY <1>1, <1>2, <1>3 DEF SafeInv

(* A fresh run starts QUEUED; `others' is what keeps the policy. *)
LEMMA StartSafe ==
  ASSUME SafeInv, TypeOK', NEW s \in Schedules, NEW kind, NEW due, HasFresh,
         run' = [run EXCEPT ![Fresh] = Queued(s, kind, due)],
         UNCHANGED worker,
         kind = "scheduled" => s \notin SkipPolicy \/ ActiveRuns(s) = {}
  PROVE  SafeInv'
<1> DEFINE f == Fresh
           row == Queued(s, kind, due)
<1>1. f \in Runs /\ run[f].status = "none"
  BY FreshType
<1>2. row.status = "queued" /\ row.kind = kind /\ row.sched = s
  BY QueuedFields
<1>3. run' = [run EXCEPT ![f] = row] /\ worker' = worker /\ run \in [Runs -> RunRows]
  BY DEF SafeInv, TypeOK
<1> HIDE DEF f, row
<1>4. HandlerInv'
  <2> SUFFICES ASSUME NEW w \in Workers, Holding(w)
               PROVE  run'[worker[w].run].status \notin {"none", "queued"}
    BY <1>3 DEF HandlerInv, Holding
  <2>1. worker[w].run \in Runs /\ run[worker[w].run].status \notin {"none", "queued"}
    BY BusyFields DEF SafeInv, HandlerInv, TypeOK, Holding
  <2> QED
    BY <1>1, <1>3, <2>1
<1>5. OneHolderPerRun'
  BY <1>3 DEF SafeInv, OneHolderPerRun, Holding
<1>6. SkipAtMostOneActive'
  <2> SUFFICES ASSUME NEW t \in SkipPolicy, NEW p \in Runs, NEW q \in Runs,
                      p \in ScheduledActive(t)', q \in ScheduledActive(t)'
               PROVE  p = q
    BY DEF SkipAtMostOneActive, ScheduledActive, ActiveRuns, RunsOf
  <2>1. \A x \in Runs \ {f} : x \in ScheduledActive(t)' => x \in ScheduledActive(t)
    BY <1>3 DEF ScheduledActive, ActiveRuns, RunsOf, IsActive
  <2>2. CASE f \notin ScheduledActive(t)'
    BY <2>1, <2>2 DEF SafeInv, SkipAtMostOneActive
  <2>3. CASE f \in ScheduledActive(t)'
    <3>1. kind = "scheduled" /\ t = s
      BY <1>1, <1>2, <1>3, <2>3 DEF ScheduledActive, ActiveRuns, RunsOf
    <3>2. ScheduledActive(t) = {}
      BY <3>1 DEF ScheduledActive
    <3> QED
      BY <2>1, <3>2
  <2> QED
    BY <2>2, <2>3
<1> QED
  BY <1>4, <1>5, <1>6 DEF SafeInv

LEMMA ClaimFields ==
  ASSUME NEW x \in RunRows, NEW t, NEW n
  PROVE  LET claimed == [x EXCEPT !.status = "running", !.since = t, !.attempt = n,
                                  !.why = ""]
             requeued == [x EXCEPT !.status = "queued", !.since = t, !.why = "Error"]
         IN  /\ claimed.status = "running" /\ claimed.kind = x.kind
             /\ claimed.sched = x.sched /\ claimed.linked = x.linked
             /\ requeued.status = "queued" /\ requeued.kind = x.kind
             /\ requeued.sched = x.sched /\ requeued.linked = x.linked
BY DEF RunRows

LEMMA ClaimSafe ==
  ASSUME SafeInv, TypeOK', NEW v \in Workers, NEW x \in msgs, NEW again, NEW ok,
         Claim(v, x, again, ok)
  PROVE  SafeInv'
<1> DEFINE c == x.run
<1>1. c \in Runs /\ run[c].status = "queued" /\ run \in [Runs -> RunRows]
  BY DEF SafeInv, TypeOK, Messages, Claim, ClaimFrom
<1>2. /\ run'[c].status = "running" /\ run'[c].kind = run[c].kind
      /\ run'[c].sched = run[c].sched /\ run'[c].linked = run[c].linked
      /\ \A r \in Runs \ {c} : run'[r] = run[r]
  <2> DEFINE row == [run[c] EXCEPT !.status = "running", !.since = now,
                                   !.attempt = x.retries + 1, !.why = ""]
  <2>1. run' = [run EXCEPT ![c] = row]
    BY <1>1 DEF Claim, ClaimFrom
  <2>2. run[c] \in RunRows
    BY <1>1
  <2>3. /\ row.status = "running" /\ row.kind = run[c].kind
        /\ row.sched = run[c].sched /\ row.linked = run[c].linked
    BY <2>2, ClaimFields
  <2> HIDE DEF row
  <2> QED
    BY <1>1, <2>1, <2>3
<1>3. worker'[v].run = c /\ \A w \in Workers \ {v} : worker'[w] = worker[w]
  BY DEF SafeInv, TypeOK, Claim, ClaimFrom
<1> HIDE DEF c
<1>4. \A w \in Workers \ {v} : Holding(w)' =>
        Holding(w) /\ worker[w].run \in Runs \ {c}
  BY <1>1, <1>3, BusyFields DEF SafeInv, TypeOK, HandlerInv, Holding
<1>5. HandlerInv'
  BY <1>2, <1>3, <1>4 DEF SafeInv, HandlerInv
<1>6. OneHolderPerRun'
  BY <1>3, <1>4 DEF SafeInv, OneHolderPerRun
<1>7. SkipAtMostOneActive'
  <2>1. \A s : ScheduledActive(s)' \subseteq ScheduledActive(s)
    BY <1>1, <1>2 DEF ScheduledActive, ActiveRuns, RunsOf, IsActive
  <2> QED
    BY <2>1 DEF SafeInv, SkipAtMostOneActive
<1> QED
  BY <1>5, <1>6, <1>7 DEF SafeInv

LEMMA RequeueSafe ==
  ASSUME SafeInv, TypeOK', NEW v \in Workers, Requeue(v)
  PROVE  SafeInv'
<1> DEFINE c == worker[v].run
<1>1. Holding(v) /\ c \in Runs /\ run[c].status = "running" /\ run \in [Runs -> RunRows]
  BY BusyFields DEF SafeInv, TypeOK, Requeue, Executing, Holding, StillRunning
<1>2. /\ run'[c].kind = run[c].kind
      /\ run'[c].sched = run[c].sched /\ run'[c].linked = run[c].linked
      /\ \A r \in Runs \ {c} : run'[r] = run[r]
  <2> DEFINE row == [run[c] EXCEPT !.status = "queued", !.since = now, !.why = "Error"]
  <2>1. run' = [run EXCEPT ![c] = row]
    BY <1>1 DEF Requeue
  <2>2. run[c] \in RunRows
    BY <1>1
  <2>3. row.kind = run[c].kind /\ row.sched = run[c].sched /\ row.linked = run[c].linked
    BY <2>2, ClaimFields
  <2> HIDE DEF row
  <2> QED
    BY <1>1, <2>1, <2>3
<1>3. worker'[v].phase = "retry" /\ \A w \in Workers \ {v} : worker'[w] = worker[w]
  <2>1. worker' = [worker EXCEPT ![v] = [worker[v] EXCEPT !.phase = "retry"]]
    BY DEF Requeue
  <2>2. [worker[v] EXCEPT !.phase = "retry"].phase = "retry"
    BY <1>1 DEF SafeInv, TypeOK, WorkerStates, Holding, Idle
  <2> QED
    BY <2>1, <2>2 DEF SafeInv, TypeOK
<1>4. \A w \in Workers : Holding(w)' =>
        Holding(w) /\ worker'[w] = worker[w] /\ worker[w].run \in Runs \ {c}
  BY <1>1, <1>3, BusyFields DEF SafeInv, TypeOK, OneHolderPerRun, Holding
<1> HIDE DEF c
<1>5. HandlerInv'
  BY <1>2, <1>4 DEF SafeInv, HandlerInv
<1>6. OneHolderPerRun'
  BY <1>4 DEF SafeInv, OneHolderPerRun
<1>7. SkipAtMostOneActive'
  <2>1. \A s : ScheduledActive(s)' \subseteq ScheduledActive(s)
    BY <1>1, <1>2 DEF ScheduledActive, ActiveRuns, RunsOf, IsActive
  <2> QED
    BY <2>1 DEF SafeInv, SkipAtMostOneActive
<1> QED
  BY <1>5, <1>6, <1>7 DEF SafeInv

LEMMA SafeStep == ASSUME SafeInv, [Next]_vars PROVE SafeInv'
<1>1. TypeOK /\ TypeOK'
  BY TypeStep DEF SafeInv
<1>2. ASSUME NEW s \in Schedules, DispatchRun(s) PROVE SafeInv'
  <2>1. /\ HasFresh /\ UNCHANGED worker
        /\ run' = [run EXCEPT ![Fresh] = Queued(s, "scheduled", Occurrence(s))]
        /\ s \notin SkipPolicy \/ ActiveRuns(s) = {}
    BY <1>2 DEF DispatchRun, Dispatching, Overlaps
  <2> QED
    BY <1>1, <2>1, StartSafe
<1>3. ASSUME NEW s \in Schedules, RunNow(s) \/ StartOneOff(s) PROVE SafeInv'
  <2>1. \E kind \in {"manual", "oneoff"} : Start(s, kind)
    BY <1>3 DEF RunNow, StartOneOff
  <2>2. PICK kind \in {"manual", "oneoff"} : Start(s, kind)
    BY <2>1
  <2>3. UNCHANGED worker
    BY <1>3 DEF RunNow, StartOneOff
  <2> QED
    BY <1>1, <2>2, <2>3, StartSafe DEF Start
<1>4. ASSUME NEW w \in Workers, NEW x \in msgs, NEW again \in BOOLEAN, NEW ok \in BOOLEAN,
             Claim(w, x, again, ok)
      PROVE  SafeInv'
  BY <1>1, <1>4, ClaimSafe
<1>5. ASSUME NEW w \in Workers, Requeue(w) PROVE SafeInv'
  BY <1>1, <1>5, RequeueSafe
<1>6. CASE Elapse \/ UNCHANGED vars
  BY <1>1, <1>6, StillIsDown, WindDownSafe DEF Elapse, dbVars, vars
<1>7. CASE /\ Next /\ ~Elapse
           /\ ~ \E s \in Schedules : DispatchRun(s) \/ RunNow(s) \/ StartOneOff(s)
           /\ ~ \E w \in Workers, x \in msgs, again, ok \in BOOLEAN : Claim(w, x, again, ok)
           /\ ~ \E w \in Workers : Requeue(w)
  <2>1. WindDown
    BY <1>1, <1>7, TickWindsDown, QueueWindsDown, WorkerWindsDown, WebWindsDown DEF Next
  <2> QED
    BY <1>1, <2>1, WindDownSafe
<1> QED
  BY <1>2, <1>3, <1>4, <1>5, <1>6, <1>7

LEMMA SafeAlways == Spec => []SafeInv
<1>1. Init => SafeInv
  <2> SUFFICES ASSUME Init PROVE SafeInv
    OBVIOUS
  <2>1. \A w \in Workers : ~Holding(w)
    BY DEF Init, Holding, Idle
  <2>2. \A s : ScheduledActive(s) = {}
    BY DEF Init, Blank, ScheduledActive, ActiveRuns, RunsOf, IsActive
  <2> QED
    BY <2>1, <2>2, InitType DEF SafeInv, HandlerInv, OneHolderPerRun, SkipAtMostOneActive
<1>2. SafeInv /\ [Next]_vars => SafeInv'
  BY SafeStep
<1> QED
  BY <1>1, <1>2, PTL DEF Spec

(* No two workers are ever inside the handler of one run: the claim of
   execute_schedule_run holds for every number of schedules, runs and workers,
   against every duplicate, loss, crash, retry, recovery, edit and delete.  *)
THEOREM ClaimIsExclusive == Spec => []OneHandlerPerRun
<1>1. SafeInv => OneHandlerPerRun
  BY DEF SafeInv, OneHolderPerRun, OneHandlerPerRun, Holding, Executing
<1> QED
  BY <1>1, SafeAlways, PTL

(* The check of dispatch_due_schedules: however runs are retried, recovered,
   parked, deleted or started by hand, the tick never leaves two of its own
   runs of a SKIP schedule active.                                          *)
THEOREM SkipHoldsInTheRows == Spec => []SkipAtMostOneActive
<1>1. SafeInv => SkipAtMostOneActive
  BY DEF SafeInv
<1> QED
  BY <1>1, SafeAlways, PTL

----------------------------------------------------------------------------
(* The errors after the broker took a message, and the failing revoke. *)
NoLateFault == Budget["fault"] = 0

Busy(w) == worker[w].phase # "idle"

(* _queue_run can no longer overwrite the run with FAILED. *)
Sent(r) == queueing[r] \notin {"send", "fail"} /\ run[r].status # "none"

(* Why recovery is safe: a run that executes is RUNNING since its claim and
   not parked, so it is a candidate only after Celery's hard limit ended its
   task; and only a sent message can start an execution.                    *)
LiveInv ==
  /\ \A r \in Runs : queueing[r] # "idle" => run[r].status # "none"
  /\ \A r \in Runs : run[r].status \in {"none", "queued"} => run[r].comp \notin {"module", "server"}
  /\ \A x \in msgs : Sent(x.run)
  /\ \A w \in Workers : Busy(w) => Sent(worker[w].run)
  /\ \A w \in Workers : Executing(w) =>
       /\ now <= worker[w].since + HardLimit
       /\ run[worker[w].run].status = "running" =>
            run[worker[w].run].comp \notin {"module", "server"} /\ run[worker[w].run].since = worker[w].since
       /\ run[worker[w].run].linked => run[worker[w].run].status = "running"
       /\ run[worker[w].run].why # "Stale"
  /\ \A r \in tick.stale :
       /\ run[r].status \notin {"none", "queued"}
       /\ \A w \in Workers : Executing(w) => worker[w].run # r

(* The row keeps what LiveInv reads of it. *)
RowKept(r) ==
  /\ run'[r].status = run[r].status /\ run'[r].comp = run[r].comp
  /\ run'[r].since = run[r].since /\ run'[r].why = run[r].why
  /\ run'[r].linked => run[r].linked

(* The run is over or parked, and nothing executes it unless it is unlinked. *)
RowLeft(r) ==
  /\ run'[r].status \notin {"none", "queued"}
  /\ \A w \in Workers : worker'[w].phase = "handler" /\ worker'[w].run = r =>
       run'[r].status # "running" /\ ~run'[r].linked /\ run'[r].why # "Stale"

CalmRuns == \A r \in Runs : RowKept(r) \/ RowLeft(r)
CalmWorkers == \A w \in Workers : worker'[w] = worker[w] \/ worker'[w].phase = "idle"
CalmQueue ==
  /\ msgs' \subseteq msgs
  /\ \A r \in Runs :
       /\ queueing'[r] \in {"send", "fail"} => queueing[r] \in {"send", "fail"}
       /\ queueing'[r] # "idle" => queueing[r] # "idle"
CalmTick == now' = now /\ tick'.stale \subseteq tick.stale

Calm == CalmRuns /\ CalmWorkers /\ CalmQueue /\ CalmTick

LEMMA CalmLive ==
  ASSUME TypeOK, LiveInv, Calm
  PROVE  LiveInv'
<1> USE DEF Calm
<1>1. \A r \in Runs : run'[r].status \in {"none", "queued"} =>
        run[r].status = run'[r].status /\ run'[r].comp = run[r].comp
  BY DEF CalmRuns, RowKept, RowLeft
<1>2. \A r \in Runs : Sent(r) => Sent(r)'
  BY <1>1 DEF CalmQueue, Sent
<1>3. \A r \in Runs : queueing'[r] # "idle" => run'[r].status # "none"
  BY <1>1 DEF LiveInv, CalmQueue
<1>4. \A r \in Runs : run'[r].status \in {"none", "queued"} => run'[r].comp \notin {"module", "server"}
  BY <1>1 DEF LiveInv
<1>5. \A x \in msgs' : Sent(x.run)'
  BY <1>2 DEF LiveInv, CalmQueue, TypeOK, Messages
<1>6. \A w \in Workers : Busy(w)' => Busy(w) /\ worker'[w] = worker[w] /\ worker[w].run \in Runs
  BY BusyFields DEF CalmWorkers, Busy, TypeOK
<1>7. \A w \in Workers : Busy(w)' => Sent(worker[w].run)'
  BY <1>2, <1>6 DEF LiveInv
<1>8. ASSUME NEW w \in Workers, Executing(w)'
      PROVE  /\ now' <= worker'[w].since + HardLimit
             /\ run'[worker'[w].run].status = "running" =>
                  /\ run'[worker'[w].run].comp \notin {"module", "server"}
                  /\ run'[worker'[w].run].since = worker'[w].since
             /\ run'[worker'[w].run].linked => run'[worker'[w].run].status = "running"
             /\ run'[worker'[w].run].why # "Stale"
  <2>1. Executing(w) /\ worker'[w] = worker[w] /\ worker[w].run \in Runs
    BY <1>6, <1>8 DEF Busy, Executing
  <2>2. RowKept(worker[w].run) \/ RowLeft(worker[w].run)
    BY <2>1 DEF CalmRuns
  <2> QED
    BY <1>8, <2>1, <2>2 DEF LiveInv, CalmTick, RowKept, RowLeft, Executing
<1>9. ASSUME NEW r \in tick'.stale
      PROVE  /\ run'[r].status \notin {"none", "queued"}
             /\ \A w \in Workers : Executing(w)' => worker'[w].run # r
  <2>1. r \in tick.stale /\ r \in Runs
    BY TickFields DEF CalmTick, TypeOK
  <2>2. \A w \in Workers : Executing(w)' => Executing(w) /\ worker'[w] = worker[w]
    BY <1>6 DEF Busy, Executing
  <2> QED
    BY <1>1, <2>1, <2>2 DEF LiveInv
<1> QED
  BY <1>3, <1>4, <1>5, <1>7, <1>8, <1>9 DEF LiveInv, Executing, Busy, Sent, HardLimit

LEMMA HardLimitNat == HardLimit \in Nat
<1>1. Timeout \in Nat /\ Grace \in Nat
  BY SchedulerConstants
<1> QED
  BY <1>1 DEF HardLimit

LEMMA EndedFields ==
  ASSUME run \in [Runs -> RunRows], NEW r \in Runs, NEW st, NEW why
  PROVE  Ended(r, st, why).status = st /\ Ended(r, st, why).why = why
BY DEF RunRows, Ended

LEMMA NoLateSpend == ASSUME NoLateFault, TypeOK PROVE ~Spend("fault")
BY KindNames DEF NoLateFault, TypeOK, Spend

LEMMA KeptFields ==
  ASSUME NEW x \in RunRows
  PROVE  \A y \in {[x EXCEPT !.taskId = TRUE], [x EXCEPT !.linked = FALSE]} :
           /\ y.status = x.status /\ y.comp = x.comp /\ y.since = x.since
           /\ y.why = x.why /\ (y.linked => x.linked)
BY DEF RunRows

LEMMA UnlinkedKept ==
  ASSUME NEW s, NEW rows \in [Runs -> RunRows], NEW r \in Runs
  PROVE  /\ Unlinked(s, rows)[r].status = rows[r].status /\ Unlinked(s, rows)[r].comp = rows[r].comp
         /\ Unlinked(s, rows)[r].since = rows[r].since /\ Unlinked(s, rows)[r].why = rows[r].why
         /\ Unlinked(s, rows)[r].linked => rows[r].linked /\ r \notin RunsOf(s)
BY DEF RunRows, Unlinked

LEMMA StaleKept ==
  ASSUME NEW x \in TickStates
  PROVE  /\ \A S : [x EXCEPT !.todo = S].stale = x.stale
         /\ \A r : [x EXCEPT !.run = r].stale = x.stale
         /\ \A S, U : [x EXCEPT !.todo = S, !.doomed = U].stale = x.stale
         /\ \A U : [x EXCEPT !.doomed = U].stale = x.stale
         /\ \A S, r : [x EXCEPT !.todo = S, !.run = r].stale = x.stale
         /\ [x EXCEPT !.pc = "settle"].stale = x.stale
         /\ \A S : [x EXCEPT !.pc = "cleanup", !.todo = S].stale = x.stale
         /\ \A S, v : [x EXCEPT !.pc = "dispatch", !.vis = v, !.todo = S].stale = x.stale
         /\ \A S : [x EXCEPT !.stale = S].stale = S
BY DEF TickStates

LEMMA StillCalm ==
  ASSUME UNCHANGED <<run, worker>>, CalmQueue, CalmTick
  PROVE  Calm
BY DEF Calm, CalmRuns, CalmWorkers, RowKept

LEMMA IdleAgainCalm ==
  ASSUME worker \in [Workers -> WorkerStates], NEW w \in Workers, IdleAgain(w)
  PROVE  /\ CalmWorkers
         /\ \A v \in Workers : worker'[v].phase = "handler" => v # w /\ worker'[v] = worker[v]
BY DEF IdleAgain, CalmWorkers, Idle

(* Runs other than the one a step writes are kept. *)
LEMMA OneRowLeft ==
  ASSUME NEW r \in Runs, RowLeft(r), \A q \in Runs \ {r} : run'[q] = run[q]
  PROVE  CalmRuns
BY DEF CalmRuns, RowKept

LEMMA DispatchCalm ==
  ASSUME TypeOK, NEW s \in Schedules,
         \/ DispatchGone(s) \/ DispatchError(s) \/ DispatchPaused(s) \/ DispatchInvalidTargets(s)
         \/ DispatchNothingNew(s) \/ DispatchBaseline(s)
         \/ DispatchUnauthorized(s) \/ DispatchMissed(s)
         \/ DispatchUnavailable(s) \/ DispatchOverlap(s)
  PROVE  Calm
<1>1. UNCHANGED <<run, worker, queueing, msgs, now>> /\ DoneWith(s)
  BY DEF DispatchGone, DispatchError, DispatchPaused, DispatchInvalidTargets, DispatchNothingNew,
     DispatchBaseline, DispatchUnauthorized, DispatchMissed, DispatchUnavailable,
     DispatchOverlap, Dispatching, NoRow, SkipRow, envVars
<1>2. tick'.stale = tick.stale
  BY <1>1, StaleKept DEF TypeOK, DoneWith
<1> QED
  BY <1>1, <1>2, StillCalm DEF CalmQueue, CalmTick

LEMMA ApplyCalm ==
  ASSUME TypeOK, LiveInv, NEW r \in Runs, NEW kind \in {"module", "server"},
         NEW st \in {"succeeded", "failed"}, Apply(r, kind, st), UNCHANGED worker
  PROVE  CalmRuns
<1>1. \A w \in Workers : Executing(w) => worker[w].run # r
  BY DEF LiveInv, Apply
<1> DEFINE row == [Ended(r, st, "Outcome") EXCEPT !.comp = "completed"]
<1>2. row.status = st
  BY RowFields DEF TypeOK
<1>3. run' = [run EXCEPT ![r] = row]
  BY DEF Apply
<1> HIDE DEF row
<1>4. RowLeft(r)
  BY <1>1, <1>2, <1>3 DEF RowLeft, Executing, TypeOK
<1> QED
  BY <1>3, <1>4, OneRowLeft DEF TypeOK

LEMMA TickCalm ==
  ASSUME TypeOK, LiveInv, NoLateFault, TickStep, ~TickStart,
         ~ \E s \in Schedules : DispatchRun(s)
  PROVE  Calm
<1>1. ASSUME NEW r \in Runs, RecoverRunning(r) PROVE Calm
  <2>1. CalmWorkers
    BY <1>1 DEF RecoverRunning, CalmWorkers, TypeOK, Idle
  <2>2. CalmQueue /\ CalmTick
    BY <1>1, StaleKept DEF RecoverRunning, CalmQueue, CalmTick, TypeOK, envVars
  <2>3. \A w \in Workers : worker'[w].phase = "handler" => worker'[w].run # r
    BY <1>1, <2>1 DEF RecoverRunning, CalmWorkers, LiveInv, Executing
  <2>4. \/ run' = run
        \/ run' = [run EXCEPT ![r] = Ended(r, "failed", "Stale")]
        \/ run' = [run EXCEPT ![r] =
                     [Ended(r, "failed", "CompletionTimeout") EXCEPT !.comp = "expired"]]
    BY <1>1 DEF RecoverRunning
  <2>5. CASE run' = run
    BY <2>1, <2>2, <2>5 DEF Calm, CalmRuns, RowKept
  <2>6. CASE run' # run
    <3>1. /\ Ended(r, "failed", "Stale").status = "failed"
          /\ [Ended(r, "failed", "CompletionTimeout") EXCEPT !.comp = "expired"].status
               = "failed"
      BY RowFields DEF TypeOK
    <3>2. run'[r].status = "failed" /\ \A q \in Runs \ {r} : run'[q] = run[q]
      BY <2>4, <2>6, <3>1 DEF TypeOK
    <3>3. RowLeft(r)
      BY <2>3, <3>2 DEF RowLeft
    <3> QED
      BY <2>1, <2>2, <3>2, <3>3, OneRowLeft DEF Calm
  <2> QED
    BY <2>5, <2>6
<1>2. CASE TickList \/ TickCleanup \/ TickSettle \/ TickEnd
  <2>1. tick'.stale \subseteq tick.stale
    <3>1. tick \in TickStates /\ \A t : IdleTick(t).stale = {}
      BY DEF TypeOK, IdleTick
    <3>2. CASE TickList
      BY <3>1, <3>2, StaleKept DEF TickList
    <3>3. CASE TickCleanup
      BY <3>1, <3>3, StaleKept DEF TickCleanup
    <3>4. CASE TickSettle
      BY <3>1, <3>4, StaleKept DEF TickSettle
    <3>5. CASE TickEnd
      BY <3>1, <3>5 DEF TickEnd
    <3> QED
      BY <1>2, <3>2, <3>3, <3>4, <3>5
  <2> QED
    BY <1>2, <2>1, StillCalm
    DEF TickList, TickCleanup, TickSettle, TickEnd, CalmQueue, CalmTick, envVars, dbVars
<1>3. ASSUME NEW s \in Schedules, CleanupCheck(s) PROVE Calm
  <2>1. tick'.stale = tick.stale
    <3>1. /\ [tick EXCEPT !.todo = tick.todo \ {s}].stale = tick.stale
          /\ [tick EXCEPT !.todo = tick.todo \ {s}, !.doomed = {s}].stale = tick.stale
      BY StaleKept DEF TypeOK
    <3> QED
      BY <1>3, <3>1 DEF CleanupCheck, DoneWith
  <2> QED
    BY <1>3, <2>1, StillCalm DEF CleanupCheck, CalmQueue, CalmTick, envVars, dbVars
<1>4. ASSUME NEW s \in Schedules, CleanupDelete(s) PROVE Calm
  <2>1. CalmRuns
    BY <1>4, UnlinkedKept DEF CleanupDelete, CalmRuns, RowKept, TypeOK
  <2>2. tick'.stale = tick.stale
    BY <1>4, StaleKept DEF CleanupDelete, TypeOK
  <2> QED
    BY <1>4, <2>1, <2>2 DEF CleanupDelete, Calm, CalmWorkers, CalmQueue, CalmTick, envVars
<1>5. ASSUME NEW r \in Runs, CleanupRun(r) PROVE Calm
  <2>1. /\ run'[r].status = "deleted" /\ ~run'[r].linked /\ run'[r].why = ""
        /\ \A q \in Runs \ {r} : run'[q] = run[q]
    BY <1>5 DEF CleanupRun, Blank, TypeOK
  <2>2. CalmRuns
    BY <2>1, OneRowLeft DEF RowLeft
  <2> QED
    BY <1>5, <2>2 DEF CleanupRun, Calm, CalmWorkers, CalmQueue, CalmTick, envVars
<1>6. ASSUME NEW r \in Runs, SettleServerJob(r) PROVE Calm
  <2>1. PICK st \in {"succeeded", "failed"} : Apply(r, "server", st)
    BY <1>6 DEF SettleServerJob
  <2>2. CalmRuns
    BY <1>6, <2>1, ApplyCalm DEF SettleServerJob
  <2> QED
    BY <1>6, <2>2 DEF SettleServerJob, Calm, CalmWorkers, CalmQueue, CalmTick, envVars
<1> QED
  BY <1>1, <1>2, <1>3, <1>4, <1>5, <1>6, DispatchCalm DEF TickStep

LEMMA QueueCalm ==
  ASSUME TypeOK, LiveInv, NoLateFault, NEW r \in Runs,
         QueueSaveId(r) \/ QueueSaveState(r) \/ QueueFail(r)
  PROVE  Calm
<1>1. CASE QueueSaveId(r)
  <2> DEFINE row == [run[r] EXCEPT !.taskId = TRUE]
  <2>1. run' = [run EXCEPT ![r] = row] /\ queueing' = [queueing EXCEPT ![r] = "saveState"]
    BY <1>1, NoLateSpend DEF QueueSaveId, Goto
  <2>2. /\ row.status = run[r].status /\ row.comp = run[r].comp /\ row.since = run[r].since
        /\ row.why = run[r].why /\ (row.linked => run[r].linked)
    BY KeptFields DEF TypeOK
  <2> HIDE DEF row
  <2>3. CalmRuns
    BY <2>1, <2>2 DEF CalmRuns, RowKept, TypeOK
  <2> QED
    BY <1>1, <2>1, <2>3
    DEF QueueSaveId, Calm, CalmWorkers, CalmQueue, CalmTick, envVars, TypeOK
<1>2. CASE QueueSaveState(r)
  <2>1. queueing' = [queueing EXCEPT ![r] = "idle"] /\ Return(r)
    BY <1>2, NoLateSpend DEF QueueSaveState, Goto
  <2>2. tick'.stale = tick.stale
    BY <2>1, StaleKept DEF Return, TypeOK
  <2> QED
    BY <1>2, <2>1, <2>2, StillCalm
    DEF QueueSaveState, CalmQueue, CalmTick, envVars, dbVars, TypeOK
<1>3. CASE QueueFail(r)
  <2> DEFINE failed == [run EXCEPT ![r] = Ended(r, "failed", "DispatchError")]
  <2>1. failed \in [Runs -> RunRows]
    BY RunRowTypes DEF Statuses, Reasons, TypeOK
  <2>2. failed[r].status = "failed" /\ \A q \in Runs \ {r} : failed[q] = run[q]
    BY RowFields DEF TypeOK
  <2>3. run' = failed \/ \E s : run' = Unlinked(s, failed)
    BY <1>3 DEF QueueFail
  <2> HIDE DEF failed
  <2>4. \A w \in Workers : worker'[w].phase = "handler" => worker'[w].run # r
    BY <1>3 DEF QueueFail, LiveInv, Sent, Busy, TypeOK
  <2>5. RowLeft(r)
    <3>1. run'[r].status = failed[r].status
      BY <2>1, <2>3, UnlinkedKept
    <3> QED
      BY <2>2, <2>4, <3>1 DEF RowLeft
  <2>6. \A q \in Runs \ {r} : RowKept(q)
    BY <2>1, <2>2, <2>3, UnlinkedKept DEF RowKept
  <2>7. queueing' = [queueing EXCEPT ![r] = "idle"] /\ tick'.stale = tick.stale
    BY <1>3, StaleKept DEF QueueFail, Goto, Return, TypeOK
  <2> QED
    BY <1>3, <2>5, <2>6, <2>7
    DEF QueueFail, Calm, CalmRuns, CalmWorkers, CalmQueue, CalmTick, envVars, TypeOK
<1> QED
  BY <1>1, <1>2, <1>3

LEMMA WorkerCalm ==
  ASSUME SafeInv, LiveInv,
         WorkerStep \/ \E w \in Workers : TimeLimit(w),
         ~ \E w \in Workers, x \in msgs, again, ok \in BOOLEAN : Claim(w, x, again, ok),
         ~ \E w \in Workers : Requeue(w) \/ SendRetry(w)
  PROVE  Calm
<1> USE DEF SafeInv, TypeOK
<1>1. ASSUME NEW x \in msgs, NEW again \in BOOLEAN, DropMessage(x, again) PROVE Calm
  BY <1>1, StillCalm DEF DropMessage, Deliver, CalmQueue, CalmTick, envVars, dbVars
<1>2. ASSUME NEW x \in msgs, NEW again \in BOOLEAN, SkipBlocked(x, again) PROVE Calm
  <2>1. x.run \in Runs
    BY DEF Messages
  <2>2. run'[x.run].status = "skipped" /\ \A q \in Runs \ {x.run} : run'[q] = run[q]
    BY <1>2, <2>1, RowFields DEF SkipBlocked
  <2>3. \A w \in Workers : worker'[w].phase = "handler" => worker'[w].run # x.run
    BY <1>2, <2>1 DEF SkipBlocked, HandlerInv, Holding
  <2>4. CalmRuns
    BY <2>1, <2>2, <2>3, OneRowLeft DEF RowLeft
  <2> QED
    BY <1>2, <2>4 DEF SkipBlocked, Deliver, Calm, CalmWorkers, CalmQueue, CalmTick, envVars
<1>3. ASSUME NEW w \in Workers, Abandon(w) \/ TimeLimit(w) PROVE Calm
  <2>1. CalmWorkers
    BY <1>3, IdleAgainCalm DEF Abandon, TimeLimit
  <2> QED
    BY <1>3, <2>1 DEF Abandon, TimeLimit, dbVars, envVars, Calm, CalmRuns, RowKept,
       CalmQueue, CalmTick
<1>4. ASSUME NEW w \in Workers,
             \/ RefuseOneOff(w) \/ Succeed(w) \/ Fail(w)
             \/ \E kind \in {"module", "server"} : Park(w, kind)
      PROVE Calm
  <2> DEFINE r == worker[w].run
  <2>1. r \in Runs /\ Holding(w) /\ IdleAgain(w)
    BY <1>4, BusyFields DEF RefuseOneOff, Succeed, Fail, Park, Executing, Holding
  <2>2. \A v \in Workers : worker'[v].phase = "handler" => worker'[v].run # r
    BY <2>1, IdleAgainCalm DEF OneHolderPerRun, Holding
  <2>3. \E row : row.status \notin {"none", "queued"} /\ run' = [run EXCEPT ![r] = row]
    <3>1. CASE RefuseOneOff(w)
      <4>1. run' = [run EXCEPT ![r] = Ended(r, "skipped", "AuthorizationRevoked")]
        BY <3>1 DEF RefuseOneOff
      <4>2. Ended(r, "skipped", "AuthorizationRevoked").status = "skipped"
        BY <2>1, RowFields
      <4> QED
        BY <4>1, <4>2
    <3>2. CASE Succeed(w)
      <4>1. run' = [run EXCEPT ![r] = Ended(r, "succeeded", "")]
        BY <3>2 DEF Succeed
      <4>2. \A why : Ended(r, "succeeded", why).status = "succeeded"
        BY <2>1, EndedFields
      <4> QED
        BY <4>1, <4>2
    <3>3. CASE Fail(w)
      <4>1. run' = [run EXCEPT ![r] = Ended(r, "failed", "Error")]
        BY <3>3 DEF Fail
      <4>2. Ended(r, "failed", "Error").status = "failed"
        BY <2>1, RowFields
      <4> QED
        BY <4>1, <4>2
    <3>4. ASSUME NEW kind \in {"module", "server"}, Park(w, kind)
          PROVE \E row : row.status \notin {"none", "queued"} /\ run' = [run EXCEPT ![r] = row]
      <4>1. [run[r] EXCEPT !.comp = kind].status = "running"
        BY <2>1, <3>4, ParkFields DEF Park, StillRunning
      <4> QED
        BY <3>4, <4>1 DEF Park
    <3> QED
      BY <1>4, <3>1, <3>2, <3>3, <3>4
  <2>4. PICK row : row.status \notin {"none", "queued"} /\ run' = [run EXCEPT ![r] = row]
    BY <2>3
  <2>5. RowLeft(r) /\ \A q \in Runs \ {r} : run'[q] = run[q]
    BY <2>1, <2>2, <2>4 DEF RowLeft
  <2>6. CalmRuns /\ CalmWorkers
    BY <2>1, <2>5, OneRowLeft, IdleAgainCalm
  <2> QED
    BY <1>4, <2>6
    DEF RefuseOneOff, Succeed, Fail, Park, Calm, CalmQueue, CalmTick, envVars
<1>5. ASSUME NEW r \in Runs, Complete(r) PROVE Calm
  <2>1. PICK st \in {"succeeded", "failed"} : Apply(r, "module", st)
    BY <1>5 DEF Complete
  <2>2. CalmRuns
    BY <1>5, <2>1, ApplyCalm DEF Complete
  <2> QED
    BY <1>5, <2>2 DEF Complete, Calm, CalmWorkers, CalmQueue, CalmTick, envVars
<1> QED
  BY <1>1, <1>2, <1>3, <1>4, <1>5 DEF WorkerStep

LEMMA WebCalm ==
  ASSUME TypeOK, LiveInv, WebStep \/ FaultStep,
         ~ \E s \in Schedules : RunNow(s) \/ StartOneOff(s)
  PROVE  Calm
<1> USE DEF TypeOK
<1>1. ASSUME NEW s \in Schedules, EditRead(s) \/ EditSave(s) \/ RunNowInvalid(s)
      PROVE  Calm
  BY <1>1, StillCalm
  DEF EditRead, EditSave, RunNowInvalid, CalmQueue, CalmTick, envVars, dbVars
<1>2. ASSUME NEW s \in Schedules, NEW force \in BOOLEAN, Delete(s, force) PROVE Calm
  <2> DEFINE rows == [r \in Runs |-> IF r \in ActiveRuns(s)
                                    THEN Ended(r, "failed", "ForceDeleted") ELSE run[r]]
  <2>1. rows \in [Runs -> RunRows]
    BY RunRowTypes DEF Statuses, Reasons
  <2>2. \A r \in Runs : \/ rows[r] = run[r]
                        \/ r \in RunsOf(s) /\ rows[r].status = "failed"
                           /\ rows[r].why = "ForceDeleted"
    BY EndedFields DEF ActiveRuns
  <2>3. run' = Unlinked(s, rows)
    BY <1>2 DEF Delete
  <2> HIDE DEF rows
  <2>4. ASSUME NEW r \in Runs PROVE RowKept(r) \/ RowLeft(r)
    <3>1. CASE rows[r] = run[r]
      <4> DEFINE y == Unlinked(s, rows)[r]
      <4>1. /\ y.status = rows[r].status /\ y.comp = rows[r].comp
            /\ y.since = rows[r].since /\ y.why = rows[r].why
            /\ y.linked => rows[r].linked
        BY ONLY <2>1, r \in Runs, UnlinkedKept
      <4>2. run'[r] = y
        BY <2>3
      <4> HIDE DEF y
      <4> QED
        BY <3>1, <4>1, <4>2 DEF RowKept
    <3>2. CASE rows[r] # run[r]
      <4>1. ~run'[r].linked
        BY <2>1, <2>2, <2>3, <3>2, UnlinkedKept
      <4> QED
        BY <2>1, <2>2, <2>3, <3>2, <4>1, UnlinkedKept DEF RowLeft
    <3> QED
      BY <3>1, <3>2
  <2> QED
    BY <1>2, <2>4 DEF Delete, Calm, CalmRuns, CalmWorkers, CalmQueue, CalmTick, envVars
<1>3. CASE TickCrash
  <2>1. tick'.stale = {} /\ \A r \in Runs : queueing'[r] \in {queueing[r], "idle"}
    BY <1>3 DEF TickCrash, IdleTick
  <2> QED
    BY <1>3, <2>1, StillCalm DEF TickCrash, CalmQueue, CalmTick, envVars, dbVars
<1>4. CASE ModuleChange
  BY <1>4, StillCalm DEF ModuleChange, CalmQueue, CalmTick, dbVars
<1>5. ASSUME NEW r \in Runs, WebCrash(r) PROVE Calm
  BY <1>5, StillCalm DEF WebCrash, Goto, CalmQueue, CalmTick, envVars, dbVars
<1>6. ASSUME NEW w \in Workers, WorkerCrash(w) PROVE Calm
  <2>1. CalmWorkers
    BY <1>6, IdleAgainCalm DEF WorkerCrash
  <2> QED
    BY <1>6, <2>1 DEF WorkerCrash, dbVars, envVars, Calm, CalmRuns, RowKept, CalmQueue,
       CalmTick
<1>7. ASSUME NEW x \in msgs, LoseMessage(x) PROVE Calm
  BY <1>7, StillCalm DEF LoseMessage, CalmQueue, CalmTick, envVars, dbVars
<1> QED
  BY <1>1, <1>2, <1>3, <1>4, <1>5, <1>6, <1>7 DEF WebStep, FaultStep

============================================================================
