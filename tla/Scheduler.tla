----------------------------- MODULE Scheduler -----------------------------
(***************************************************************************)
(* The Tec-Tac scheduler: the once-a-minute tick (scheduler.py), the       *)
(* Celery workers that execute runs (tasks.py), runs parked for a later    *)
(* result (scheduler_completion.py), and the browser and module calls that *)
(* edit, delete and start schedules (scheduler_views.py), interleaved with *)
(* crashes, broker faults and lost or duplicated messages.                 *)
(*                                                                         *)
(* Time is counted in minutes.  An occurrence falls on the first second of *)
(* its minute, a tick starts there, and every other event happens later in *)
(* its minute; "occurrence < updated_at" is therefore <= on minutes.       *)
(***************************************************************************)
EXTENDS Integers

CONSTANTS
  Schedules,      \* rows of TecTacSchedule
  OneOffs,        \* the rows start_one_off_run creates (module owned, disabled)
  SkipPolicy,     \* schedules whose concurrency_policy is SKIP
  Recovering,     \* schedules whose missed_policy is RUN_ON_RECOVERY
  Definitions,    \* timing definitions a schedule can be given by an edit
  Once,           \* the definitions of type ONCE
  DueAt,          \* [Definitions -> sets of minutes]; one minute for ONCE
  TargetShapes,   \* initial shapes of the stored targets
  ModuleStates,   \* what the owning module's state can change to
  Workers,        \* Celery worker slots
  Runs,           \* rows of TecTacScheduleRun that can be created active
  NoRun,
  RetryCount,     \* retry_count_snapshot
  RetryDelay,     \* retry_delay_seconds_snapshot, in minutes
  Timeout,        \* the action's timeout_seconds, in minutes
  Grace,          \* DEFAULT_RUNNING_STALE_GRACE
  QueuedStale,    \* queued_stale_minutes
  LateTolerance,  \* MISSED_LATE_TOLERANCE
  MissedGrace,    \* missed_grace_minutes, 0 for no limit
  TimelyTicks,    \* TRUE: every minute has a complete tick
  MaxTime,        \* bound on the clock
  Budget          \* bound on the number of uses of each kind of event

Kinds == {"edit", "manual", "oneoff", "delete", "toggle", "retire",
          "dup", "lost", "fault", "crash"}

ASSUME SchedulerConstants ==
  /\ Schedules # {} /\ Definitions # {}
  /\ OneOffs \subseteq Schedules
  /\ SkipPolicy \subseteq Schedules
  /\ Recovering \subseteq Schedules
  /\ Once \subseteq Definitions
  /\ DueAt \in [Definitions -> SUBSET (Nat \ {0})]
  /\ \A d \in Once : \E t \in DueAt[d] : DueAt[d] = {t}
  /\ TargetShapes \subseteq {"canonical", "legacy", "invalid"}
  /\ ModuleStates \subseteq {"visible", "disabled", "orphaned", "unreadable"}
  /\ NoRun \notin Runs
  /\ {RetryCount, RetryDelay, Timeout, Grace, QueuedStale} \subseteq Nat
  /\ {LateTolerance, MissedGrace, MaxTime} \subseteq Nat
  /\ TimelyTicks \in BOOLEAN
  /\ Budget \in [Kinds -> Nat]

VARIABLES
  now,       \* the wall clock
  sched,     \* TecTacSchedule rows
  run,       \* TecTacScheduleRun rows that were created QUEUED
  skips,     \* TecTacScheduleRun rows the tick created SKIPPED
  queueing,  \* where _queue_run is for each run
  msgs,      \* execute_schedule_run messages at the broker
  worker,    \* what each worker slot executes
  tick,      \* the tick process
  edit,      \* PATCH requests between their read and their save
  module,    \* the owning module's state: see ScheduleVisibility
  used,      \* how much of Budget is spent
  editedAt   \* history: when each schedule was last created or edited

vars == <<now, sched, run, skips, queueing, msgs, worker, tick, edit, module,
          used, editedAt>>

dbVars == <<sched, run, skips>>
envVars == <<now, module, edit, editedAt>>

----------------------------------------------------------------------------
(* Rows.                                                                   *)

NoKey == 0   \* the empty last_due_key

(* `updated' is updated_at while last_due_key is empty, the only time it is
   read (_occurrence_predates_schedule_revision), and 0 otherwise.         *)
Absent == [state |-> "absent", def |-> CHOOSE d \in Definitions : TRUE,
           key |-> NoKey, updated |-> 0, paused |-> "", targets |-> "canonical"]

ScheduleRows ==
  [state : {"absent", "enabled", "disabled"}, def : Definitions, key : Nat,
   updated : Nat, paused : {"", "disabled", "orphaned"},
   targets : {"canonical", "legacy", "invalid"}]

(* `since' is the stamp the current status is aged by: last_queued_at of a
   QUEUED run, started_at of a RUNNING one, 0 after that.  `linked' is the
   foreign key to the schedule, which a delete clears; `sched' is
   schedule_snapshot_id, which it leaves.                                   *)
Statuses == {"none", "queued", "running", "succeeded", "failed", "skipped",
             "deleted"}

(* error_type; "Error" is any exception of a handler, "Missed" any of the
   three Missed* types, "Outcome" any reported end of a parked run.        *)
Reasons == {"", "Stale", "CompletionTimeout", "DispatchError", "ForceDeleted",
            "ModuleUnavailable", "AuthorizationRevoked", "Error", "Outcome",
            "InvalidTargetShape", "Missed", "ActionUnavailable", "ConcurrencySkip"}

RunRows ==
  [status : Statuses, sched : Schedules, linked : BOOLEAN,
   kind : {"scheduled", "manual", "oneoff"}, due : Nat, attempt : Nat,
   since : Nat, taskId : BOOLEAN,
   comp : {"", "module", "server", "completed", "expired"}, why : Reasons]

Blank(st) == [status |-> st, sched |-> CHOOSE s \in Schedules : TRUE,
              linked |-> FALSE, kind |-> "scheduled", due |-> 0, attempt |-> 0,
              since |-> 0, taskId |-> FALSE, comp |-> "", why |-> ""]

Queued(s, kind, due) ==
  [Blank("queued") EXCEPT !.sched = s, !.linked = TRUE, !.kind = kind,
                          !.due = due, !.since = now]

Ended(r, st, why) ==
  [run[r] EXCEPT !.status = st, !.since = 0, !.why = why]

IsActive(r) == run[r].status \in {"queued", "running"}
IsTerminal(r) == run[r].status \in {"succeeded", "failed", "skipped"}
RunsOf(s) == {r \in Runs : run[r].linked /\ run[r].sched = s}
ActiveRuns(s) == {r \in RunsOf(s) : IsActive(r)}
Fresh == CHOOSE r \in Runs : run[r].status = "none"
HasFresh == \E r \in Runs : run[r].status = "none"

(* schedule.save(update_fields=[..., "updated_at"]) *)
Touched(row) == [row EXCEPT !.updated = IF row.key = NoKey THEN now ELSE 0]

(* last_run_at and updated_at of the schedule a finished run belongs to *)
TouchScheduleOf(r) ==
  IF run[r].linked THEN [sched EXCEPT ![run[r].sched] = Touched(@)] ELSE sched

Idle == [phase |-> "idle", run |-> NoRun, retries |-> 0, since |-> 0]
IdleTick(t) == [pc |-> "idle", now |-> t, vis |-> "visible", todo |-> {},
                stale |-> {}, run |-> NoRun, doomed |-> {}]
NoEdit == [on |-> FALSE, def |-> CHOOSE d \in Definitions : TRUE,
           state |-> "absent", paused |-> ""]

Executing(w) == worker[w].phase = "handler"

Spend(k) == used[k] < Budget[k] /\ used' = [used EXCEPT ![k] = @ + 1]

Init ==
  /\ now = 0
  /\ sched \in [Schedules ->
       {Absent} \cup [state : {"enabled"}, def : Definitions, key : {NoKey},
                      updated : {0}, paused : {""}, targets : TargetShapes]]
  /\ \A s \in Schedules : sched[s].state = "absent" <=> s \in OneOffs
  /\ run = [r \in Runs |-> Blank("none")]
  /\ skips = {}
  /\ queueing = [r \in Runs |-> "idle"]
  /\ msgs = {}
  /\ worker = [w \in Workers |-> Idle]
  /\ tick = IdleTick(0)
  /\ edit = [s \in Schedules |-> NoEdit]
  /\ module = "visible"
  /\ used = [k \in Kinds |-> 0]
  /\ editedAt = [s \in Schedules |-> 0]

----------------------------------------------------------------------------
(* Timing.                                                                 *)

Latest(T) == CHOOSE t \in T : \A u \in T : u <= t

(* latest_occurrence: ONCE answers run_at whether or not it has come; 0 is
   None.                                                                   *)
latest_occurrence(d, t) ==
  IF d \in Once THEN Latest(DueAt[d])
  ELSE LET past == {u \in DueAt[d] : u <= t}
       IN  IF past = {} THEN 0 ELSE Latest(past)

_should_run_occurrence(s, o, t) ==
  /\ o <= t
  /\ \/ t - o <= LateTolerance
     \/ s \in Recovering /\ (MissedGrace = 0 \/ t - o <= MissedGrace)

(* Mutant: the comparison on minutes is strict. *)
PredatesStrictly(row, o) == row.key = NoKey /\ o < row.updated

_occurrence_predates_schedule_revision(row, o) ==
  row.key = NoKey /\ o <= row.updated

queued_stale_deadline(row) ==
  row.since + QueuedStale + (IF row.attempt > 0 THEN RetryDelay ELSE 0)

HardLimit == Timeout + Grace

(* Celery's time_limit ends a task before HardLimit minutes are over. *)
Elapse ==
  /\ now < MaxTime
  /\ \A w \in Workers : worker[w] # Idle => now < worker[w].since + HardLimit
  /\ TimelyTicks => tick.pc = "idle" /\ tick.now = now
  /\ now' = now + 1
  /\ UNCHANGED <<dbVars, queueing, msgs, worker, tick, edit, module, used,
                 editedAt>>

----------------------------------------------------------------------------
(* The tick, one process: systemd starts tec_tac_scheduler_tick once a     *)
(* minute and never twice at a time.                                       *)

(* Mutants: running candidates without the grace period, which Celery's hard
   limit includes; recovery of RUNNING runs only; a status outside the enum. *)
TickStartWith(stale, limit, status) ==
  /\ tick.pc = "idle"
  /\ tick.now < now
  /\ run' = [r \in Runs |-> IF r \in stale THEN Ended(r, status, "Stale") ELSE run[r]]
  /\ tick' = [IdleTick(now) EXCEPT
                 !.pc = "recover",
                 !.stale = {r \in Runs : run[r].status = "running"
                                         /\ now - run[r].since > limit}]
  /\ UNCHANGED <<envVars, sched, skips, queueing, msgs, worker, used>>
StaleQueued == {r \in Runs : /\ run[r].status = "queued"
                             /\ now > queued_stale_deadline(run[r])}
TickStartNoGrace == TickStartWith(StaleQueued, Timeout, "failed")
TickStartRunningOnly == TickStartWith({}, HardLimit, "failed")
TickStartStaleStatus == TickStartWith(StaleQueued, HardLimit, "stale")

(* recover_stale_runs, first half: one transaction fails every stale QUEUED
   run; then the RUNNING candidates are read without a lock.               *)
TickStart == TickStartWith(StaleQueued, HardLimit, "failed")

(* recover_stale_runs, second half, per candidate under its row lock.
   revoke(terminate=True) kills the worker that executes the task; when it
   raises, the run keeps its status and the next tick tries again.         *)
RecoverRunning(r) ==
  LET revokes == run[r].taskId /\ run[r].comp \notin {"module", "server"}
      waiting == run[r].comp \in {"module", "server"}
  IN  /\ tick.pc = "recover"
      /\ r \in tick.stale
      /\ tick' = [tick EXCEPT !.stale = @ \ {r}]
      /\ \/ /\ run[r].status # "running"
            /\ UNCHANGED <<run, worker, used>>
         \/ /\ run[r].status = "running"
            /\ run' = [run EXCEPT ![r] =
                 IF waiting
                 THEN [Ended(r, "failed", "CompletionTimeout") EXCEPT !.comp = "expired"]
                 ELSE Ended(r, "failed", "Stale")]
            /\ worker' = [w \in Workers |->
                            IF revokes /\ worker[w].run = r THEN Idle ELSE worker[w]]
            /\ UNCHANGED used
         \/ /\ run[r].status = "running"
            /\ revokes
            /\ Spend("fault")
            /\ UNCHANGED <<run, worker>>
      /\ UNCHANGED <<envVars, sched, skips, queueing, msgs>>

Blocked(vis) == vis # "visible"
Enabled(s) == sched[s].state = "enabled"

(* Mutant: a reason, once set, is kept. *)
PausedForGood(reason, vis) ==
  IF vis \in {"unreadable", "visible"} THEN reason ELSE vis

(* What sync_module_schedule_state and _apply_module_pause leave in
   paused_reason: only Core's own reason is cleared, and nothing is written
   while the module state cannot be read.                                  *)
Paused(reason, vis) ==
  CASE vis = "unreadable" -> reason
    [] vis = "visible"    -> ""
    [] OTHER              -> vis

(* schedule_ids, ScheduleVisibility() and sync_module_schedule_state: the
   enabled schedules and the module state are read once for the tick.      *)
TickList ==
  /\ tick.pc = "recover"
  /\ tick.stale = {}
  /\ tick' = [tick EXCEPT !.pc = "dispatch", !.vis = module,
                          !.todo = {s \in Schedules : Enabled(s)}]
  /\ sched' = [s \in Schedules |->
        IF Enabled(s) \/ ~Blocked(module)
        THEN [sched[s] EXCEPT !.paused = Paused(@, module)] ELSE sched[s]]
  /\ UNCHANGED <<envVars, run, skips, queueing, msgs, worker, used>>

(* dispatch_due_schedules, one schedule under its row lock.  Dispatching(s)
   is the head of the loop body; the actions below are its continues, each
   guarded by the negation of the ones before it, and its fall-through.    *)
Dispatching(s) ==
  /\ tick.pc = "dispatch"
  /\ tick.run = NoRun
  /\ s \in tick.todo
  /\ UNCHANGED <<envVars, msgs, worker, used>>

Runnable(s) == Enabled(s) /\ ~Blocked(tick.vis)

DoneWith(s) == tick' = [tick EXCEPT !.todo = @ \ {s}]
SetRow(s, row) == sched' = [sched EXCEPT ![s] = row]
NoRow == UNCHANGED <<run, skips, queueing>>
SkipRow(s, o, why) ==
  /\ skips' = skips \cup {[sched |-> s, due |-> o, why |-> why, at |-> tick.now]}
  /\ UNCHANGED <<run, queueing>>

(* The row after _apply_module_pause and the canonical-targets save. *)
Canonical(s) ==
  LET row == [sched[s] EXCEPT !.paused = Paused(@, "visible")]
  IN  IF row.targets = "legacy" THEN Touched([row EXCEPT !.targets = "canonical"])
      ELSE row

Valid(s) == Runnable(s) /\ sched[s].targets # "invalid"
Occurrence(s) == latest_occurrence(sched[s].def, tick.now)
HasNew(s) == Occurrence(s) # 0 /\ Occurrence(s) # sched[s].key
Baseline(s) == _occurrence_predates_schedule_revision(Canonical(s), Occurrence(s))
IsDue(s) == Valid(s) /\ HasNew(s) /\ ~Baseline(s)
IsCurrent(s) == IsDue(s) /\ _should_run_occurrence(s, Occurrence(s), tick.now)
(* Mutants: only one of the two active statuses holds the schedule back. *)
OverlapsRunning(s) ==
  s \in SkipPolicy /\ \E r \in RunsOf(s) : run[r].status = "running"
OverlapsQueued(s) ==
  s \in SkipPolicy /\ \E r \in RunsOf(s) : run[r].status = "queued"

Overlaps(s) == s \in SkipPolicy /\ ActiveRuns(s) # {}

(* last_due_key is set, which makes updated_at unread; `off' also switches
   a ONCE schedule off.                                                     *)
Consumed(s, off) ==
  [Canonical(s) EXCEPT !.key = Occurrence(s), !.updated = 0,
     !.state = IF off /\ sched[s].def \in Once THEN "disabled" ELSE @]

DispatchGone(s) ==
  /\ Dispatching(s) /\ ~Enabled(s)
  /\ DoneWith(s) /\ NoRow /\ UNCHANGED sched

(* An exception in the body: its transaction is rolled back and the tick goes
   on with the next schedule.                                              *)
DispatchError(s) ==
  /\ Dispatching(s) /\ Enabled(s)
  /\ DoneWith(s) /\ NoRow /\ UNCHANGED sched

DispatchPaused(s) ==
  /\ Dispatching(s) /\ Enabled(s) /\ Blocked(tick.vis)
  /\ SetRow(s, [sched[s] EXCEPT !.paused = Paused(@, tick.vis)])
  /\ DoneWith(s) /\ NoRow

DispatchInvalidTargets(s) ==
  /\ Dispatching(s) /\ Runnable(s) /\ ~Valid(s)
  /\ SetRow(s, Touched([sched[s] EXCEPT !.state = "disabled",
                                        !.paused = Paused(@, "visible")]))
  /\ SkipRow(s, NoKey, "InvalidTargetShape")
  /\ DoneWith(s)

DispatchNothingNew(s) ==
  /\ Dispatching(s) /\ Valid(s) /\ ~HasNew(s)
  /\ SetRow(s, Canonical(s))
  /\ DoneWith(s) /\ NoRow

(* _consume_revision_baseline *)
DispatchBaseline(s) ==
  /\ Dispatching(s) /\ Valid(s) /\ HasNew(s) /\ Baseline(s)
  /\ SetRow(s, Consumed(s, TRUE))
  /\ DoneWith(s) /\ NoRow

(* _runtime_authorization_error: the environment decides whether the owner
   still holds the action.                                                 *)
DispatchUnauthorized(s) ==
  /\ Dispatching(s) /\ IsDue(s)
  /\ SetRow(s, Consumed(s, FALSE))
  /\ SkipRow(s, Occurrence(s), "AuthorizationRevoked")
  /\ DoneWith(s)

DispatchMissed(s) ==
  /\ Dispatching(s) /\ IsDue(s) /\ ~IsCurrent(s)
  /\ SetRow(s, Consumed(s, TRUE))
  /\ SkipRow(s, Occurrence(s), "Missed")
  /\ DoneWith(s)

(* get_scheduled_action raises: the environment decides whether the action
   is registered in the tick's process.                                    *)
DispatchUnavailable(s) ==
  /\ Dispatching(s) /\ IsCurrent(s)
  /\ SetRow(s, Consumed(s, TRUE))
  /\ SkipRow(s, Occurrence(s), "ActionUnavailable")
  /\ DoneWith(s)

DispatchOverlap(s) ==
  /\ Dispatching(s) /\ IsCurrent(s) /\ Overlaps(s)
  /\ SetRow(s, Consumed(s, FALSE))
  /\ SkipRow(s, Occurrence(s), "ConcurrencySkip")
  /\ DoneWith(s)

(* The run is committed QUEUED; _queue_run follows outside the transaction. *)
DispatchRun(s) ==
  /\ Dispatching(s) /\ IsCurrent(s) /\ ~Overlaps(s)
  /\ HasFresh
  /\ SetRow(s, Consumed(s, TRUE))
  /\ run' = [run EXCEPT ![Fresh] = Queued(s, "scheduled", Occurrence(s))]
  /\ queueing' = [queueing EXCEPT ![Fresh] = "send"]
  /\ tick' = [tick EXCEPT !.todo = @ \ {s}, !.run = Fresh]
  /\ UNCHANGED skips

(* cleanup_once_schedules reads the disabled ONCE schedules first ... *)
TickCleanup ==
  /\ tick.pc = "dispatch"
  /\ tick.todo = {} /\ tick.run = NoRun
  /\ tick' = [tick EXCEPT !.pc = "cleanup",
        !.todo = {s \in Schedules : sched[s].state = "disabled" /\ sched[s].def \in Once}]
  /\ UNCHANGED <<envVars, dbVars, queueing, msgs, worker, used>>

Deleted(s) == [sched EXCEPT ![s] = Absent]
Unlinked(s, rows) ==
  [r \in Runs |-> IF r \in RunsOf(s) THEN [rows[r] EXCEPT !.linked = FALSE]
                 ELSE rows[r]]

(* ... then looks for active runs of each one; whether its retention is over
   is left to the environment ...                                          *)
CleanupCheck(s) ==
  /\ tick.pc = "cleanup" /\ tick.doomed = {}
  /\ s \in tick.todo
  /\ \/ DoneWith(s) /\ UNCHANGED used
     \/ /\ ActiveRuns(s) = {}
        /\ Spend("retire")
        /\ tick' = [tick EXCEPT !.todo = @ \ {s}, !.doomed = {s}]
  /\ UNCHANGED <<envVars, dbVars, queueing, msgs, worker>>

(* ... and deletes it, without a lock and without reading it again. *)
CleanupDelete(s) ==
  /\ s \in tick.doomed
  /\ tick' = [tick EXCEPT !.doomed = {}]
  /\ sched' = Deleted(s)
  /\ run' = Unlinked(s, run)
  /\ UNCHANGED <<envVars, skips, queueing, msgs, worker, used>>

(* cleanup_run_history: terminal runs past their retention *)
CleanupRun(r) ==
  /\ tick.pc = "cleanup" /\ tick.todo = {} /\ tick.doomed = {}
  /\ IsTerminal(r) /\ queueing[r] = "idle"
  /\ Spend("retire")
  /\ run' = [run EXCEPT ![r] = Blank("deleted")]
  /\ UNCHANGED <<envVars, sched, skips, queueing, msgs, worker, tick>>

(* settle_server_job_runs, after dispatch_due_schedules returned *)
TickSettle ==
  /\ tick.pc = "cleanup" /\ tick.todo = {} /\ tick.doomed = {}
  /\ tick' = [tick EXCEPT !.pc = "settle"]
  /\ UNCHANGED <<envVars, dbVars, queueing, msgs, worker, used>>

(* _apply_outcome, applied: the run was RUNNING and pending of this kind *)
Apply(r, kind, st) ==
  /\ run[r].status = "running" /\ run[r].comp = kind
  /\ run' = [run EXCEPT ![r] = [Ended(r, st, "Outcome") EXCEPT !.comp = "completed"]]
  /\ sched' = TouchScheduleOf(r)

(* _settle_one: the environment decides how the server job ended *)
SettleServerJob(r) ==
  /\ tick.pc = "settle"
  /\ \E st \in {"succeeded", "failed"} : Apply(r, "server", st)
  /\ UNCHANGED <<envVars, skips, queueing, msgs, worker, tick, used>>

TickEnd ==
  /\ tick.pc = "settle"
  /\ tick' = IdleTick(tick.now)
  /\ UNCHANGED <<envVars, dbVars, queueing, msgs, worker, used>>

TickCrash ==
  /\ tick.pc # "idle"
  /\ Spend("crash")
  /\ tick' = IdleTick(tick.now)
  /\ queueing' = [r \in Runs |-> IF r = tick.run THEN "idle" ELSE queueing[r]]
  /\ UNCHANGED <<envVars, dbVars, msgs, worker>>

----------------------------------------------------------------------------
(* _queue_run, in the tick's process for tick.run and in a web or worker    *)
(* process for every other run.                                            *)

(* The caller goes on: the tick to its next schedule. *)
Return(r) == tick' = IF tick.run = r THEN [tick EXCEPT !.run = NoRun] ELSE tick

Goto(r, phase) == queueing' = [queueing EXCEPT ![r] = phase]

(* apply_async: the message is at the broker, or it raises; an exception may
   also come after the broker took the message.                            *)
QueueSend(r) ==
  LET m == [run |-> r, retries |-> 0, eta |-> now]
  IN  /\ queueing[r] = "send"
      /\ \/ Goto(r, "saveId") /\ msgs' = msgs \cup {m} /\ UNCHANGED used
         \/ Goto(r, "fail") /\ UNCHANGED <<msgs, used>>
         \/ Goto(r, "fail") /\ msgs' = msgs \cup {m} /\ Spend("fault")
      /\ UNCHANGED <<envVars, dbVars, worker, tick>>

(* run.save(celery_task_id), then state.save: either can raise *)
QueueSaveId(r) ==
  /\ queueing[r] = "saveId"
  /\ \/ /\ run' = [run EXCEPT ![r].taskId = TRUE]
        /\ Goto(r, "saveState") /\ UNCHANGED used
     \/ Goto(r, "fail") /\ Spend("fault") /\ UNCHANGED run
  /\ UNCHANGED <<envVars, sched, skips, msgs, worker, tick>>

QueueSaveState(r) ==
  /\ queueing[r] = "saveState"
  /\ \/ Goto(r, "idle") /\ Return(r) /\ UNCHANGED used
     \/ Goto(r, "fail") /\ Spend("fault") /\ UNCHANGED tick
  /\ UNCHANGED <<envVars, dbVars, msgs, worker>>

(* The except branch writes FAILED whatever the row holds by now;
   start_one_off_run then deletes its schedule.                            *)
QueueFail(r) ==
  LET s == run[r].sched
      failed == [run EXCEPT ![r] = Ended(r, "failed", "DispatchError")]
  IN  /\ queueing[r] = "fail"
      /\ Goto(r, "idle") /\ Return(r)
      /\ IF run[r].kind = "oneoff"
         THEN sched' = Deleted(s) /\ run' = Unlinked(s, failed)
         ELSE UNCHANGED sched /\ run' = failed
      /\ UNCHANGED <<envVars, skips, msgs, worker, used>>

WebCrash(r) ==
  /\ queueing[r] # "idle" /\ tick.run # r
  /\ Spend("crash")
  /\ Goto(r, "idle")
  /\ UNCHANGED <<envVars, dbVars, msgs, worker, tick>>

----------------------------------------------------------------------------
(* The worker: execute_schedule_run.                                       *)

(* A message is delivered once its countdown is over; `again' leaves it at
   the broker to be delivered a second time.                               *)
Deliver(m, again) ==
  /\ m.eta <= now
  /\ IF again THEN Spend("dup") /\ UNCHANGED msgs
     ELSE msgs' = msgs \ {m} /\ UNCHANGED used

DropMessage(m, again) ==
  /\ Deliver(m, again)
  /\ run[m.run].status # "queued"
  /\ UNCHANGED <<envVars, dbVars, queueing, worker, tick>>

(* run_blocked_reason at the claim: the module state is read again *)
SkipBlocked(m, again) ==
  /\ Deliver(m, again)
  /\ run[m.run].status = "queued" /\ Blocked(module)
  /\ run' = [run EXCEPT ![m.run] = Ended(m.run, "skipped", "ModuleUnavailable")]
  /\ UNCHANGED <<envVars, sched, skips, queueing, worker, tick>>

(* The claim of a run in one of the statuses `from'. *)
ClaimFrom(from, w, m, again, authorized) ==
  /\ worker[w] = Idle
  /\ Deliver(m, again)
  /\ run[m.run].status \in from /\ ~Blocked(module)
  /\ authorized \/ run[m.run].kind = "oneoff"
  /\ run' = [run EXCEPT ![m.run].status = "running", ![m.run].since = now,
                        ![m.run].attempt = m.retries + 1, ![m.run].why = ""]
  /\ worker' = [worker EXCEPT ![w] =
        [phase |-> IF authorized THEN "handler" ELSE "refuse",
         run |-> m.run, retries |-> m.retries, since |-> now]]
  /\ UNCHANGED <<envVars, sched, skips, queueing, tick>>

(* Mutants: the status is not checked, or a failed run can be claimed. *)
ClaimTwice(w, m, again, authorized) ==
  ClaimFrom({"queued", "running"}, w, m, again, authorized)
ClaimFailed(w, m, again, authorized) ==
  ClaimFrom({"queued", "failed"}, w, m, again, authorized)

(* The claim.  A one-off run is then re-checked against the user it was
   started for; the environment decides the outcome.                       *)
Claim(w, m, again, authorized) == ClaimFrom({"queued"}, w, m, again, authorized)

IdleAgain(w) == worker' = [worker EXCEPT ![w] = Idle]

(* Every exit of the worker re-reads the row under its lock and leaves it
   alone unless it is still RUNNING.                                       *)
StillRunning(w) == run[worker[w].run].status = "running"

Abandon(w) ==
  /\ worker[w].phase \in {"handler", "refuse"} /\ ~StillRunning(w)
  /\ IdleAgain(w)
  /\ UNCHANGED <<envVars, dbVars, queueing, msgs, tick, used>>

(* _skip_unauthorized_one_off *)
RefuseOneOff(w) ==
  LET r == worker[w].run
  IN  /\ worker[w].phase = "refuse" /\ StillRunning(w)
      /\ run' = [run EXCEPT ![r] = Ended(r, "skipped", "AuthorizationRevoked")]
      /\ IdleAgain(w)
      /\ UNCHANGED <<envVars, sched, skips, queueing, msgs, tick, used>>

Succeed(w) ==
  LET r == worker[w].run
  IN  /\ Executing(w) /\ StillRunning(w)
      /\ run' = [run EXCEPT ![r] = Ended(r, "succeeded", "")]
      /\ sched' = TouchScheduleOf(r)
      /\ IdleAgain(w)
      /\ UNCHANGED <<envVars, skips, queueing, msgs, tick, used>>

(* A permanent error, a PendingRefused, or a retryable one with no retries
   left.                                                                   *)
Fail(w) ==
  LET r == worker[w].run
  IN  /\ Executing(w) /\ StillRunning(w)
      /\ run' = [run EXCEPT ![r] = Ended(r, "failed", "Error")]
      /\ sched' = TouchScheduleOf(r)
      /\ IdleAgain(w)
      /\ UNCHANGED <<envVars, skips, queueing, msgs, tick, used>>

(* A retryable error: the row goes back to QUEUED in its own transaction ... *)
Requeue(w) ==
  LET r == worker[w].run
  IN  /\ Executing(w) /\ StillRunning(w)
      /\ worker[w].retries < RetryCount
      /\ run' = [run EXCEPT ![r].status = "queued", ![r].since = now,
                            ![r].why = "Error"]
      /\ worker' = [worker EXCEPT ![w].phase = "retry"]
      /\ UNCHANGED <<envVars, sched, skips, queueing, msgs, tick, used>>


(* ... and self.retry sends the next attempt with its countdown. *)
SendRetry(w) ==
  /\ worker[w].phase = "retry"
  /\ msgs' = msgs \cup {[run |-> worker[w].run, retries |-> worker[w].retries + 1,
                         eta |-> now + RetryDelay]}
  /\ IdleAgain(w)
  /\ UNCHANGED <<envVars, dbVars, queueing, tick, used>>

(* park_pending_run: the run stays RUNNING for a later outcome *)
Park(w, kind) ==
  /\ Executing(w) /\ StillRunning(w)
  /\ run' = [run EXCEPT ![worker[w].run].comp = kind]
  /\ IdleAgain(w)
  /\ UNCHANGED <<envVars, sched, skips, queueing, msgs, tick, used>>

(* complete_pending_run, called by the module that owns the action *)
Complete(r) ==
  /\ \E st \in {"succeeded", "failed"} : Apply(r, "module", st)
  /\ UNCHANGED <<envVars, skips, queueing, msgs, worker, tick, used>>

(* The hard time limit, or the loss of the worker process at any point *)
TimeLimit(w) ==
  /\ worker[w] # Idle /\ now = worker[w].since + HardLimit
  /\ IdleAgain(w)
  /\ UNCHANGED <<envVars, dbVars, queueing, msgs, tick, used>>

WorkerCrash(w) ==
  /\ worker[w] # Idle
  /\ Spend("crash")
  /\ IdleAgain(w)
  /\ UNCHANGED <<envVars, dbVars, queueing, msgs, tick>>

LoseMessage(m) ==
  /\ Spend("lost")
  /\ msgs' = msgs \ {m}
  /\ UNCHANGED <<envVars, dbVars, queueing, worker, tick>>

----------------------------------------------------------------------------
(* The browser and the modules.                                            *)

(* _hide_if_module_disabled answers 404 for these states *)
Hidden == module \in {"disabled", "unreadable"}
(* Mutant: the browser may change one-off schedules. *)
AnyoneManaged(s) == sched[s].state # "absent"

UserManaged(s) == sched[s].state # "absent" /\ s \notin OneOffs

(* SchedulerDetailView.patch reads the row without a lock ... *)
EditRead(s) ==
  /\ UserManaged(s) /\ ~Hidden /\ ~edit[s].on
  /\ Spend("edit")
  /\ \E d \in Definitions, st \in {"enabled", "disabled"} :
       edit' = [edit EXCEPT ![s] = [on |-> TRUE, def |-> d, state |-> st,
                                    paused |-> sched[s].paused]]
  /\ UNCHANGED <<now, module, editedAt, dbVars, queueing, msgs, worker, tick>>

(* ... and saves the whole row: an UPDATE, or an INSERT when the row is gone *)
EditSave(s) ==
  /\ edit[s].on
  /\ SetRow(s, [state |-> edit[s].state, def |-> edit[s].def, key |-> NoKey,
                updated |-> now, paused |-> edit[s].paused, targets |-> "canonical"])
  /\ edit' = [edit EXCEPT ![s] = NoEdit]
  /\ editedAt' = [editedAt EXCEPT ![s] = now]
  /\ UNCHANGED <<now, module, run, skips, queueing, msgs, worker, tick, used>>

(* SchedulerDetailView.delete: refused while runs are active unless forced *)
Delete(s, force) ==
  LET rows == [r \in Runs |-> IF r \in ActiveRuns(s)
                             THEN Ended(r, "failed", "ForceDeleted") ELSE run[r]]
  IN  /\ UserManaged(s) /\ ~Hidden
      /\ ActiveRuns(s) = {} \/ force
      /\ Spend("delete")
      /\ sched' = Deleted(s)
      /\ run' = Unlinked(s, rows)
      /\ UNCHANGED <<envVars, skips, queueing, msgs, worker, tick>>

(* SchedulerRunNowView.post and queue_manual_run *)
RunNowInvalid(s) ==
  /\ UserManaged(s) /\ ~Blocked(module) /\ sched[s].paused = ""
  /\ sched[s].targets = "invalid"
  /\ Spend("manual")
  /\ SetRow(s, Touched([sched[s] EXCEPT !.state = "disabled"]))
  /\ UNCHANGED <<envVars, run, skips, queueing, msgs, worker, tick>>

Start(s, kind) ==
  /\ HasFresh
  /\ run' = [run EXCEPT ![Fresh] = Queued(s, kind, NoKey)]
  /\ queueing' = [queueing EXCEPT ![Fresh] = "send"]

RunNow(s) ==
  /\ UserManaged(s) /\ ~Blocked(module) /\ sched[s].paused = ""
  /\ sched[s].targets # "invalid"
  /\ Spend("manual")
  /\ SetRow(s, Canonical(s))
  /\ Start(s, "manual")
  /\ UNCHANGED <<envVars, skips, msgs, worker, tick>>

(* start_one_off_run: a disabled ONCE schedule of its own and a manual run *)
StartOneOff(s) ==
  /\ s \in OneOffs /\ sched[s].state = "absent" /\ ~Blocked(module)
  /\ \A r \in Runs : run[r].status # "none" => run[r].sched # s
  /\ Spend("oneoff")
  /\ \E d \in Once : SetRow(s, [Absent EXCEPT !.state = "disabled", !.def = d,
                                             !.updated = now])
  /\ Start(s, "oneoff")
  /\ UNCHANGED <<envVars, skips, msgs, worker, tick>>

ModuleChange ==
  /\ Spend("toggle")
  /\ module' \in ModuleStates \ {module}
  /\ UNCHANGED <<now, edit, editedAt, dbVars, queueing, msgs, worker, tick>>

----------------------------------------------------------------------------
TickStep ==
  \/ TickStart
  \/ \E r \in Runs : RecoverRunning(r)
  \/ TickList
  \/ \E s \in Schedules :
       \/ DispatchGone(s)
       \/ DispatchError(s)
       \/ DispatchPaused(s)
       \/ DispatchInvalidTargets(s)
       \/ DispatchNothingNew(s)
       \/ DispatchBaseline(s)
       \/ DispatchUnauthorized(s)
       \/ DispatchMissed(s)
       \/ DispatchUnavailable(s)
       \/ DispatchOverlap(s)
       \/ DispatchRun(s)
  \/ TickCleanup
  \/ \E s \in Schedules : CleanupCheck(s) \/ CleanupDelete(s)
  \/ \E r \in Runs : CleanupRun(r)
  \/ TickSettle
  \/ \E r \in Runs : SettleServerJob(r)
  \/ TickEnd

QueueStep(r) ==
  QueueSend(r) \/ QueueSaveId(r) \/ QueueSaveState(r) \/ QueueFail(r)

WorkerStep ==
  \/ \E m \in msgs, again \in BOOLEAN :
       \/ DropMessage(m, again)
       \/ SkipBlocked(m, again)
       \/ \E w \in Workers, ok \in BOOLEAN : Claim(w, m, again, ok)
  \/ \E w \in Workers :
       \/ Abandon(w)
       \/ RefuseOneOff(w)
       \/ Succeed(w)
       \/ Fail(w)
       \/ Requeue(w)
       \/ SendRetry(w)
       \/ \E kind \in {"module", "server"} : Park(w, kind)
  \/ \E r \in Runs : Complete(r)

WebStep ==
  \E s \in Schedules :
    \/ EditRead(s)
    \/ EditSave(s)
    \/ \E force \in BOOLEAN : Delete(s, force)
    \/ RunNowInvalid(s)
    \/ RunNow(s)
    \/ StartOneOff(s)

FaultStep ==
  \/ TickCrash
  \/ \E r \in Runs : WebCrash(r)
  \/ \E w \in Workers : WorkerCrash(w)
  \/ \E m \in msgs : LoseMessage(m)
  \/ ModuleChange

Next ==
  \/ Elapse
  \/ TickStep
  \/ \E r \in Runs : QueueStep(r)
  \/ WorkerStep
  \/ \E w \in Workers : TimeLimit(w)
  \/ WebStep
  \/ FaultStep

Spec == Init /\ [][Next]_vars

(* What the deployment guarantees: the systemd timer keeps ticking, the
   tick and the process that queues a run go on unless they crash, time
   passes, and Celery enforces its hard time limit.  Nothing is assumed of
   the workers or the broker.                                              *)
Fairness ==
  /\ WF_vars(Elapse)
  /\ WF_vars(TickStep)
  /\ WF_vars(\E r \in Runs : QueueStep(r))
  /\ \A w \in Workers : WF_vars(TimeLimit(w))

FairSpec == Spec /\ Fairness

----------------------------------------------------------------------------
(* Properties.                                                             *)

SkipRows == [sched : Schedules, due : Nat, why : Reasons, at : Nat]
Messages == [run : Runs, retries : Nat, eta : Nat]
WorkerStates == {Idle} \cup [phase : {"handler", "refuse", "retry"}, run : Runs,
                             retries : Nat, since : Nat]
TickStates ==
  [pc : {"idle", "recover", "dispatch", "cleanup", "settle"}, now : Nat,
   vis : {"visible", "disabled", "orphaned", "unreadable"},
   todo : SUBSET Schedules, stale : SUBSET Runs, run : Runs \cup {NoRun},
   doomed : SUBSET Schedules]
EditStates == [on : BOOLEAN, def : Definitions,
               state : {"absent", "enabled", "disabled"},
               paused : {"", "disabled", "orphaned"}]

(* Every variable has the shape of the row, message or local state it stands
   for (the model fields of models.py and the locals of the tick and task). *)
TypeOK ==
  /\ now \in Nat
  /\ sched \in [Schedules -> ScheduleRows]
  /\ run \in [Runs -> RunRows]
  /\ skips \subseteq SkipRows
  /\ queueing \in [Runs -> {"idle", "send", "saveId", "saveState", "fail"}]
  /\ msgs \subseteq Messages
  /\ worker \in [Workers -> WorkerStates]
  /\ tick \in TickStates
  /\ edit \in [Schedules -> EditStates]
  /\ module \in {"visible", "disabled", "orphaned", "unreadable"}
  /\ used \in [Kinds -> Nat]
  /\ editedAt \in [Schedules -> Nat]

(* The claim of execute_schedule_run: however messages are duplicated,
   retried and recovered, no two workers are ever inside the handler of the
   same run.                                                               *)
OneHandlerPerRun ==
  \A v, w \in Workers :
    Executing(v) /\ Executing(w) /\ worker[v].run = worker[w].run => v = w

ScheduledActive(s) == {r \in ActiveRuns(s) : run[r].kind = "scheduled"}

(* concurrency_policy SKIP as the rows show it: the tick never leaves two of
   its own runs of one schedule QUEUED or RUNNING at the same time.        *)
SkipAtMostOneActive ==
  \A s \in SkipPolicy : \A q, r \in ScheduledActive(s) : q = r

(* concurrency_policy SKIP as the managed machines see it: two handlers the
   tick started for one schedule never execute at the same time, although
   recovery gives up on runs and lets the schedule go on.                  *)
SkipNeverOverlaps ==
  \A v, w \in Workers :
    LET q == worker[v].run
        r == worker[w].run
    IN  (/\ Executing(v) /\ Executing(w) /\ q # r
         /\ run[q].linked /\ run[r].linked
         /\ run[q].kind = "scheduled" /\ run[r].kind = "scheduled")
        => run[q].sched # run[r].sched \/ run[q].sched \notin SkipPolicy

(* recover_stale_runs: a run it gave up on as stale is not executing. *)
StaleRunsAreDead ==
  \A w \in Workers : Executing(w) => run[worker[w].run].why # "Stale"

(* A finished run keeps its outcome: no late task, completion, recovery or
   dispatch error changes the status of a run that is over.                *)
TerminalStays ==
  [][\A r \in Runs : IsTerminal(r) => run'[r].status \in {run[r].status, "deleted"}]_vars

(* A claim starts an attempt that was not started before: no attempt of a
   run is executed twice, whatever the broker delivers.                    *)
AttemptsAdvance ==
  [][\A r \in Runs : run[r].status = "queued" /\ run'[r].status = "running"
       => run'[r].attempt > run[r].attempt]_vars

(* The rows the tick wrote for an occurrence of a schedule *)
HasRow(s, o) ==
  \/ \E k \in skips : k.sched = s /\ k.due = o
  \/ \E r \in Runs : /\ run[r].status \notin {"none", "deleted"}
                     /\ run[r].kind = "scheduled"
                     /\ run[r].sched = s /\ run[r].due = o

(* The tick accounts for an occurrence of a schedule at most once, even when
   an edit clears last_due_key between two ticks or during one.            *)
OccurrenceOnce ==
  [][\A s \in Schedules : HasRow(s, sched'[s].key) /\ sched'[s].key # sched[s].key
       => skips' = skips /\ \A r \in Runs : run[r].status = "none" => run'[r].status = "none"]_vars

(* Only a create or an edit sets a baseline: the tick drops an occurrence
   without a trace only when it is older than the schedule's last edit.    *)
BaselineIsAnEdit ==
  [][\A s \in Schedules :
       (/\ sched[s].key # sched'[s].key /\ sched'[s].key # NoKey
        /\ skips' = skips
        /\ \A r \in Runs : run[r].status = "none" => run'[r].status = "none")
       => sched'[s].key <= editedAt[s]]_vars

(* latest_occurrence looks back, not ahead: an occurrence is recorded as
   missed only after its time has come.                                    *)
MissedIsPast ==
  \A k \in skips : k.why = "Missed" => k.due <= k.at

(* "A one-off run belongs to the user who started it and happens once": no
   run of a one-off schedule comes from the tick or from Run now, and there
   is never a second one.                                                  *)
OneOffHappensOnce ==
  \A q, r \in Runs :
    /\ run[q].status \notin {"none", "deleted"} /\ run[q].sched \in OneOffs
    /\ run[r].status \notin {"none", "deleted"} /\ run[r].sched = run[q].sched
    => q = r /\ run[q].kind = "oneoff"

(* sync_module_schedule_state resumes what it paused: a paused schedule does
   not stay paused while its module is there, even if an edit writes back a
   reason it read earlier.                                                 *)
PausedResumes ==
  \A s \in Schedules :
    sched[s].paused # "" /\ now <= 1 ~> sched[s].paused = "" \/ module # "visible"

(* recover_stale_runs, "so they cannot block a schedule forever": every run
   ends although workers die and messages are lost.  EarlyRun keeps out the
   runs the bounded clock leaves no time for.                              *)
EarlyRun(r) == IsActive(r) /\ now <= 1
RunsEnd == \A r \in Runs : EarlyRun(r) ~> ~IsActive(r)

============================================================================
