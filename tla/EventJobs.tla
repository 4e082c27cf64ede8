----------------------------- MODULE EventJobs -----------------------------
(***************************************************************************)
(* Event jobs (event_jobs.py) of one registered job: web processes publish *)
(* rows, Celery messages name them, workers claim and execute them, and    *)
(* the scheduler tick expires, recovers, sends again, trims and prunes.    *)
(* The row is the record; a message only tells a worker to look at it.     *)
(*                                                                         *)
(* Time is counted in minutes.  What publish decides from memory (caller,  *)
(* recent keys, rate, backlog gauge) only refuses a publish: it is a       *)
(* publish that does not happen.                                           *)
(***************************************************************************)
EXTENDS Integers, FiniteSets

CONSTANTS
  Keys,          \* the caller's idempotency keys
  Rows,          \* rows of TecTacEventJob that can be created
  Publishers,    \* processes that publish
  Workers,       \* Celery worker slots
  NoRow,
  MaxAttempts,   \* max_attempts of the job
  Backoff,       \* backoff_seconds, in minutes
  MaxBackoff,    \* max_backoff_seconds, in minutes
  HardLimit,     \* hard_time_limit_seconds, in minutes
  StaleGrace,    \* STALE_RUNNING_GRACE_SECONDS, in minutes
  Overdue,       \* OVERDUE_SECONDS, in minutes
  Expires,       \* expires_seconds, in minutes
  Dedupe,        \* dedupe_seconds, in minutes; 0 for none
  MaxBacklog,    \* max_backlog
  RowLimit,      \* TICK_ROW_LIMIT
  InTime,        \* who is done before a minute is over: "tick", "workers"
  MaxTime,       \* bound on the clock
  Budget         \* bound on the number of uses of each kind of event

Kinds == {"dup", "lost", "refuse", "crash", "toggle", "retire"}

ASSUME EventJobConstants ==
  /\ NoRow \notin Rows /\ Keys # {}
  /\ {MaxAttempts, Backoff, MaxBackoff, HardLimit, StaleGrace, Overdue} \subseteq Nat
  /\ {Expires, Dedupe, MaxBacklog, RowLimit, MaxTime} \subseteq Nat
  /\ MaxAttempts > 0 /\ RowLimit > 0
  /\ InTime \subseteq {"tick", "workers"}
  /\ Budget \in [Kinds -> Nat]

VARIABLES
  now,      \* the wall clock
  row,      \* TecTacEventJob rows
  pub,      \* what each publisher is in the middle of
  msgs,     \* execute_event_job messages at the broker
  worker,   \* what each worker slot executes
  tick,     \* recover_event_jobs
  module,   \* _module_status_now of the owning module
  used      \* how much of Budget is spent

vars == <<now, row, pub, msgs, worker, tick, module, used>>
envVars == <<now, module>>

----------------------------------------------------------------------------
(* Rows.                                                                   *)

Active == {"pending", "running"}
Finished == {"succeeded", "failed", "skipped", "expired"}

(* `enq' is last_enqueued_at; Never is its NULL.                           *)
Never == -1

JobRows ==
  [status : {"none", "pruned"} \cup Active \cup Finished, key : Keys, attempt : Nat,
   next : Nat, enq : Nat \cup {Never}, created : Nat, expires : Nat,
   started : Nat, finished : Nat]

Blank(st) == [status |-> st, key |-> CHOOSE k \in Keys : TRUE, attempt |-> 0,
              next |-> 0, enq |-> Never, created |-> 0, expires |-> 0,
              started |-> 0, finished |-> 0]

Pending(r) == row[r].status = "pending"
Running(r) == row[r].status = "running"
ActiveOf(k) == {r \in Rows : row[r].key = k /\ row[r].status \in Active}
Ended(r, st, t) == [row EXCEPT ![r].status = st, ![r].finished = t]

Quiet == [phase |-> "idle", key |-> CHOOSE k \in Keys : TRUE, row |-> NoRow]
Idle == [phase |-> "idle", row |-> NoRow, since |-> 0, expires |-> 0, delay |-> 0]
IdleTick(t) == [pc |-> "idle", now |-> t, todo |-> {}, row |-> NoRow, delay |-> 0]

Executing(w) == worker[w].phase = "handler"
Spend(k) == used[k] < Budget[k] /\ used' = [used EXCEPT ![k] = @ + 1]

Init ==
  /\ now = 0
  /\ row = [r \in Rows |-> Blank("none")]
  /\ pub = [p \in Publishers |-> Quiet]
  /\ msgs = {}
  /\ worker = [w \in Workers |-> Idle]
  /\ tick = IdleTick(0)
  /\ module = "runnable"
  /\ used = [k \in Kinds |-> 0]

----------------------------------------------------------------------------
(* Decisions of event_jobs_policy.py.                                      *)

(* base doubling with the attempt, capped, plus up to 20 percent jitter *)
backoff_delay(attempt) ==
  LET doubled == Backoff * 2 ^ (attempt - 1)
      delay == IF doubled \in 0 .. MaxBackoff THEN doubled ELSE MaxBackoff
  IN  delay .. (delay + (delay + 4) \div 5)

is_expired(r, t) == t >= row[r].expires

(* Mutants: the hard limit is forgotten; an expired row is left to expiry. *)
StaleBeforeLimit(r, t) == t - row[r].started > StaleGrace
StaleUnlessExpired(r, t) ==
  t - row[r].started > HardLimit + StaleGrace /\ ~is_expired(r, t)
is_stale_running(r, t) == t - row[r].started > HardLimit + StaleGrace

(* Mutant: only rows that were never sent are sent again. *)
NeverSent(r, t) == row[r].enq = Never
is_overdue_pending(r, t) ==
  \/ row[r].enq = Never
  \/ t - row[r].next > Overdue /\ t - row[r].enq > Overdue

over_backlog(n) == IF n > MaxBacklog THEN n - MaxBacklog ELSE 0

----------------------------------------------------------------------------
(* Messages.                                                               *)

(* _enqueue_row: one attempt to send a message for row r.  It fails when the
   row is about to expire, when the breaker is open or when the broker
   refuses; the last can come after the broker took the message.           *)
Message(r, t, delay) == [row |-> r, eta |-> t + delay, expires |-> row[r].expires]
Sent(r, t, delay) ==
  /\ row[r].expires > t
  /\ msgs' = msgs \cup {Message(r, t, delay)}
  /\ UNCHANGED used
NotSent(r, t, delay) ==
  \/ row[r].expires <= t /\ UNCHANGED <<msgs, used>>
  \/ /\ row[r].expires > t /\ Spend("refuse")
     /\ msgs' \in {msgs, msgs \cup {Message(r, t, delay)}}

(* Delivery: `again' leaves the message at the broker.                     *)
Deliver(m, again) ==
  /\ m.eta <= now /\ now <= m.expires
  /\ IF again THEN Spend("dup") /\ UNCHANGED msgs
     ELSE msgs' = msgs \ {m} /\ UNCHANGED used

LoseMessage(m) ==
  /\ \/ Spend("lost")
     \/ m.expires < now /\ UNCHANGED used
  /\ msgs' = msgs \ {m}
  /\ UNCHANGED <<envVars, row, pub, worker, tick>>

----------------------------------------------------------------------------
(* publish.  Its check of the module is a cached answer that may be old.    *)

(* _persist, the dedupe query: a success inside the window is a duplicate *)
RecentSuccess(k) ==
  Dedupe > 0 /\ \E r \in Rows : /\ row[r].key = k /\ row[r].status = "succeeded"
                                /\ row[r].finished >= now - Dedupe

Publish(p, k) ==
  /\ pub[p] = Quiet
  /\ \E r \in Rows : row[r].status = "none"
  /\ ~RecentSuccess(k)
  /\ pub' = [pub EXCEPT ![p] = [Quiet EXCEPT !.phase = "store", !.key = k]]
  /\ UNCHANGED <<envVars, row, msgs, worker, tick, used>>

(* Mutants: the unique constraint covers pending rows only; the row is sent
   under the name it had before the insert.                                *)
StoreIf(p, free) ==
  LET k == pub[p].key
  IN  /\ pub[p].phase = "store"
      /\ IF free
         THEN \E r \in Rows :
                /\ row[r].status = "none"
                /\ row' = [row EXCEPT ![r] =
                     [Blank("pending") EXCEPT !.key = k, !.next = now, !.enq = now,
                        !.created = now, !.expires = now + Expires]]
                /\ pub' = [pub EXCEPT ![p] = [@ EXCEPT !.phase = "send", !.row = r]]
         ELSE pub' = [pub EXCEPT ![p] = Quiet] /\ UNCHANGED row
      /\ UNCHANGED <<envVars, msgs, worker, tick, used>>
StoreOverRunning(p) ==
  StoreIf(p, \A r \in ActiveOf(pub[p].key) : ~Pending(r))
StoreNamesNoRow(p) ==
  /\ pub[p].phase = "store"
  /\ pub' = [pub EXCEPT ![p].phase = "send"]
  /\ UNCHANGED <<envVars, row, msgs, worker, tick, used>>

(* _persist, the insert: the partial unique constraint of the table lets a
   key be pending or running once; IntegrityError is a duplicate.          *)
Store(p) == StoreIf(p, ActiveOf(pub[p].key) = {})

(* _persist_safely: _enqueue_row, then _mark_not_enqueued if that failed *)
PublishSend(p) ==
  /\ pub[p].phase = "send"
  /\ \/ Sent(pub[p].row, now, 0) /\ pub' = [pub EXCEPT ![p] = Quiet]
     \/ NotSent(pub[p].row, now, 0) /\ pub' = [pub EXCEPT ![p].phase = "mark"]
  /\ UNCHANGED <<envVars, row, worker, tick>>

PublishMark(p) ==
  LET r == pub[p].row
  IN  /\ pub[p].phase = "mark"
      /\ row' = IF Pending(r) THEN [row EXCEPT ![r].enq = Never] ELSE row
      /\ pub' = [pub EXCEPT ![p] = Quiet]
      /\ UNCHANGED <<envVars, msgs, worker, tick, used>>

PublisherCrash(p) ==
  /\ pub[p] # Quiet
  /\ Spend("crash")
  /\ pub' = [pub EXCEPT ![p] = Quiet]
  /\ UNCHANGED <<envVars, row, msgs, worker, tick>>

----------------------------------------------------------------------------
(* run_event_job.                                                          *)

Due(r) == Pending(r) /\ row[r].next <= now

(* The row is gone, not pending, or not due yet. *)
RunNothing(m, again) ==
  /\ Deliver(m, again)
  /\ ~Due(m.row)
  /\ UNCHANGED <<envVars, row, pub, worker, tick>>

(* The verdicts before the claim, in their order.  A row is skipped when the
   module is unavailable, or the handler is not registered in this worker,
   which is left to the environment.                                       *)
RunExpired(m, again) ==
  /\ Deliver(m, again)
  /\ Due(m.row) /\ is_expired(m.row, now)
  /\ row' = Ended(m.row, "expired", now)
  /\ UNCHANGED <<envVars, pub, worker, tick>>

RunDeferred(m, again) ==
  /\ Deliver(m, again)
  /\ Due(m.row) /\ ~is_expired(m.row, now) /\ module = "unknown"
  /\ row' = [row EXCEPT ![m.row].next = now, ![m.row].enq = now]
  /\ UNCHANGED <<envVars, pub, worker, tick>>

RunSkipped(m, again) ==
  /\ Deliver(m, again)
  /\ Due(m.row) /\ ~is_expired(m.row, now) /\ module # "unknown"
  /\ row' = Ended(m.row, "skipped", now)
  /\ UNCHANGED <<envVars, pub, worker, tick>>

(* Mutant: the claim does not look at the status. *)
ClaimIf(w, m, again, free) ==
  /\ worker[w] = Idle
  /\ Deliver(m, again)
  /\ free /\ ~is_expired(m.row, now) /\ module = "runnable"
  /\ row' = [row EXCEPT ![m.row].status = "running", ![m.row].started = now,
                        ![m.row].attempt = @ + 1]
  /\ worker' = [worker EXCEPT ![w] =
        [Idle EXCEPT !.phase = "handler", !.row = m.row, !.since = now,
                     !.expires = m.expires]]
  /\ UNCHANGED <<envVars, pub, tick>>
ClaimAnyway(w, m, again) ==
  ClaimIf(w, m, again, row[m.row].status \in Active /\ row[m.row].next <= now)

Claim(w, m, again) == ClaimIf(w, m, again, Due(m.row))

Return(w) == worker' = [worker EXCEPT ![w] = Idle]

(* _finish_success leaves a row alone that is not running any more *)
FinishSuccess(w) ==
  LET r == worker[w].row
  IN  /\ Executing(w)
      /\ row' = IF Running(r) THEN Ended(r, "succeeded", now) ELSE row
      /\ Return(w)
      /\ UNCHANGED <<envVars, pub, msgs, tick, used>>

(* _finish_failure at time t, in its transaction: after_failure gives up on a
   permanent error and on the last attempt, and so does an expired row; a row
   that is not running any more is left alone.                             *)
GiveUp(r, t) == row' = IF Running(r) THEN Ended(r, "failed", t) ELSE row
Retry(r, t, delay) ==
  /\ Running(r) /\ row[r].attempt < MaxAttempts /\ ~is_expired(r, t)
  /\ delay \in backoff_delay(row[r].attempt)
  /\ row' = [row EXCEPT ![r].status = "pending", ![r].next = t + delay, ![r].enq = t]

Delays == UNION {backoff_delay(a) : a \in 1 .. MaxAttempts}

FinishFailure(w) ==
  LET r == worker[w].row
  IN  /\ Executing(w)
      /\ \/ GiveUp(r, now) /\ Return(w)
         \/ \E d \in Delays :
              /\ Retry(r, now, d)
              /\ worker' = [worker EXCEPT ![w].phase = "resend", ![w].delay = d]
      /\ UNCHANGED <<envVars, pub, msgs, tick, used>>

(* ... and the message of the next attempt, after the commit *)
Resend(w) ==
  /\ worker[w].phase = "resend"
  /\ \/ Sent(worker[w].row, now, worker[w].delay)
     \/ NotSent(worker[w].row, now, worker[w].delay)
  /\ Return(w)
  /\ UNCHANGED <<envVars, row, pub, tick>>

(* acks_late: a task stopped by its hard limit is acknowledged; a lost worker
   process puts its message back (reject_on_worker_lost).                  *)
TimeLimit(w) ==
  /\ worker[w] # Idle /\ now = worker[w].since + HardLimit
  /\ Return(w)
  /\ UNCHANGED <<envVars, row, pub, msgs, tick, used>>

WorkerCrash(w) ==
  /\ worker[w] # Idle
  /\ Spend("crash")
  /\ msgs' = msgs \cup {[row |-> worker[w].row, eta |-> now,
                         expires |-> worker[w].expires]}
  /\ Return(w)
  /\ UNCHANGED <<envVars, row, pub, tick>>

----------------------------------------------------------------------------
(* recover_event_jobs, in the tick: each step reads its rows and then goes  *)
(* through them, one transaction each.                                     *)

After(pc) == CASE pc = "expire" -> "gate" [] pc = "gate" -> "recover"
               [] pc = "recover" -> "enqueue" [] pc = "enqueue" -> "trim"
               [] pc = "trim" -> "prune" [] OTHER -> "idle"

(* The rows a step selects, at most RowLimit and in the step's order.  Rows
   that were never sent come before overdue ones.                          *)
Candidates(pc, t) ==
  CASE pc = "expire"  -> {r \in Rows : Pending(r) /\ is_expired(r, t)}
    [] pc = "gate"    -> {r \in Rows : Pending(r) /\ module = "unavailable"}
    [] pc = "recover" -> {r \in Rows : Running(r)}
    [] pc = "enqueue" -> {r \in Rows : Pending(r) /\ is_overdue_pending(r, t)}
    [] pc = "trim"    -> {r \in Rows : Pending(r)}
    [] OTHER          -> {}

Order(pc, r) ==
  CASE pc = "recover" -> row[r].started
    [] pc = "enqueue" -> IF row[r].enq = Never THEN row[r].created - MaxTime
                         ELSE row[r].next
    [] OTHER          -> row[r].created

Limit(pc, n) ==
  IF pc = "trim" /\ over_backlog(n) < RowLimit THEN over_backlog(n)
  ELSE IF n < RowLimit THEN n ELSE RowLimit

Select(pc, t) ==
  LET S == Candidates(pc, t)
      first == {F \in SUBSET S :
                  /\ Cardinality(F) = Limit(pc, Cardinality(S))
                  /\ \A r \in F, q \in S \ F : Order(pc, r) <= Order(pc, q)}
  IN  IF pc = "recover" THEN {{r \in F : is_stale_running(r, t)} : F \in first}
      ELSE first

Begin(pc, t) ==
  \E S \in Select(pc, t) : tick' = [IdleTick(t) EXCEPT !.pc = pc, !.todo = S]

TickStart ==
  /\ tick.pc = "idle" /\ tick.now < now
  /\ Begin("expire", now)
  /\ UNCHANGED <<envVars, row, pub, msgs, worker, used>>

(* The step is through its rows. *)
TickNext ==
  /\ tick.pc # "idle" /\ tick.todo = {} /\ tick.row = NoRow
  /\ Begin(After(tick.pc), tick.now)
  /\ UNCHANGED <<envVars, row, pub, msgs, worker, used>>

(* Mutant: a row is ended as it was listed, without a second look. *)
ExpireIf(r, still) ==
  /\ tick.pc \in {"expire", "gate", "trim"} /\ r \in tick.todo
  /\ row' = IF still THEN Ended(r, "expired", tick.now) ELSE row
  /\ tick' = [tick EXCEPT !.todo = @ \ {r}]
  /\ UNCHANGED <<envVars, pub, msgs, worker, used>>

(* _expire_rows, of _tick_expire, _tick_module_gate and _tick_trim *)
ExpireRow(r) == ExpireIf(r, Pending(r))

(* _tick_recover_running: _finish_failure with EventJobLost, which is not a
   permanent error, on the tick's clock.                                   *)
RecoverRow(r) ==
  /\ tick.pc = "recover" /\ tick.row = NoRow /\ r \in tick.todo
  /\ \/ /\ Running(r) => row[r].attempt >= MaxAttempts \/ is_expired(r, tick.now)
        /\ GiveUp(r, tick.now)
        /\ tick' = [tick EXCEPT !.todo = @ \ {r}]
     \/ \E d \in Delays :
          /\ Retry(r, tick.now, d)
          /\ tick' = [tick EXCEPT !.todo = @ \ {r}, !.row = r, !.delay = d]
  /\ UNCHANGED <<envVars, pub, msgs, worker, used>>

RecoverSend ==
  /\ tick.pc = "recover" /\ tick.row # NoRow
  /\ \/ Sent(tick.row, tick.now, tick.delay)
     \/ NotSent(tick.row, tick.now, tick.delay)
  /\ tick' = [tick EXCEPT !.row = NoRow]
  /\ UNCHANGED <<envVars, row, pub, worker>>

(* _tick_enqueue_overdue: a message that cannot be sent ends the step *)
EnqueueRow(r) ==
  /\ tick.pc = "enqueue" /\ tick.row = NoRow /\ r \in tick.todo
  /\ \/ /\ Sent(r, tick.now, 0)
        /\ tick' = [tick EXCEPT !.todo = @ \ {r}, !.row = r]
     \/ /\ NotSent(r, tick.now, 0)
        /\ tick' = [tick EXCEPT !.todo = {}]
  /\ UNCHANGED <<envVars, row, pub, worker>>

EnqueueStamp ==
  LET r == tick.row
  IN  /\ tick.pc = "enqueue" /\ r # NoRow
      /\ row' = IF Pending(r) THEN [row EXCEPT ![r].enq = tick.now] ELSE row
      /\ tick' = [tick EXCEPT !.row = NoRow]
      /\ UNCHANGED <<envVars, pub, msgs, worker, used>>

(* _tick_prune: a finished row past its retention of days, or the oldest over
   the cap of finished rows, so that no one is still busy with it   *)
PruneRow(r) ==
  /\ tick.pc = "prune"
  /\ row[r].status \in Finished
  /\ \A p \in Publishers : pub[p].row # r
  /\ \A w \in Workers : worker[w].row # r
  /\ Spend("retire")
  /\ row' = [row EXCEPT ![r] = Blank("pruned")]
  /\ UNCHANGED <<envVars, pub, msgs, worker, tick>>

(* A step that raises is logged and the next one runs. *)
TickStepFails ==
  /\ tick.pc # "idle"
  /\ Spend("crash")
  /\ Begin(After(tick.pc), tick.now)
  /\ UNCHANGED <<envVars, row, pub, msgs, worker>>

TickCrash ==
  /\ tick.pc # "idle"
  /\ Spend("crash")
  /\ tick' = IdleTick(tick.now)
  /\ UNCHANGED <<envVars, row, pub, msgs, worker>>

----------------------------------------------------------------------------
ModuleChange ==
  /\ Spend("toggle")
  /\ module' \in {"runnable", "unavailable", "unknown"} \ {module}
  /\ UNCHANGED <<now, row, pub, msgs, worker, tick>>

(* Celery ends a task at its hard limit.  A minute with a tick in time has a
   whole one; with workers in time, what is due in it was delivered and
   publishers are done.                                                    *)
Elapse ==
  /\ now < MaxTime
  /\ \A w \in Workers : worker[w] # Idle => now < worker[w].since + HardLimit
  /\ "tick" \in InTime => tick.pc = "idle" /\ tick.now = now
  /\ "workers" \in InTime => /\ \A p \in Publishers : pub[p] = Quiet
                             /\ \A m \in msgs : m.eta > now
  /\ now' = now + 1
  /\ UNCHANGED <<row, pub, msgs, worker, tick, module, used>>

PublishStep(p) == Store(p) \/ PublishSend(p) \/ PublishMark(p)

WorkerStep ==
  \/ \E m \in msgs, again \in BOOLEAN :
       \/ RunNothing(m, again)
       \/ RunExpired(m, again)
       \/ RunDeferred(m, again)
       \/ RunSkipped(m, again)
       \/ \E w \in Workers : Claim(w, m, again)
  \/ \E w \in Workers :
       FinishSuccess(w) \/ FinishFailure(w) \/ Resend(w)

TickStep ==
  \/ TickStart
  \/ TickNext
  \/ \E r \in Rows : ExpireRow(r) \/ RecoverRow(r) \/ EnqueueRow(r) \/ PruneRow(r)
  \/ RecoverSend
  \/ EnqueueStamp

Next ==
  \/ Elapse
  \/ \E p \in Publishers : \/ \E k \in Keys : Publish(p, k)
                           \/ PublishStep(p)
                           \/ PublisherCrash(p)
  \/ WorkerStep
  \/ \E w \in Workers : TimeLimit(w) \/ WorkerCrash(w)
  \/ \E m \in msgs : LoseMessage(m)
  \/ TickStep
  \/ TickStepFails
  \/ TickCrash
  \/ ModuleChange

Spec == Init /\ [][Next]_vars

(* The timer keeps ticking, the tick goes on, time passes, Celery enforces
   its hard limit; nothing is assumed of publishers, workers and broker.   *)
Fairness ==
  /\ WF_vars(Elapse)
  /\ WF_vars(TickStep)
  /\ \A w \in Workers : WF_vars(TimeLimit(w))
FairSpec == Spec /\ Fairness

----------------------------------------------------------------------------
(* Properties.                                                             *)

PubStates == {Quiet} \cup [phase : {"store"}, key : Keys, row : {NoRow}]
             \cup [phase : {"send", "mark"}, key : Keys, row : Rows]
WorkerStates == {Idle} \cup [phase : {"handler", "resend"}, row : Rows, since : Nat,
                             expires : Nat, delay : Nat]
TickStates == [pc : {"idle", "expire", "gate", "recover", "enqueue", "trim", "prune"},
               now : Nat, todo : SUBSET Rows, row : Rows \cup {NoRow}, delay : Nat]

(* Every variable has the shape of the row, message or local state it stands
   for (TecTacEventJob and the locals of publish, run and the tick).       *)
TypeOK ==
  /\ now \in Nat
  /\ row \in [Rows -> JobRows]
  /\ pub \in [Publishers -> PubStates]
  /\ msgs \subseteq [row : Rows, eta : Nat, expires : Nat]
  /\ worker \in [Workers -> WorkerStates]
  /\ tick \in TickStates
  /\ module \in {"runnable", "unavailable", "unknown"}
  /\ used \in [Kinds -> Nat]

(* The idempotency key at the machines: two handlers for one key never run
   at the same time, whatever is published, redelivered or recovered.      *)
OneHandlerPerKey ==
  \A v, w \in Workers :
    Executing(v) /\ Executing(w) /\ v # w => row[worker[v].row].key # row[worker[w].row].key

(* recover_event_jobs never takes an attempt away from a worker that is
   still executing it: the row of a busy handler is the attempt it started. *)
HandlerOwnsRow ==
  \A w \in Workers : Executing(w) =>
    Running(worker[w].row) /\ row[worker[w].row].started = worker[w].since

(* A row that ended stays as it ended: no late worker, message or tick step
   brings it back or changes its outcome.                                  *)
TerminalStays ==
  [][\A r \in Rows : row[r].status \in Finished
       => row'[r].status \in {row[r].status, "pruned"}]_vars

(* "loses nothing that was stored": when minutes are long enough for the tick
   and the workers, a crash or a lost message never makes a row expire that
   no worker ever tried.                                                   *)
StoredIsTried ==
  \A r \in Rows : row[r].status = "expired" => row[r].attempt > 0

(* Every stored row ends, although publishers, workers and the broker may
   stop: expiry and recovery in the tick see to it.                        *)
RowsEnd ==
  \A r \in Rows : row[r].status \in Active /\ now <= 1 ~> row[r].status \notin Active

Stage(st) == CASE st = "none" -> "none" [] st = "pending" -> "waiting"
               [] st = "running" -> "trying" [] st = "pruned" -> "forgotten"
               [] OTHER -> "over"
Contract == INSTANCE EventJobContract WITH
  stage <- [r \in Rows |-> Stage(row[r].status)],
  key <- [r \in Rows |-> row[r].key],
  tries <- [r \in Rows |-> row[r].attempt]

(* The row, its messages and the tick together do what EventJobContract says:
   one event per key, one attempt at a time, at most MaxAttempts of them.  *)
KeepsContract == Contract!Spec

============================================================================
