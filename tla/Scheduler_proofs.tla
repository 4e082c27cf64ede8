-------------------------- MODULE Scheduler_proofs --------------------------
(* Proofs about Scheduler, for every value of its constants.               *)
EXTENDS Scheduler, WellFoundedInduction, TLAPS

(* A non-empty set of naturals with an upper bound has a greatest element:
   the distance to the bound has a smallest value.                         *)
LEMMA GreatestExists ==
  ASSUME NEW T \in SUBSET Nat, T # {}, NEW n \in Nat, \A u \in T : u <= n
  PROVE  \E t \in T : \A u \in T : u <= t
<1> DEFINE D == {k \in Nat : \E u \in T : k = n - u}
           Less == {p \in Nat \X Nat : p[1] < p[2]}
<1>1. D \subseteq Nat /\ D # {}
  <2>1. PICK u \in T : TRUE
    OBVIOUS
  <2>2. n - u \in D
    BY <2>1
  <2> QED
    BY <2>2
<1>2. IsWellFoundedOn(Less, Nat)
  BY NatLessThanWellFounded, Zenon DEF OpToRel
<1>3. PICK x \in D : \A y \in D : ~(<<y, x>> \in Less)
  <2> HIDE DEF D, Less
  <2> QED
    BY <1>1, <1>2, WFMin
<1>4. \A y \in D : x <= y
  <2> SUFFICES ASSUME NEW y \in D PROVE x <= y
    OBVIOUS
  <2>1. x \in Nat /\ y \in Nat
    BY <1>1
  <2>2. ~(<<y, x>> \in Less)
    BY <1>3
  <2> QED
    BY <2>1, <2>2
<1>5. PICK t \in T : x = n - t
  OBVIOUS
<1>6. \A u \in T : u <= t
  <2> SUFFICES ASSUME NEW u \in T PROVE u <= t
    OBVIOUS
  <2>1. n - u \in D
    OBVIOUS
  <2>2. x <= n - u
    BY <1>4, <2>1
  <2> QED
    BY <1>5, <2>2
<1> QED
  BY <1>6

(* The operators that build rows yield rows. *)
LEMMA LatestType ==
  ASSUME NEW d \in Definitions, NEW t \in Nat
  PROVE  latest_occurrence(d, t) \in Nat
<1>1. CASE d \in Once
  BY <1>1, SchedulerConstants DEF latest_occurrence, Latest
<1>2. CASE d \notin Once
  <2> DEFINE past == {u \in DueAt[d] : u <= t}
  <2>1. past \in SUBSET Nat /\ \A u \in past : u <= t
    BY SchedulerConstants
  <2>2. CASE past = {}
    BY <1>2, <2>2 DEF latest_occurrence
  <2>3. CASE past # {}
    <3>1. \E x \in past : \A u \in past : u <= x
      <4> HIDE DEF past
      <4> QED BY <2>1, <2>3, GreatestExists
    <3>2. Latest(past) \in past
      <4> HIDE DEF past
      <4> QED BY <3>1 DEF Latest
    <3> QED
      BY <1>2, <2>1, <2>3, <3>2 DEF latest_occurrence
  <2> QED
    BY <2>2, <2>3
<1> QED
  BY <1>1, <1>2

(* Rows stay rows under the updates of the actions. *)
LEMMA RunUpdates ==
  ASSUME NEW x \in RunRows
  PROVE  /\ \A st \in Statuses, why \in Reasons :
              [x EXCEPT !.status = st, !.since = 0, !.why = why] \in RunRows
         /\ \A c \in {"", "module", "server", "completed", "expired"} :
              [x EXCEPT !.comp = c] \in RunRows
         /\ [x EXCEPT !.taskId = TRUE] \in RunRows
         /\ [x EXCEPT !.linked = FALSE] \in RunRows
         /\ \A t, n \in Nat :
              [x EXCEPT !.status = "running", !.since = t, !.attempt = n, !.why = ""]
                \in RunRows
         /\ \A t \in Nat :
              [x EXCEPT !.status = "queued", !.since = t, !.why = "Error"] \in RunRows
         /\ \A s \in Schedules, t, due \in Nat, kind \in {"scheduled", "manual", "oneoff"} :
              [x EXCEPT !.sched = s, !.linked = TRUE, !.kind = kind, !.due = due,
                        !.since = t] \in RunRows
<1>1. \A st \in Statuses, why \in Reasons :
        [x EXCEPT !.status = st, !.since = 0, !.why = why] \in RunRows
  BY DEF RunRows
<1>2. \A c \in {"", "module", "server", "completed", "expired"} :
        [x EXCEPT !.comp = c] \in RunRows
  BY DEF RunRows
<1>3. [x EXCEPT !.taskId = TRUE] \in RunRows
  BY DEF RunRows
<1>4. [x EXCEPT !.linked = FALSE] \in RunRows
  BY DEF RunRows
<1>5. \A t, n \in Nat :
        [x EXCEPT !.status = "running", !.since = t, !.attempt = n, !.why = ""]
          \in RunRows
  BY DEF RunRows, Statuses, Reasons
<1>6. \A t \in Nat :
        [x EXCEPT !.status = "queued", !.since = t, !.why = "Error"] \in RunRows
  BY DEF RunRows, Statuses, Reasons
<1>7. \A s \in Schedules, t, due \in Nat, kind \in {"scheduled", "manual", "oneoff"} :
        [x EXCEPT !.sched = s, !.linked = TRUE, !.kind = kind, !.due = due,
                  !.since = t] \in RunRows
  BY DEF RunRows
<1> QED
  BY <1>1, <1>2, <1>3, <1>4, <1>5, <1>6, <1>7

LEMMA BlankTypes ==
  /\ Absent \in ScheduleRows
  /\ \A st \in Statuses : Blank(st) \in RunRows
<1>1. (CHOOSE d \in Definitions : TRUE) \in Definitions
  BY SchedulerConstants
<1>2. (CHOOSE s \in Schedules : TRUE) \in Schedules
  BY SchedulerConstants
<1>3. Absent \in ScheduleRows
  BY <1>1 DEF Absent, ScheduleRows, NoKey
<1>4. \A st \in Statuses : Blank(st) \in RunRows
  BY <1>2 DEF Blank, RunRows, Reasons
<1> QED
  BY <1>3, <1>4

LEMMA RunRowTypes ==
  ASSUME run \in [Runs -> RunRows], now \in Nat
  PROVE  /\ \A s \in Schedules, kind \in {"scheduled", "manual", "oneoff"}, due \in Nat :
              Queued(s, kind, due) \in RunRows
         /\ \A r \in Runs, st \in Statuses, why \in Reasons : Ended(r, st, why) \in RunRows
<1>1. Blank("queued") \in RunRows
  BY BlankTypes DEF Statuses
<1>2. \A s \in Schedules, kind \in {"scheduled", "manual", "oneoff"}, due \in Nat :
        Queued(s, kind, due) \in RunRows
  BY <1>1, RunUpdates DEF Queued
<1>3. \A r \in Runs, st \in Statuses, why \in Reasons : Ended(r, st, why) \in RunRows
  BY RunUpdates DEF Ended
<1> QED
  BY <1>2, <1>3

LEMMA ScheduleUpdates ==
  ASSUME NEW x \in ScheduleRows
  PROVE  /\ \A st \in {"absent", "enabled", "disabled"} : [x EXCEPT !.state = st] \in ScheduleRows
         /\ \A t \in Nat : [x EXCEPT !.updated = t] \in ScheduleRows
         /\ \A p \in {"", "disabled", "orphaned"} : [x EXCEPT !.paused = p] \in ScheduleRows
         /\ [x EXCEPT !.targets = "canonical"] \in ScheduleRows
         /\ \A k \in Nat, st \in {"absent", "enabled", "disabled"} :
              [x EXCEPT !.key = k, !.updated = 0, !.state = st] \in ScheduleRows
         /\ \A d \in Definitions, t \in Nat :
              [x EXCEPT !.state = "disabled", !.def = d, !.updated = t] \in ScheduleRows
BY DEF ScheduleRows

LEMMA PausedType ==
  ASSUME NEW p \in {"", "disabled", "orphaned"},
         NEW v \in {"visible", "disabled", "orphaned", "unreadable"}
  PROVE  Paused(p, v) \in {"", "disabled", "orphaned"}
BY DEF Paused

LEMMA TouchedType ==
  ASSUME now \in Nat, NEW x \in ScheduleRows
  PROVE  Touched(x) \in ScheduleRows
BY ScheduleUpdates DEF Touched

LEMMA SpendType ==
  ASSUME used \in [Kinds -> Nat], NEW k \in Kinds, Spend(k)
  PROVE  used' \in [Kinds -> Nat]
BY DEF Spend

LEMMA KindNames ==
  /\ "edit" \in Kinds /\ "manual" \in Kinds /\ "oneoff" \in Kinds
  /\ "delete" \in Kinds /\ "toggle" \in Kinds /\ "retire" \in Kinds
  /\ "dup" \in Kinds /\ "lost" \in Kinds /\ "fault" \in Kinds
  /\ "crash" \in Kinds
BY DEF Kinds

LEMMA FreshType == ASSUME HasFresh PROVE Fresh \in Runs /\ run[Fresh].status = "none"
BY DEF HasFresh, Fresh

(* The tick, a worker and a message keep their shapes. *)
LEMMA TickUpdates ==
  ASSUME NEW x \in TickStates
  PROVE  /\ \A S \in SUBSET Schedules : [x EXCEPT !.todo = S] \in TickStates
         /\ \A R \in SUBSET Runs : [x EXCEPT !.stale = R] \in TickStates
         /\ \A r \in Runs \cup {NoRun} : [x EXCEPT !.run = r] \in TickStates
         /\ \A S \in SUBSET Schedules, r \in Runs \cup {NoRun} :
              [x EXCEPT !.todo = S, !.run = r] \in TickStates
         /\ \A S, U \in SUBSET Schedules : [x EXCEPT !.todo = S, !.doomed = U] \in TickStates
         /\ \A U \in SUBSET Schedules : [x EXCEPT !.doomed = U] \in TickStates
         /\ [x EXCEPT !.pc = "settle"] \in TickStates
         /\ \A S \in SUBSET Schedules : [x EXCEPT !.pc = "cleanup", !.todo = S] \in TickStates
         /\ \A S \in SUBSET Schedules, v \in {"visible", "disabled", "orphaned", "unreadable"} :
              [x EXCEPT !.pc = "dispatch", !.vis = v, !.todo = S] \in TickStates
         /\ \A R \in SUBSET Runs : [x EXCEPT !.pc = "recover", !.stale = R] \in TickStates
BY DEF TickStates

LEMMA IdleTypes ==
  /\ \A t \in Nat : IdleTick(t) \in TickStates
  /\ Idle \in WorkerStates
BY DEF IdleTick, TickStates, Idle, WorkerStates

LEMMA BusyFields ==
  ASSUME worker \in [Workers -> WorkerStates], NEW w \in Workers, worker[w].phase # "idle"
  PROVE  /\ worker[w].run \in Runs
         /\ worker[w].retries \in Nat
         /\ worker[w].since \in Nat
         /\ worker[w].phase \in {"handler", "refuse", "retry"}
         /\ [worker[w] EXCEPT !.phase = "retry"] \in WorkerStates
BY DEF WorkerStates, Idle

LEMMA TickFields ==
  ASSUME NEW x \in TickStates
  PROVE  /\ x.now \in Nat
         /\ x.vis \in {"visible", "disabled", "orphaned", "unreadable"}
         /\ x.todo \subseteq Schedules
         /\ x.stale \subseteq Runs
         /\ x.doomed \subseteq Schedules
BY DEF TickStates

LEMMA DoneWithType ==
  ASSUME tick \in TickStates, NEW s, DoneWith(s)
  PROVE  tick' \in TickStates
<1>1. tick.todo \ {s} \in SUBSET Schedules
  BY TickFields
<1> QED
  BY <1>1, TickUpdates DEF DoneWith

LEMMA IdleAgainType ==
  ASSUME worker \in [Workers -> WorkerStates], NEW w \in Workers, IdleAgain(w)
  PROVE  worker' \in [Workers -> WorkerStates]
BY IdleTypes DEF IdleAgain

LEMMA SkipRowType ==
  ASSUME skips \subseteq SkipRows, tick \in TickStates,
         NEW s \in Schedules, NEW o \in Nat, NEW why \in Reasons, SkipRow(s, o, why)
  PROVE  skips' \subseteq SkipRows /\ run' = run /\ queueing' = queueing
BY TickFields DEF SkipRow, SkipRows

LEMMA TouchScheduleType ==
  ASSUME now \in Nat, sched \in [Schedules -> ScheduleRows], run \in [Runs -> RunRows],
         NEW r \in Runs
  PROVE  TouchScheduleOf(r) \in [Schedules -> ScheduleRows]
<1>1. run[r].sched \in Schedules
  BY DEF RunRows
<1>2. Touched(sched[run[r].sched]) \in ScheduleRows
  BY <1>1, TouchedType
<1> QED
  BY <1>1, <1>2 DEF TouchScheduleOf

LEMMA UnlinkedType ==
  ASSUME NEW s \in Schedules, NEW rows \in [Runs -> RunRows]
  PROVE  Unlinked(s, rows) \in [Runs -> RunRows]
BY RunUpdates DEF Unlinked

LEMMA DeletedType ==
  ASSUME sched \in [Schedules -> ScheduleRows], NEW s \in Schedules
  PROVE  Deleted(s) \in [Schedules -> ScheduleRows]
BY BlankTypes DEF Deleted

(* What one dispatched schedule is left with. *)
LEMMA DispatchTypes ==
  ASSUME now \in Nat, tick.now \in Nat, sched \in [Schedules -> ScheduleRows],
         NEW s \in Schedules
  PROVE  /\ Canonical(s) \in ScheduleRows
         /\ Occurrence(s) \in Nat
         /\ \A off \in BOOLEAN : Consumed(s, off) \in ScheduleRows
<1> DEFINE row == [sched[s] EXCEPT !.paused = Paused(@, "visible")]
<1>1. sched[s] \in ScheduleRows
  OBVIOUS
<1>2. row \in ScheduleRows
  <2>1. Paused(sched[s].paused, "visible") = ""
    BY DEF Paused
  <2> QED
    BY <1>1, <2>1, ScheduleUpdates
<1>3. Canonical(s) \in ScheduleRows
  <2> HIDE DEF row
  <2>1. [row EXCEPT !.targets = "canonical"] \in ScheduleRows
    BY <1>2, ScheduleUpdates
  <2>2. Touched([row EXCEPT !.targets = "canonical"]) \in ScheduleRows
    BY <2>1, TouchedType
  <2> QED
    BY <1>2, <2>2 DEF Canonical, row
<1>4. Occurrence(s) \in Nat
  BY <1>1, LatestType DEF Occurrence, ScheduleRows
<1>5. ASSUME NEW off \in BOOLEAN PROVE Consumed(s, off) \in ScheduleRows
  <2>1. Canonical(s).state \in {"absent", "enabled", "disabled"}
    BY <1>3 DEF ScheduleRows
  <2> QED
    BY <1>3, <1>4, <2>1, ScheduleUpdates DEF Consumed
<1> QED
  BY <1>3, <1>4, <1>5

(* One step per action: the shapes are kept. *)
LEMMA TickTypes == ASSUME TypeOK, TickStep PROVE TypeOK'
<1>1. CASE TickStart
  BY <1>1, RunRowTypes, IdleTypes, TickUpdates
  DEF TypeOK, envVars, dbVars, TickStart, TickStartWith, Statuses, Reasons
<1>2. ASSUME NEW r \in Runs, RecoverRunning(r) PROVE TypeOK'
  <2>1. tick' \in TickStates
    BY <1>2, TickFields, TickUpdates DEF TypeOK, RecoverRunning
  <2>2. Ended(r, "failed", "Stale") \in RunRows /\ Ended(r, "failed", "CompletionTimeout") \in RunRows
    BY <1>2, RunRowTypes DEF TypeOK, Statuses, Reasons
  <2>3. [Ended(r, "failed", "CompletionTimeout") EXCEPT !.comp = "expired"] \in RunRows
    BY <1>2, <2>2, RunUpdates
  <2>4. run' \in [Runs -> RunRows]
    BY <1>2, <2>2, <2>3 DEF TypeOK, RecoverRunning
  <2>5. worker' \in [Workers -> WorkerStates]
    BY <1>2, IdleTypes DEF TypeOK, RecoverRunning
  <2>6. used' \in [Kinds -> Nat]
    BY <1>2, SpendType, KindNames DEF TypeOK, RecoverRunning
  <2>7. UNCHANGED <<envVars, sched, skips, queueing, msgs>>
    BY <1>2 DEF RecoverRunning
  <2> QED
    BY <1>2, <2>1, <2>4, <2>5, <2>6, <2>7 DEF TypeOK, envVars
<1>3. CASE TickList
  <2>1. tick' \in TickStates
    BY <1>3, TickUpdates DEF TypeOK, TickList
  <2>2. \A s \in Schedules : Paused(sched[s].paused, module) \in {"", "disabled", "orphaned"}
    <3>1. \A s \in Schedules : sched[s].paused \in {"", "disabled", "orphaned"}
      BY <1>3 DEF TypeOK, ScheduleRows
    <3>2. module \in {"visible", "disabled", "orphaned", "unreadable"}
      BY <1>3 DEF TypeOK
    <3> QED
      BY <1>3, <3>1, <3>2, PausedType
  <2>3. \A s \in Schedules : [sched[s] EXCEPT !.paused = Paused(@, module)] \in ScheduleRows
    BY <1>3, <2>2, ScheduleUpdates DEF TypeOK
  <2>4. sched' \in [Schedules -> ScheduleRows]
    BY <1>3, <2>3 DEF TypeOK, TickList
  <2>5. UNCHANGED <<envVars, run, skips, queueing, msgs, worker, used>>
    BY <1>3 DEF TickList
  <2> QED
    BY <1>3, <2>1, <2>4, <2>5 DEF TypeOK, envVars
<1>4. ASSUME NEW s \in Schedules, DispatchGone(s) PROVE TypeOK'
  BY <1>4, DoneWithType
  DEF TypeOK, envVars, dbVars, DispatchGone, Dispatching, NoRow
<1>5. ASSUME NEW s \in Schedules, DispatchError(s) PROVE TypeOK'
  BY <1>5, DoneWithType
  DEF TypeOK, envVars, dbVars, DispatchError, Dispatching, NoRow
<1>6. ASSUME NEW s \in Schedules, DispatchPaused(s) PROVE TypeOK'
  <2>1. Paused(sched[s].paused, tick.vis) \in {"", "disabled", "orphaned"}
    <3>1. sched[s].paused \in {"", "disabled", "orphaned"}
      BY <1>6 DEF TypeOK, ScheduleRows
    <3>2. tick.vis \in {"visible", "disabled", "orphaned", "unreadable"}
      BY <1>6, TickFields DEF TypeOK
    <3> QED
      BY <1>6, <3>1, <3>2, PausedType
  <2>2. [sched[s] EXCEPT !.paused = Paused(@, tick.vis)] \in ScheduleRows
    BY <1>6, <2>1, ScheduleUpdates DEF TypeOK
  <2> QED
    BY <1>6, <2>2, DoneWithType DEF TypeOK, DispatchPaused, Dispatching, NoRow, SetRow, envVars
<1>7. ASSUME NEW s \in Schedules, DispatchInvalidTargets(s) PROVE TypeOK'
  <2> DEFINE row == [sched[s] EXCEPT !.state = "disabled", !.paused = Paused(@, "visible")]
  <2>1. row \in ScheduleRows
    <3>1. Paused(sched[s].paused, "visible") = ""
      BY <1>7 DEF Paused
    <3> QED
      BY <1>7, <3>1 DEF TypeOK, ScheduleRows
  <2>2. Touched(row) \in ScheduleRows
    BY <1>7, <2>1, TouchedType DEF TypeOK
  <2>3. sched' = [sched EXCEPT ![s] = Touched(row)]
    BY <1>7 DEF DispatchInvalidTargets, SetRow
  <2> HIDE DEF row
  <2>4. skips' \subseteq SkipRows /\ run' = run /\ queueing' = queueing
    BY <1>7, SkipRowType DEF DispatchInvalidTargets, TypeOK, Reasons, NoKey
  <2> QED
    BY <1>7, <2>2, <2>3, <2>4, DoneWithType DEF TypeOK, DispatchInvalidTargets, Dispatching, envVars
<1>8. ASSUME NEW s \in Schedules, DispatchNothingNew(s) PROVE TypeOK'
  BY <1>8, DispatchTypes, TickFields, DoneWithType
  DEF TypeOK, envVars, dbVars, DispatchNothingNew, Dispatching, SetRow, NoRow
<1>9. ASSUME NEW s \in Schedules, DispatchBaseline(s) PROVE TypeOK'
  BY <1>9, DispatchTypes, TickFields, DoneWithType
  DEF TypeOK, envVars, dbVars, DispatchBaseline, Dispatching, SetRow, NoRow
<1>10. ASSUME NEW s \in Schedules, DispatchUnauthorized(s) PROVE TypeOK'
  <2>1. sched' \in [Schedules -> ScheduleRows] /\ Occurrence(s) \in Nat
    BY <1>10, DispatchTypes, TickFields DEF DispatchUnauthorized, SetRow, TypeOK
  <2>2. skips' \subseteq SkipRows /\ run' = run /\ queueing' = queueing
    BY <1>10, <2>1, SkipRowType DEF DispatchUnauthorized, TypeOK, Reasons
  <2> QED
    BY <1>10, <2>1, <2>2, DoneWithType DEF TypeOK, DispatchUnauthorized, Dispatching, envVars
<1>11. ASSUME NEW s \in Schedules, DispatchMissed(s) PROVE TypeOK'
  <2>1. sched' \in [Schedules -> ScheduleRows] /\ Occurrence(s) \in Nat
    BY <1>11, DispatchTypes, TickFields DEF DispatchMissed, SetRow, TypeOK
  <2>2. skips' \subseteq SkipRows /\ run' = run /\ queueing' = queueing
    BY <1>11, <2>1, SkipRowType DEF DispatchMissed, TypeOK, Reasons
  <2> QED
    BY <1>11, <2>1, <2>2, DoneWithType DEF TypeOK, DispatchMissed, Dispatching, envVars
<1>12. ASSUME NEW s \in Schedules, DispatchUnavailable(s) PROVE TypeOK'
  <2>1. sched' \in [Schedules -> ScheduleRows] /\ Occurrence(s) \in Nat
    BY <1>12, DispatchTypes, TickFields DEF DispatchUnavailable, SetRow, TypeOK
  <2>2. skips' \subseteq SkipRows /\ run' = run /\ queueing' = queueing
    BY <1>12, <2>1, SkipRowType DEF DispatchUnavailable, TypeOK, Reasons
  <2> QED
    BY <1>12, <2>1, <2>2, DoneWithType DEF TypeOK, DispatchUnavailable, Dispatching, envVars
<1>13. ASSUME NEW s \in Schedules, DispatchOverlap(s) PROVE TypeOK'
  <2>1. sched' \in [Schedules -> ScheduleRows] /\ Occurrence(s) \in Nat
    BY <1>13, DispatchTypes, TickFields DEF DispatchOverlap, SetRow, TypeOK
  <2>2. skips' \subseteq SkipRows /\ run' = run /\ queueing' = queueing
    BY <1>13, <2>1, SkipRowType DEF DispatchOverlap, TypeOK, Reasons
  <2> QED
    BY <1>13, <2>1, <2>2, DoneWithType DEF TypeOK, DispatchOverlap, Dispatching, envVars
<1>14. ASSUME NEW s \in Schedules, DispatchRun(s) PROVE TypeOK'
  BY <1>14, DispatchTypes, TickFields, TickUpdates, FreshType, RunRowTypes
  DEF TypeOK, envVars, dbVars, DispatchRun, Dispatching, SetRow
<1>15. CASE TickCleanup
  BY <1>15, TickUpdates DEF TypeOK, envVars, dbVars, TickCleanup
<1>16. ASSUME NEW s \in Schedules, CleanupCheck(s) PROVE TypeOK'
  <2>1. tick' \in TickStates
    <3>1. tick.todo \ {s} \in SUBSET Schedules /\ {s} \in SUBSET Schedules
      BY <1>16, TickFields DEF TypeOK
    <3>2. /\ [tick EXCEPT !.todo = tick.todo \ {s}] \in TickStates
          /\ [tick EXCEPT !.todo = tick.todo \ {s}, !.doomed = {s}] \in TickStates
      BY <1>16, <3>1, TickUpdates DEF TypeOK
    <3> QED
      BY <1>16, <3>2 DEF CleanupCheck, DoneWith
  <2>2. used' \in [Kinds -> Nat]
    BY <1>16, SpendType, KindNames DEF TypeOK, CleanupCheck
  <2>3. UNCHANGED <<envVars, dbVars, queueing, msgs, worker>>
    BY <1>16 DEF CleanupCheck
  <2> QED
    BY <1>16, <2>1, <2>2, <2>3 DEF TypeOK, envVars, dbVars
<1>17. ASSUME NEW s \in Schedules, CleanupDelete(s) PROVE TypeOK'
  BY <1>17, DeletedType, UnlinkedType, TickUpdates
  DEF TypeOK, envVars, dbVars, CleanupDelete
<1>18. ASSUME NEW r \in Runs, CleanupRun(r) PROVE TypeOK'
  BY <1>18, BlankTypes, SpendType, KindNames
  DEF TypeOK, envVars, dbVars, CleanupRun, Statuses
<1>19. CASE TickSettle
  BY <1>19, TickUpdates DEF TypeOK, envVars, dbVars, TickSettle
<1>20. ASSUME NEW r \in Runs, SettleServerJob(r) PROVE TypeOK'
  <2>1. PICK st \in {"succeeded", "failed"} : Apply(r, "server", st)
    BY <1>20 DEF SettleServerJob
  <2>2. Ended(r, st, "Outcome") \in RunRows
    BY <1>20, RunRowTypes DEF TypeOK, Statuses, Reasons
  <2>3. [Ended(r, st, "Outcome") EXCEPT !.comp = "completed"] \in RunRows
    BY <1>20, <2>2, RunUpdates
  <2>4. run' \in [Runs -> RunRows]
    BY <1>20, <2>1, <2>3 DEF TypeOK, Apply
  <2>5. sched' \in [Schedules -> ScheduleRows]
    BY <1>20, <2>1, TouchScheduleType DEF TypeOK, Apply
  <2>6. UNCHANGED <<envVars, skips, queueing, msgs, worker, tick, used>>
    BY <1>20 DEF SettleServerJob
  <2> QED
    BY <1>20, <2>4, <2>5, <2>6 DEF TypeOK, envVars
<1>21. CASE TickEnd
  BY <1>21, IdleTypes, TickFields DEF TypeOK, envVars, dbVars, TickEnd
<1> QED
  BY <1>1, <1>2, <1>3, <1>4, <1>5, <1>6, <1>7, <1>8, <1>9, <1>10, <1>11,
      <1>12, <1>13, <1>14, <1>15, <1>16, <1>17, <1>18, <1>19, <1>20, <1>21 DEF TickStep

LEMMA QueueTypes == ASSUME TypeOK, \E r \in Runs : QueueStep(r) PROVE TypeOK'
<1>1. ASSUME NEW r \in Runs, QueueSend(r) PROVE TypeOK'
  <2>1. [run |-> r, retries |-> 0, eta |-> now] \in Messages
    BY <1>1 DEF TypeOK, Messages
  <2>2. msgs' \subseteq Messages
    BY <1>1, <2>1 DEF TypeOK, QueueSend
  <2>3. queueing' \in [Runs -> {"idle", "send", "saveId", "saveState", "fail"}]
    BY <1>1 DEF TypeOK, QueueSend, Goto
  <2>4. used' \in [Kinds -> Nat]
    BY <1>1, SpendType, KindNames DEF TypeOK, QueueSend
  <2>5. UNCHANGED <<envVars, dbVars, worker, tick>>
    BY <1>1 DEF QueueSend
  <2> QED
    BY <1>1, <2>2, <2>3, <2>4, <2>5 DEF TypeOK, envVars, dbVars
<1>2. ASSUME NEW r \in Runs, QueueSaveId(r) PROVE TypeOK'
  <2>1. [run[r] EXCEPT !.taskId = TRUE] \in RunRows
    BY <1>2, RunUpdates DEF TypeOK
  <2>2. run' \in [Runs -> RunRows]
    BY <1>2, <2>1 DEF TypeOK, QueueSaveId
  <2>3. queueing' \in [Runs -> {"idle", "send", "saveId", "saveState", "fail"}]
    BY <1>2 DEF TypeOK, QueueSaveId, Goto
  <2>4. used' \in [Kinds -> Nat]
    BY <1>2, SpendType, KindNames DEF TypeOK, QueueSaveId
  <2>5. UNCHANGED <<envVars, sched, skips, msgs, worker, tick>>
    BY <1>2 DEF QueueSaveId
  <2> QED
    BY <1>2, <2>2, <2>3, <2>4, <2>5 DEF TypeOK, envVars
<1>3. ASSUME NEW r \in Runs, QueueSaveState(r) PROVE TypeOK'
  <2>1. tick' \in TickStates
    <3>1. tick \in TickStates /\ [tick EXCEPT !.run = NoRun] \in TickStates
      BY <1>3, TickUpdates DEF TypeOK
    <3> QED
      BY <1>3, <3>1 DEF QueueSaveState, Return
  <2>2. queueing' \in [Runs -> {"idle", "send", "saveId", "saveState", "fail"}]
    BY <1>3 DEF TypeOK, QueueSaveState, Goto
  <2>3. used' \in [Kinds -> Nat]
    BY <1>3, SpendType, KindNames DEF TypeOK, QueueSaveState
  <2>4. UNCHANGED <<envVars, dbVars, msgs, worker>>
    BY <1>3 DEF QueueSaveState
  <2> QED
    BY <1>3, <2>1, <2>2, <2>3, <2>4 DEF TypeOK, envVars, dbVars
<1>4. ASSUME NEW r \in Runs, QueueFail(r) PROVE TypeOK'
  <2>1. Ended(r, "failed", "DispatchError") \in RunRows
    BY <1>4, RunRowTypes DEF TypeOK, Statuses, Reasons
  <2>2. run[r].sched \in Schedules
    BY <1>4 DEF TypeOK, RunRows
  <2>3. [run EXCEPT ![r] = Ended(r, "failed", "DispatchError")] \in [Runs -> RunRows]
    BY <1>4, <2>1 DEF TypeOK
  <2>4. run' \in [Runs -> RunRows] /\ sched' \in [Schedules -> ScheduleRows]
    <3>1. Unlinked(run[r].sched, [run EXCEPT ![r] = Ended(r, "failed", "DispatchError")])
            \in [Runs -> RunRows]
      BY <1>4, <2>2, <2>3, UnlinkedType
    <3>2. Deleted(run[r].sched) \in [Schedules -> ScheduleRows]
      BY <1>4, <2>2, DeletedType DEF TypeOK
    <3> QED
      BY <1>4, <2>3, <3>1, <3>2 DEF TypeOK, QueueFail
  <2>5. tick' \in TickStates
    BY <1>4, TickUpdates DEF TypeOK, QueueFail, Return
  <2>6. queueing' \in [Runs -> {"idle", "send", "saveId", "saveState", "fail"}]
    BY <1>4 DEF TypeOK, QueueFail, Goto
  <2>7. UNCHANGED <<envVars, skips, msgs, worker, used>>
    BY <1>4 DEF QueueFail
  <2> QED
    BY <1>4, <2>4, <2>5, <2>6, <2>7 DEF TypeOK, envVars
<1> QED
  BY <1>1, <1>2, <1>3, <1>4 DEF QueueStep

LEMMA WorkerTypes == ASSUME TypeOK, WorkerStep \/ \E w \in Workers : TimeLimit(w) PROVE TypeOK'
<1>1. ASSUME NEW x \in msgs, NEW again \in BOOLEAN, DropMessage(x, again) PROVE TypeOK'
  BY <1>1, SpendType, KindNames
  DEF TypeOK, envVars, dbVars, DropMessage, Deliver
<1>2. ASSUME NEW x \in msgs, NEW again \in BOOLEAN, SkipBlocked(x, again) PROVE TypeOK'
  BY <1>2, RunRowTypes, SpendType, KindNames
  DEF TypeOK, envVars, dbVars, SkipBlocked, Deliver, Statuses, Reasons,
      Messages
<1>3. ASSUME NEW w \in Workers, NEW x \in msgs, NEW again \in BOOLEAN, NEW ok \in BOOLEAN, Claim(w, x, again, ok) PROVE TypeOK'
  <2>1. x.run \in Runs /\ x.retries \in Nat
    BY <1>3 DEF TypeOK, Messages
  <2>2. [run[x.run] EXCEPT !.status = "running", !.since = now, !.attempt = x.retries + 1, !.why = ""]
          \in RunRows
    <3>1. run[x.run] \in RunRows /\ now \in Nat /\ x.retries + 1 \in Nat
      BY <1>3, <2>1 DEF TypeOK
    <3> QED
      BY <1>3, <3>1, RunUpdates
  <2>3. run' \in [Runs -> RunRows]
    BY <1>3, <2>1, <2>2 DEF TypeOK, Claim, ClaimFrom
  <2>4. [phase |-> IF ok THEN "handler" ELSE "refuse", run |-> x.run,
         retries |-> x.retries, since |-> now] \in WorkerStates
    BY <1>3, <2>1 DEF TypeOK, WorkerStates
  <2>5. worker' \in [Workers -> WorkerStates]
    BY <1>3, <2>4 DEF TypeOK, Claim, ClaimFrom
  <2>6. msgs' \subseteq Messages /\ used' \in [Kinds -> Nat]
    BY <1>3, SpendType, KindNames DEF TypeOK, Claim, ClaimFrom, Deliver
  <2>7. UNCHANGED <<envVars, sched, skips, queueing, tick>>
    BY <1>3 DEF Claim, ClaimFrom
  <2> QED
    BY <1>3, <2>3, <2>5, <2>6, <2>7 DEF TypeOK, envVars
<1>4. ASSUME NEW w \in Workers, Abandon(w) PROVE TypeOK'
  BY <1>4, IdleAgainType DEF TypeOK, envVars, dbVars, Abandon
<1>5. ASSUME NEW w \in Workers, Succeed(w) PROVE TypeOK'
  <2> DEFINE r == worker[w].run
  <2>1. r \in Runs
    BY <1>5, BusyFields DEF TypeOK, Succeed, Executing
  <2>2. Ended(r, "succeeded", "") \in RunRows
    BY <1>5, <2>1, RunRowTypes DEF TypeOK, Statuses, Reasons
  <2>3. TouchScheduleOf(r) \in [Schedules -> ScheduleRows]
    BY <1>5, <2>1, TouchScheduleType DEF TypeOK
  <2> QED
    BY <1>5, <2>1, <2>2, <2>3, IdleAgainType DEF TypeOK, Succeed, envVars
<1>6. ASSUME NEW w \in Workers, Fail(w) PROVE TypeOK'
  <2> DEFINE r == worker[w].run
  <2>1. r \in Runs
    BY <1>6, BusyFields DEF TypeOK, Fail, Executing
  <2>2. Ended(r, "failed", "Error") \in RunRows
    BY <1>6, <2>1, RunRowTypes DEF TypeOK, Statuses, Reasons
  <2>3. TouchScheduleOf(r) \in [Schedules -> ScheduleRows]
    BY <1>6, <2>1, TouchScheduleType DEF TypeOK
  <2> QED
    BY <1>6, <2>1, <2>2, <2>3, IdleAgainType DEF TypeOK, Fail, envVars
<1>7. ASSUME NEW w \in Workers, RefuseOneOff(w) PROVE TypeOK'
  BY <1>7, BusyFields, RunRowTypes, IdleAgainType
  DEF TypeOK, envVars, dbVars, RefuseOneOff, Statuses, Reasons
<1>8. ASSUME NEW w \in Workers, Requeue(w) PROVE TypeOK'
  <2> DEFINE r == worker[w].run
  <2>1. r \in Runs /\ [worker[w] EXCEPT !.phase = "retry"] \in WorkerStates
    BY <1>8, BusyFields DEF TypeOK, Requeue, Executing
  <2>2. [run[r] EXCEPT !.status = "queued", !.since = now, !.why = "Error"] \in RunRows
    BY <1>8, <2>1, RunUpdates DEF TypeOK
  <2>3. run' = [run EXCEPT ![r] = [run[r] EXCEPT !.status = "queued", !.since = now, !.why = "Error"]]
    BY <1>8, <2>1 DEF TypeOK, Requeue
  <2>4. worker' = [worker EXCEPT ![w] = [worker[w] EXCEPT !.phase = "retry"]]
    BY <1>8 DEF Requeue
  <2>5. UNCHANGED <<envVars, sched, skips, queueing, msgs, tick, used>>
    BY <1>8 DEF Requeue
  <2> QED
    BY <1>8, <2>1, <2>2, <2>3, <2>4, <2>5 DEF TypeOK, envVars
<1>9. ASSUME NEW w \in Workers, SendRetry(w) PROVE TypeOK'
  <2>1. worker[w].run \in Runs /\ worker[w].retries \in Nat
    BY <1>9, BusyFields DEF TypeOK, SendRetry
  <2>2. [run |-> worker[w].run, retries |-> worker[w].retries + 1, eta |-> now + RetryDelay]
          \in Messages
    BY <1>9, <2>1, SchedulerConstants DEF TypeOK, Messages
  <2>3. msgs' \subseteq Messages
    BY <1>9, <2>2 DEF TypeOK, SendRetry
  <2>4. worker' \in [Workers -> WorkerStates]
    BY <1>9, IdleAgainType DEF TypeOK, SendRetry
  <2>5. UNCHANGED <<envVars, dbVars, queueing, tick, used>>
    BY <1>9 DEF SendRetry
  <2> QED
    BY <1>9, <2>3, <2>4, <2>5 DEF TypeOK, envVars, dbVars
<1>10. ASSUME NEW w \in Workers, NEW kind \in {"module", "server"}, Park(w, kind) PROVE TypeOK'
  <2>1. worker[w].run \in Runs
    BY <1>10, BusyFields DEF TypeOK, Park, Executing
  <2>2. [run[worker[w].run] EXCEPT !.comp = kind] \in RunRows
    BY <1>10, <2>1, RunUpdates DEF TypeOK
  <2> QED
    BY <1>10, <2>1, <2>2, IdleAgainType DEF TypeOK, Park, envVars
<1>11. ASSUME NEW w \in Workers, TimeLimit(w) PROVE TypeOK'
  BY <1>11, IdleAgainType DEF TypeOK, envVars, dbVars, TimeLimit
<1>12. ASSUME NEW r \in Runs, Complete(r) PROVE TypeOK'
  <2>1. PICK st \in {"succeeded", "failed"} : Apply(r, "module", st)
    BY <1>12 DEF Complete
  <2>2. Ended(r, st, "Outcome") \in RunRows
    BY <1>12, RunRowTypes DEF TypeOK, Statuses, Reasons
  <2>3. [Ended(r, st, "Outcome") EXCEPT !.comp = "completed"] \in RunRows
    BY <1>12, <2>2, RunUpdates
  <2>4. run' \in [Runs -> RunRows]
    BY <1>12, <2>1, <2>3 DEF TypeOK, Apply
  <2>5. sched' \in [Schedules -> ScheduleRows]
    BY <1>12, <2>1, TouchScheduleType DEF TypeOK, Apply
  <2>6. UNCHANGED <<envVars, skips, queueing, msgs, worker, tick, used>>
    BY <1>12 DEF Complete
  <2> QED
    BY <1>12, <2>4, <2>5, <2>6 DEF TypeOK, envVars
<1> QED
  BY <1>1, <1>2, <1>3, <1>4, <1>5, <1>6, <1>7, <1>8, <1>9, <1>10, <1>11, <1>12 DEF WorkerStep

LEMMA WebTypes == ASSUME TypeOK, WebStep PROVE TypeOK'
<1>1. ASSUME NEW s \in Schedules, EditRead(s) PROVE TypeOK'
  <2>1. PICK d \in Definitions, st \in {"enabled", "disabled"} :
          edit' = [edit EXCEPT ![s] = [on |-> TRUE, def |-> d, state |-> st,
                                       paused |-> sched[s].paused]]
    BY <1>1 DEF EditRead
  <2>2. sched[s].paused \in {"", "disabled", "orphaned"}
    BY <1>1 DEF TypeOK, ScheduleRows
  <2>3. edit' \in [Schedules -> EditStates]
    BY <1>1, <2>1, <2>2 DEF TypeOK, EditStates
  <2>4. used' \in [Kinds -> Nat]
    BY <1>1, SpendType, KindNames DEF TypeOK, EditRead
  <2>5. UNCHANGED <<now, module, editedAt, dbVars, queueing, msgs, worker, tick>>
    BY <1>1 DEF EditRead
  <2> QED
    BY <1>1, <2>3, <2>4, <2>5 DEF TypeOK, dbVars
<1>2. ASSUME NEW s \in Schedules, EditSave(s) PROVE TypeOK'
  BY <1>2
  DEF TypeOK, envVars, dbVars, EditSave, SetRow, NoEdit, ScheduleRows, NoKey,
      EditStates
<1>3. ASSUME NEW s \in Schedules, NEW force \in BOOLEAN, Delete(s, force) PROVE TypeOK'
  BY <1>3, RunRowTypes, UnlinkedType, DeletedType, SpendType, KindNames
  DEF TypeOK, envVars, dbVars, Delete, Statuses, Reasons, ActiveRuns, RunsOf
<1>4. ASSUME NEW s \in Schedules, RunNowInvalid(s) PROVE TypeOK'
  BY <1>4, ScheduleUpdates, TouchedType, SpendType, KindNames
  DEF TypeOK, envVars, dbVars, RunNowInvalid, SetRow
<1>5. ASSUME NEW s \in Schedules, RunNow(s) PROVE TypeOK'
  BY <1>5, DispatchTypes, TickFields, FreshType, RunRowTypes, SpendType,
      KindNames
  DEF TypeOK, envVars, dbVars, RunNow, SetRow, Start, NoKey
<1>6. ASSUME NEW s \in Schedules, StartOneOff(s) PROVE TypeOK'
  <2>1. PICK d \in Once : sched' = [sched EXCEPT ![s] =
          [Absent EXCEPT !.state = "disabled", !.def = d, !.updated = now]]
    BY <1>6 DEF StartOneOff, SetRow
  <2>2. [Absent EXCEPT !.state = "disabled", !.def = d, !.updated = now] \in ScheduleRows
    <3>1. Absent \in ScheduleRows /\ d \in Definitions /\ now \in Nat
      BY <1>6, <2>1, BlankTypes, SchedulerConstants DEF TypeOK
    <3> QED
      BY <1>6, <3>1, ScheduleUpdates
  <2>3. sched' \in [Schedules -> ScheduleRows]
    BY <1>6, <2>1, <2>2 DEF TypeOK
  <2>4. Fresh \in Runs /\ Queued(s, "oneoff", NoKey) \in RunRows
    BY <1>6, FreshType, RunRowTypes DEF TypeOK, StartOneOff, Start, NoKey
  <2>5. /\ run' \in [Runs -> RunRows]
        /\ queueing' \in [Runs -> {"idle", "send", "saveId", "saveState", "fail"}]
    BY <1>6, <2>4 DEF TypeOK, StartOneOff, Start
  <2>6. used' \in [Kinds -> Nat]
    BY <1>6, SpendType, KindNames DEF TypeOK, StartOneOff
  <2>7. UNCHANGED <<envVars, skips, msgs, worker, tick>>
    BY <1>6 DEF StartOneOff
  <2> QED
    BY <1>6, <2>3, <2>5, <2>6, <2>7 DEF TypeOK, envVars
<1> QED
  BY <1>1, <1>2, <1>3, <1>4, <1>5, <1>6 DEF WebStep

LEMMA FaultTypes == ASSUME TypeOK, FaultStep PROVE TypeOK'
<1>1. CASE TickCrash
  BY <1>1, IdleTypes, TickFields, SpendType, KindNames
  DEF TypeOK, envVars, dbVars, TickCrash
<1>2. ASSUME NEW r \in Runs, WebCrash(r) PROVE TypeOK'
  BY <1>2, SpendType, KindNames DEF TypeOK, envVars, dbVars, WebCrash, Goto
<1>3. ASSUME NEW w \in Workers, WorkerCrash(w) PROVE TypeOK'
  BY <1>3, IdleAgainType, SpendType, KindNames
  DEF TypeOK, envVars, dbVars, WorkerCrash
<1>4. ASSUME NEW x \in msgs, LoseMessage(x) PROVE TypeOK'
  BY <1>4, SpendType, KindNames DEF TypeOK, envVars, dbVars, LoseMessage
<1>5. CASE ModuleChange
  BY <1>5, SchedulerConstants, SpendType, KindNames
  DEF TypeOK, envVars, dbVars, ModuleChange
<1> QED
  BY <1>1, <1>2, <1>3, <1>4, <1>5 DEF FaultStep

LEMMA TypeStep == ASSUME TypeOK, [Next]_vars PROVE TypeOK'
<1>1. CASE Elapse
  <2>1. now' \in Nat
    BY <1>1 DEF TypeOK, Elapse
  <2>2. UNCHANGED <<dbVars, queueing, msgs, worker, tick, edit, module, used,
                    editedAt>>
    BY <1>1 DEF Elapse
  <2> QED
    BY <2>1, <2>2 DEF TypeOK, dbVars
<1>2. CASE UNCHANGED vars
  BY <1>2 DEF TypeOK, vars
<1> QED
  BY <1>1, <1>2, TickTypes, QueueTypes, WorkerTypes, WebTypes, FaultTypes DEF Next

LEMMA EnabledRow ==
  ASSUME NEW d \in Definitions, NEW shape \in {"canonical", "legacy", "invalid"}
  PROVE  [state |-> "enabled", def |-> d, key |-> NoKey, updated |-> 0,
          paused |-> "", targets |-> shape] \in ScheduleRows
BY DEF ScheduleRows, NoKey

LEMMA InitType == ASSUME Init PROVE TypeOK
<1>1. TargetShapes \subseteq {"canonical", "legacy", "invalid"}
  BY SchedulerConstants
<1>2. sched \in [Schedules -> ScheduleRows]
  <2>1. ASSUME NEW s \in Schedules PROVE sched[s] \in ScheduleRows
    <3>1. CASE sched[s] = Absent
      BY <3>1, BlankTypes
    <3>2. CASE sched[s] # Absent
      <4>1. sched[s] \in [state : {"enabled"}, def : Definitions, key : {NoKey},
                           updated : {0}, paused : {""}, targets : TargetShapes]
        BY <3>2 DEF Init
      <4>2. PICK d \in Definitions, shape \in TargetShapes :
              sched[s] = [state |-> "enabled", def |-> d, key |-> NoKey,
                          updated |-> 0, paused |-> "", targets |-> shape]
        BY <4>1
      <4>3. shape \in {"canonical", "legacy", "invalid"}
        BY <1>1
      <4> QED
        BY <4>2, <4>3, EnabledRow
    <3> QED
      BY <3>1, <3>2
  <2> QED
    BY <2>1 DEF Init
<1>3. run \in [Runs -> RunRows]
  BY BlankTypes DEF Init, Statuses
<1>4. NoEdit \in EditStates
  BY SchedulerConstants DEF NoEdit, EditStates
<1>5. worker \in [Workers -> WorkerStates] /\ tick \in TickStates
  BY IdleTypes DEF Init
<1> QED
  BY <1>2, <1>3, <1>4, <1>5 DEF Init, TypeOK

(* Every reachable state has the shapes of the rows of models.py and of the
   locals of the tick, the workers and the requests (TypeOK).              *)
THEOREM TypeCorrect == Spec => []TypeOK
<1>1. Init => TypeOK
  BY InitType
<1>2. TypeOK /\ [Next]_vars => TypeOK'
  BY TypeStep
<1> QED
  BY <1>1, <1>2, PTL DEF Spec

=============================================================================
