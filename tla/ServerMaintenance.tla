-------------------------- MODULE ServerMaintenance --------------------------
(* Privileged server-maintenance jobs: Core's provider (server_maintenance.py)
   writes a public job file and calls the root helper through sudo; the helper
   (server-maintenance-helper.py) claims the job, runs it in a systemd unit of
   its own under one global file lock, and cancels it on request.

   Every process reads a job record, works, and writes the whole record back
   with no lock on it, so each keeps the copy it read.  A record is its status
   and whether it carries cancel_requested_at.                             *)
EXTENDS Naturals

CONSTANTS
  ServerJobs,       \* job ids (uuid4: each is started once)
  Revisions,        \* revisions of the action
  ServerBudgets     \* bounds: sets of [registry, cancel, fault], the changes of the
                    \* registration, the cancel requests, and the timeouts, failed
                    \* commands and reboots of a behaviour

ASSUME ServerConstants ==
  /\ "free" \notin ServerJobs
  /\ ServerBudgets \subseteq [{"registry", "cancel", "fault"} -> Nat]

VARIABLES
  registered,   \* the registered revision of the action, 0 when it cannot be used
  srv,          \* [ServerJobs -> the files and processes of the job]
  lock,         \* the job that holds server-maintenance.lock, or "free"
  srvLeft       \* what is left of the behaviour's budget

srvVars == <<registered, srv, lock, srvLeft>>

Terminal == {"succeeded", "failed", "cancelled", "dispatch_failed"}
Statuses == Terminal \cup {"none", "queued", "dispatched", "waiting_for_lock", "running", "cancelling"}
JobFiles == [status : Statuses, cancel : BOOLEAN]
NoFile   == [status |-> "none", cancel |-> FALSE]
Queued   == [status |-> "queued", cancel |-> FALSE]

ServerJobStates ==
  [public   : JobFiles,     \* jobs/<id>.json
   claimed  : JobFiles,     \* running/<id>/job.json
   made     : Revisions \cup {0},  \* action_revision of the job
   start    : {"idle", "dispatching", "done"},             \* start() in Core
   dispatch : {"idle", "claimed", "spawning", "spawned", "done", "failed", "lost"}, \* --dispatch
   unit     : {"none", "active", "gone"},                  \* the systemd unit
   run      : {"idle", "loaded", "waiting", "locked", "begun", "executing", "collected", "over"}, \* --run
   mine     : JobFiles,     \* the copy run_job holds
   signalled: BOOLEAN,      \* _cancel_requested
   child    : {"none", "alive", "succeeds", "fails", "timed_out", "killed"},
   cancel   : {"idle", "asked", "loaded", "marked", "stopping", "stopped", "not_stopped"}, \* --cancel
   legacy   : BOOLEAN]      \* cancel_job found the public record only

srv0 == [public |-> NoFile, claimed |-> NoFile, made |-> 0, start |-> "idle", dispatch |-> "idle",
         unit |-> "none", run |-> "idle", mine |-> NoFile, signalled |-> FALSE, child |-> "none",
         cancel |-> "idle", legacy |-> FALSE]

InitServer ==
  /\ registered \in Revisions
  /\ srv = [j \in ServerJobs |-> srv0]
  /\ lock = "free"
  /\ srvLeft \in ServerBudgets

SpendServer(kind) ==
  /\ srvLeft[kind] > 0
  /\ srvLeft' = [srvLeft EXCEPT ![kind] = @ - 1]
ServerFault == SpendServer("fault")
NoFault     == UNCHANGED srvLeft

As(rec, status) == [rec EXCEPT !.status = status]

\* The claimed record and its public mirror are written together.
write_claimed_job(s, rec) == [s EXCEPT !.claimed = rec, !.public = rec]
update_job(s, rec) == [s EXCEPT !.public = rec]

\* The check made by dispatch and again by run: the action is registered, with the
\* revision of the job.
load_action(s) == registered # 0 /\ registered = s.made

---------------------------------------------------------------------------
(* Core: start() *)

StartJob(j) ==
  /\ srv[j].start = "idle"
  /\ registered # 0
  /\ srv' = [srv EXCEPT ![j].public = Queued, ![j].made = registered, ![j].start = "dispatching"]
  /\ UNCHANGED <<registered, lock>> /\ NoFault

StartReturns(j) ==
  /\ srv[j].start = "dispatching" /\ srv[j].dispatch = "done"
  /\ srv' = [srv EXCEPT ![j].start = "done"]
  /\ UNCHANGED <<registered, lock>> /\ NoFault

\* The helper failed, or sudo was not back within 20 seconds.  A failure that the
\* record holds already is kept; otherwise the record becomes dispatch_failed.
StartFails(j) ==
  /\ srv[j].start = "dispatching"
  /\ IF srv[j].dispatch = "failed" THEN NoFault ELSE ServerFault
  /\ srv' = [srv EXCEPT ![j].start = "done",
                        ![j].public = IF @.status \in Terminal \ {"succeeded"} THEN @
                                      ELSE [status |-> "dispatch_failed", cancel |-> FALSE]]
  /\ UNCHANGED <<registered, lock>>

---------------------------------------------------------------------------
(* The helper: --dispatch *)

\* running/<id> is made with exist_ok=False, so a job is claimed once.
claim_job(j) ==
  /\ srv[j].start # "idle" /\ srv[j].dispatch = "idle"
  /\ srv' = [srv EXCEPT ![j].claimed = srv[j].public,
                        ![j].dispatch = IF srv[j].public.status = "queued" THEN "claimed" ELSE "failed"]
  /\ UNCHANGED <<registered, lock>> /\ NoFault

DispatchCheck(j) ==
  /\ srv[j].dispatch = "claimed"
  /\ srv' = [srv EXCEPT ![j] =
       [write_claimed_job(@, As(Queued, IF load_action(@) THEN "dispatched" ELSE "failed"))
          EXCEPT !.dispatch = IF load_action(srv[j]) THEN "spawning" ELSE "failed"]]
  /\ UNCHANGED <<registered, lock>> /\ NoFault

DispatchSpawn(j) ==
  /\ srv[j].dispatch = "spawning"
  /\ srv' = [srv EXCEPT ![j].dispatch = "spawned", ![j].unit = "active"]
  /\ UNCHANGED <<registered, lock>> /\ NoFault

DispatchReturns(j) ==
  /\ srv[j].dispatch = "spawned"
  /\ srv' = [srv EXCEPT ![j].dispatch = "done"]
  /\ UNCHANGED <<registered, lock>> /\ NoFault

\* systemd-run fails, or is not back within 20 seconds although the unit is there.
DispatchSpawnFails(j) ==
  /\ srv[j].dispatch \in {"spawning", "spawned"}
  /\ ServerFault
  /\ srv' = [srv EXCEPT ![j] = [write_claimed_job(@, As(Queued, "dispatch_failed"))
                                  EXCEPT !.dispatch = "failed"]]
  /\ UNCHANGED <<registered, lock>>

---------------------------------------------------------------------------
(* The helper: --run, inside the unit *)

Over(s) == [s EXCEPT !.run = "over", !.unit = "gone"]
Freed(j) == IF lock = j THEN "free" ELSE lock

Runnable == {"dispatched", "waiting_for_lock", "running", "cancelling"}

\* A record that is not runnable, or an action that no longer passes, ends the
\* unit with nothing written.
RunLoad(j) ==
  /\ srv[j].unit = "active" /\ srv[j].run = "idle"
  /\ srv' = [srv EXCEPT ![j] =
       IF @.claimed.status \in Runnable /\ load_action(@)
       THEN [@ EXCEPT !.run = "loaded", !.mine = srv[j].claimed] ELSE Over(@)]
  /\ UNCHANGED <<registered, lock>> /\ NoFault

RunWait(j) ==
  /\ srv[j].run = "loaded"
  /\ srv' = [srv EXCEPT ![j] = [write_claimed_job(@, As(@.mine, "waiting_for_lock"))
                                  EXCEPT !.run = "waiting"]]
  /\ UNCHANGED <<registered, lock>> /\ NoFault

\* flock, and the record read again under it; or its exception: lock_failed.
RunLockIf(free, j) ==
  /\ srv[j].run = "waiting"
  /\ \/ /\ free
        /\ lock' = j
        /\ srv' = [srv EXCEPT ![j].run = "locked", ![j].mine = srv[j].claimed]
        /\ NoFault
     \/ /\ ServerFault
        /\ srv' = [srv EXCEPT ![j] = Over(write_claimed_job(@, As(@.mine, "failed")))]
        /\ UNCHANGED lock
  /\ UNCHANGED registered

\* Mutant: the lock is a shared one.
RunLockShared(j) == RunLockIf(TRUE, j)
RunLock(j) == RunLockIf(lock = "free", j)

\* After the wait the record is looked at again: a cancelled job does not start.
RunBegin(j) ==
  /\ srv[j].run = "locked"
  /\ IF srv[j].mine.cancel \/ srv[j].signalled
     THEN /\ srv' = [srv EXCEPT ![j] = Over(write_claimed_job(@, As(@.mine, "cancelled")))]
          /\ lock' = Freed(j)
     ELSE /\ srv' = [srv EXCEPT ![j] = [write_claimed_job(@, As(@.mine, "running"))
                                          EXCEPT !.run = "begun"]]
          /\ UNCHANGED lock
  /\ UNCHANGED registered /\ NoFault

\* Popen, or its exception: worker_error.
RunExec(j) ==
  /\ srv[j].run = "begun"
  /\ \/ /\ srv' = [srv EXCEPT ![j].run = "executing", ![j].child = "alive"]
        /\ UNCHANGED lock /\ NoFault
     \/ /\ ServerFault
        /\ srv' = [srv EXCEPT ![j] = Over(write_claimed_job(@, As(@.claimed, "failed")))]
        /\ lock' = Freed(j)
  /\ UNCHANGED registered

ChildEnds(j) ==
  /\ srv[j].child = "alive"
  /\ \E how \in {"succeeds", "fails", "timed_out"} : srv' = [srv EXCEPT ![j].child = how]
  /\ UNCHANGED <<registered, lock>> /\ NoFault

\* The child has ended: the lock is released, then the record is read again.
RunCollect(j) ==
  /\ srv[j].run = "executing" /\ srv[j].child # "alive"
  /\ lock' = Freed(j)
  /\ srv' = [srv EXCEPT ![j].run = "collected", ![j].mine = srv[j].claimed]
  /\ UNCHANGED registered /\ NoFault

\* Mutants: a status of its own for a timeout; a timeout that counts as success.
OutcomeTimedOut(s) == IF s.child = "timed_out" THEN "timed_out" ELSE "failed"
OutcomeUnlessFailed(s) == IF s.child = "fails" THEN "failed" ELSE "succeeded"

Outcome(s) ==
  IF s.mine.cancel \/ s.signalled THEN "cancelled"
  ELSE IF s.child = "succeeds" THEN "succeeded" ELSE "failed"

RunFinish(j) ==
  /\ srv[j].run = "collected"
  /\ srv' = [srv EXCEPT ![j] = Over(write_claimed_job(@, As(@.mine, Outcome(@))))]
  /\ UNCHANGED <<registered, lock>> /\ NoFault

---------------------------------------------------------------------------
(* Core's cancel(), and the helper's --cancel *)

CancelAsk(j) ==
  /\ srv[j].cancel = "idle" /\ srv[j].public.status \notin Terminal \cup {"none"}
  /\ SpendServer("cancel")
  /\ srv' = [srv EXCEPT ![j].cancel = "asked"]
  /\ UNCHANGED <<registered, lock>>

\* The record cancel_job works on: the claimed one, or the public one before any claim.
CancelReads(s) == IF s.legacy THEN s.public ELSE s.claimed
CancelWrites(s, rec) == IF s.legacy THEN update_job(s, rec) ELSE write_claimed_job(s, rec)

CancelLoad(j) ==
  /\ srv[j].cancel = "asked"
  /\ LET s == [srv[j] EXCEPT !.legacy = (srv[j].claimed = NoFile)] IN
       srv' = [srv EXCEPT ![j] =
         [s EXCEPT !.cancel = IF CancelReads(s).status \in Terminal THEN "idle" ELSE "loaded"]]
  /\ UNCHANGED <<registered, lock>> /\ NoFault

CancelMark(j) ==
  /\ srv[j].cancel = "loaded"
  /\ srv' = [srv EXCEPT ![j] = [CancelWrites(@, [status |-> "cancelling", cancel |-> TRUE])
                                  EXCEPT !.cancel = "marked"]]
  /\ UNCHANGED <<registered, lock>> /\ NoFault

\* systemctl stop.  SIGTERM ends a process that has no handler yet, and sets a
\* flag in one that has.  A unit that is not there, or a command that fails,
\* answers with an error.
CancelStopTo(next, j) ==
  /\ srv[j].cancel = "marked"
  /\ \/ /\ srv[j].unit = "active" /\ srv[j].run = "idle"
        /\ srv' = [srv EXCEPT ![j] = [Over(@) EXCEPT !.cancel = "stopped"]]
        /\ NoFault
     \/ /\ srv[j].unit = "active" /\ srv[j].run # "idle"
        /\ srv' = [srv EXCEPT ![j].signalled = TRUE, ![j].cancel = next]
        /\ NoFault
     \/ /\ IF srv[j].unit = "active" THEN ServerFault ELSE NoFault
        /\ srv' = [srv EXCEPT ![j].cancel = "not_stopped"]
  /\ UNCHANGED <<registered, lock>>

\* Mutant: systemctl stop does not wait for the unit (--no-block).
CancelStopNoBlock(j) == CancelStopTo("stopped", j)
CancelStop(j) == CancelStopTo("stopping", j)

\* The unit ends by itself, or systemd kills its whole control group after 30 seconds.
CancelStopped(j) ==
  /\ srv[j].cancel = "stopping"
  /\ srv' = [srv EXCEPT ![j] =
       [Over(srv[j]) EXCEPT !.cancel = "stopped",
                            !.child = IF srv[j].child = "alive" THEN "killed" ELSE srv[j].child]]
  /\ lock' = Freed(j)
  /\ UNCHANGED registered /\ NoFault

\* Mutant: the final record is written by the stopped worker alone.
CancelFinishSilent(j) ==
  /\ srv[j].cancel \in {"stopped", "not_stopped"}
  /\ srv' = [srv EXCEPT ![j].cancel = "idle"]
  /\ UNCHANGED <<registered, lock>> /\ NoFault

CancelFinish(j) ==
  /\ srv[j].cancel \in {"stopped", "not_stopped"}
  /\ srv' = [srv EXCEPT ![j] =
       LET end == IF @.cancel = "stopped" THEN "cancelled" ELSE "failed"
           s == IF CancelReads(@).status \in Terminal THEN @
                ELSE CancelWrites(@, As(CancelReads(@), end))
       IN [s EXCEPT !.cancel = "idle"]]
  /\ UNCHANGED <<registered, lock>> /\ NoFault

---------------------------------------------------------------------------
(* The host and the registry *)

\* A reboot: every process and every unit is gone, the files stay.
ServerReboot ==
  /\ ServerFault
  /\ srv' = [j \in ServerJobs |->
       [srv[j] EXCEPT !.start = IF @ = "dispatching" THEN "done" ELSE @,
                      !.dispatch = IF srv[j].start = "idle" THEN @ ELSE "lost",
                      !.unit = IF @ = "active" THEN "gone" ELSE @,
                      !.run = IF srv[j].unit = "active" THEN "over" ELSE @,
                      !.child = IF @ = "alive" THEN "killed" ELSE @,
                      !.cancel = "idle"]]
  /\ lock' = "free"
  /\ UNCHANGED registered

\* The action is registered again, or disabled or removed.
RegistryChanges ==
  /\ SpendServer("registry")
  /\ registered' \in (Revisions \cup {0}) \ {registered}
  /\ UNCHANGED <<srv, lock>>

CoreStep(j) == StartJob(j) \/ StartReturns(j) \/ StartFails(j) \/ CancelAsk(j)
DispatchStep(j) ==
  claim_job(j) \/ DispatchCheck(j) \/ DispatchSpawn(j) \/ DispatchReturns(j) \/ DispatchSpawnFails(j)
RunStep(j) ==
  \/ RunLoad(j) \/ RunWait(j) \/ RunLock(j) \/ RunBegin(j) \/ RunExec(j)
  \/ ChildEnds(j) \/ RunCollect(j) \/ RunFinish(j)
CancelStep(j) ==
  CancelLoad(j) \/ CancelMark(j) \/ CancelStop(j) \/ CancelStopped(j) \/ CancelFinish(j)

NextServer ==
  \/ \E j \in ServerJobs : CoreStep(j) \/ DispatchStep(j) \/ RunStep(j) \/ CancelStep(j)
  \/ ServerReboot
  \/ RegistryChanges

---------------------------------------------------------------------------
(* Properties *)

\* Types of the variables.
ServerTypeOK ==
  /\ registered \in Revisions \cup {0}
  /\ srv \in [ServerJobs -> ServerJobStates]
  /\ lock \in ServerJobs \cup {"free"}
  /\ srvLeft \in [{"registry", "cancel", "fault"} -> Nat]

\* While an action's process is alive its job holds the one global lock, so two
\* privileged actions never run at the same time (run_job, cancel_job, a reboot).
LockGuardsChild == \A j \in ServerJobs : srv[j].child = "alive" => lock = j

\* A job file that says succeeded is the file of an action that did succeed and
\* was not cancelled by then, whatever failed around it.
SucceededIsTrue ==
  \A j \in ServerJobs : srv[j].public.status = "succeeded" => srv[j].child = "succeeds"

\* A job that was reported cancelled has no process left, so a cancelled action
\* is not still at work behind its record.
CancelledIsOver ==
  \A j \in ServerJobs : srv[j].public.status = "cancelled" => srv[j].child # "alive"

\* What a job file says about the end of its action is true.
OutcomeIsTrue == SucceededIsTrue /\ CancelledIsOver

\* A job that was started is reported finished in the end, cancelled or not, when
\* no command fails, no process dies and the action stays registered.
ServerJobEnds ==
  (srvLeft.fault = 0 /\ srvLeft.registry = 0) => \A j \in ServerJobs : srv[j].public.status # "none" ~> srv[j].public.status \in Terminal

SpecServer == InitServer /\ [][NextServer]_srvVars
FairServer ==
  \A j \in ServerJobs :
    /\ WF_srvVars(StartReturns(j) \/ (srv[j].dispatch = "failed" /\ StartFails(j)))
    /\ WF_srvVars(claim_job(j) \/ DispatchCheck(j) \/ DispatchSpawn(j) \/ DispatchReturns(j))
    /\ SF_srvVars(RunLock(j))
    /\ WF_srvVars(RunStep(j))
    /\ WF_srvVars(CancelStep(j))

FairSpecServer == SpecServer /\ FairServer

=============================================================================
