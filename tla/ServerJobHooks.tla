--------------------------- MODULE ServerJobHooks ---------------------------
(* The scheduler tick hands every finished server-maintenance job to the module
   that owns it, through one event job (server_job_hooks.py).  A tick may run in
   more than one Core process and may be slow or die at any point.  The job file
   is what ServerMaintenance makes of it: it appears, is rewritten while the job
   is open, gets a terminal status, and may get another one when a cancel
   request overtakes the end of the job.

   A tick works through the jobs one after the other and reads each file anew,
   so a tick is modelled by its visit to one job.  What the tick remembers of
   an unfinished file is per process: the stamp of the file and its own age.        *)
EXTENDS Naturals, Sequences

CONSTANTS
  HookJobs,        \* server-maintenance job ids
  MaxWrites,       \* bound: how often a job file is written
  Cores,           \* the processes in which a tick runs
  WaitingTicks,    \* WAITING_TICKS
  MaxHookAttempts, \* MAX_ATTEMPTS
  MaxHookFaults    \* bound: deaths, stale claims, failed stores, hidden changes

VARIABLES
  file,         \* [HookJobs -> the job file: its status and its stamp]
  hook,         \* [HookJobs -> the TecTacServerJobHook row]
  visit,        \* [Cores -> the tick's visit to a job]
  waiting,      \* [Cores -> [HookJobs -> the entry of _WAITING]]
  module,       \* the owning module: runnable, unavailable, unknown or without a hook
  stored,       \* [HookJobs -> the statuses told by the events stored, in order]
  hookSpent     \* faults so far

hookVars == <<file, hook, visit, waiting, module, stored, hookSpent>>

HookTerminal == {"succeeded", "failed", "cancelled", "dispatch_failed"}
NoHookFile == [status |-> "none", stamp |-> 0]
Files == [status : HookTerminal \cup {"none", "open"}, stamp : 0..MaxWrites]
HookStates == {"none", "claiming", "retry", "queued", "skipped", "ignored", "abandoned", "old"}
SETTLED == {"claiming", "queued", "skipped", "ignored", "abandoned"}
HookModules == {"runnable", "unavailable", "unknown", "no_hook"}
NoVisit == [job |-> "none", step |-> "idle", status |-> "none", outcome |-> "none"]
Forgotten == [stamp |-> 0, age |-> 0]

InitHooks ==
  /\ file = [j \in HookJobs |-> NoHookFile]
  /\ hook = [j \in HookJobs |-> [state |-> "none", attempts |-> 0]]
  /\ visit = [c \in Cores |-> NoVisit]
  /\ waiting = [c \in Cores |-> [j \in HookJobs |-> Forgotten]]
  /\ module = "runnable"
  /\ stored = [j \in HookJobs |-> <<>>]
  /\ hookSpent = 0

\* The job file changed within the last six hours.
RecentFile(j) == file[j] # NoHookFile /\ hook[j].state # "old"

HookFault == hookSpent < MaxHookFaults /\ hookSpent' = hookSpent + 1

\* The entry of an unfinished file holds while the stamp is the same and it is young.
is_waiting(c, j) == waiting[c][j].stamp = file[j].stamp /\ waiting[c][j].age < WaitingTicks

Listed(c, j) == visit[c].step = "idle" /\ RecentFile(j) /\ hook[j].state \notin SETTLED

\* The tick passes the file by, unread: the entry is one tick older.
SkipsBy(ticks, c, j) ==
  /\ Listed(c, j) /\ is_waiting(c, j)
  /\ waiting' = [waiting EXCEPT ![c][j].age = @ + ticks]
  /\ UNCHANGED <<hook, visit, module, stored, hookSpent>>
SkipsForever(c, j) == SkipsBy(0, c, j)   \* Mutant: the entry never gets old.
TickSkips(c, j) == SkipsBy(1, c, j)

\* The listing and the query for the settled ids, then the file is read.
TickReads(c, j) ==
  /\ Listed(c, j) /\ ~is_waiting(c, j)
  /\ IF file[j].status \in HookTerminal
     THEN /\ visit' = [visit EXCEPT ![c] = [job |-> j, step |-> "owner",
                                            status |-> file[j].status, outcome |-> "none"]]
          /\ waiting' = [waiting EXCEPT ![c][j] = Forgotten]
     ELSE /\ waiting' = [waiting EXCEPT ![c][j] = [stamp |-> file[j].stamp, age |-> 0]]
          /\ UNCHANGED visit
  /\ UNCHANGED <<hook, module, stored, hookSpent>>

Leave(c) == visit' = [visit EXCEPT ![c] = NoVisit]
HookGoes(c, step) == visit' = [visit EXCEPT ![c].step = step]
set_state(j, s) == hook' = [hook EXCEPT ![j].state = s]

\* No hook: ignored.  A state that cannot be read leaves the job for the next tick.
TickOwner(c) ==
  LET j == visit[c].job IN
  /\ visit[c].step = "owner"
  /\ \/ module = "no_hook" /\ set_state(j, "ignored") /\ Leave(c)
     \/ module = "unknown" /\ Leave(c) /\ UNCHANGED hook
     \/ module = "unavailable" /\ HookGoes(c, "claim_skip") /\ UNCHANGED hook
     \/ module = "runnable" /\ HookGoes(c, "claim") /\ UNCHANGED hook
  /\ UNCHANGED <<waiting, module, stored, hookSpent>>

\* The row is inserted, or a retry row taken again; any other row belongs to someone else.
ClaimFrom(states, c) ==
  LET j == visit[c].job IN
  /\ visit[c].step \in {"claim", "claim_skip"}
  /\ IF hook[j].state \in states
     THEN /\ hook' = [hook EXCEPT ![j] = [state |-> "claiming", attempts |-> @.attempts + 1]]
          /\ HookGoes(c, IF visit[c].step = "claim" THEN "publish" ELSE "skip")
     ELSE UNCHANGED hook /\ Leave(c)
  /\ UNCHANGED <<waiting, module, stored, hookSpent>>

ClaimAbandoned(c) == ClaimFrom({"none", "retry", "abandoned"}, c)   \* Mutant: an abandoned row is free.
claim(c) == ClaimFrom({"none", "retry"}, c)

TickSkip(c) ==
  /\ visit[c].step = "skip"
  /\ set_state(visit[c].job, "skipped") /\ Leave(c)
  /\ UNCHANGED <<waiting, module, stored, hookSpent>>

\* publish_for_core: the module is looked at once more; a cap or the store may refuse.
TickPublish(c) ==
  LET j == visit[c].job IN
  /\ visit[c].step = "publish"
  /\ \/ /\ module = "runnable"
        /\ stored' = [stored EXCEPT ![j] = Append(@, visit[c].status)]
        /\ visit' = [visit EXCEPT ![c].step = "record", ![c].outcome = "queued"]
        /\ UNCHANGED hookSpent
     \/ /\ module = "unavailable"
        /\ visit' = [visit EXCEPT ![c].step = "record", ![c].outcome = "disabled"]
        /\ UNCHANGED <<stored, hookSpent>>
     \/ /\ IF module \in {"unknown", "no_hook"} THEN UNCHANGED hookSpent ELSE HookFault
        /\ visit' = [visit EXCEPT ![c].step = "record", ![c].outcome = "error"]
        /\ UNCHANGED stored
  /\ UNCHANGED <<hook, waiting, module>>

\* The row gets its end state, whatever it says by now.
TickRecord(c) ==
  LET j == visit[c].job IN
  /\ visit[c].step = "record"
  /\ set_state(j, CASE visit[c].outcome = "queued" -> "queued"
                    [] visit[c].outcome = "disabled" -> "skipped"
                    [] OTHER -> IF hook[j].attempts >= MaxHookAttempts THEN "abandoned" ELSE "retry")
  /\ Leave(c)
  /\ UNCHANGED <<waiting, module, stored, hookSpent>>

\* A claim left for 15 minutes is abandoned by whichever tick comes next, also
\* when the tick that made it is only slow.
expire_stale_claims(j) ==
  /\ hook[j].state = "claiming"
  /\ IF \E c \in Cores : visit[c].job = j THEN HookFault ELSE UNCHANGED hookSpent
  /\ set_state(j, "abandoned")
  /\ UNCHANGED <<visit, waiting, module, stored>>

\* The job has ended and no tick is at work on it.
AtRest(j) ==
  /\ file[j].status \in HookTerminal
  /\ \A c \in Cores : visit[c].job # j

\* Six hours pass with no tick: the file drops out of the listing.  After 30 days
\* the row goes as well (a job ends within 7 days), unless it is claiming or retry.
Ages(j) ==
  /\ AtRest(j) /\ RecentFile(j) /\ hook[j].state # "claiming"
  /\ HookFault
  /\ set_state(j, "old")
  /\ UNCHANGED <<visit, waiting, module, stored>>

\* The process dies in the middle of a visit and loses what it remembered.
TickDies(c) ==
  /\ visit[c].step # "idle"
  /\ HookFault
  /\ Leave(c)
  /\ waiting' = [waiting EXCEPT ![c] = [j \in HookJobs |-> Forgotten]]
  /\ UNCHANGED <<hook, module, stored>>

ModuleChanges ==
  /\ module' \in HookModules \ {module}
  /\ HookFault
  /\ UNCHANGED <<hook, visit, waiting, stored>>

VisitStep(c) == TickOwner(c) \/ claim(c) \/ TickSkip(c) \/ TickPublish(c) \/ TickRecord(c)
TickStep(c, j) == TickSkips(c, j) \/ TickReads(c, j)

\* Core and the root helper write the file.  Its stamp, (mtime, size), is a new one
\* unless the write falls into the same instant and keeps the size.
FileWritten(j) ==
  /\ file[j].stamp < MaxWrites /\ hook[j].state # "old"
  /\ \E st \in HookTerminal \cup {"open"} :
       \/ /\ file[j].status \notin HookTerminal /\ UNCHANGED hookSpent
          /\ file' = [file EXCEPT ![j] = [status |-> st, stamp |-> @.stamp + 1]]
       \/ /\ file[j].status = "open" /\ HookFault
          /\ file' = [file EXCEPT ![j].status = st]
       \/ /\ file[j].status \in HookTerminal /\ st # "open" /\ HookFault
          /\ file' = [file EXCEPT ![j] = [status |-> st, stamp |-> @.stamp + 1]]
  /\ UNCHANGED <<hook, visit, waiting, module, stored>>

NextHooks ==
  \/ /\ \/ \E c \in Cores : VisitStep(c) \/ TickDies(c) \/ \E j \in HookJobs : TickStep(c, j)
        \/ \E j \in HookJobs : expire_stale_claims(j) \/ Ages(j)
        \/ ModuleChanges
     /\ UNCHANGED file
  \/ \E j \in HookJobs : FileWritten(j)

SpecHooks == InitHooks /\ [][NextHooks]_hookVars

---------------------------------------------------------------------------
(* Properties *)

\* Types of the variables.
HooksTypeOK ==
  /\ file \in [HookJobs -> Files]
  /\ hook \in [HookJobs -> [state : HookStates, attempts : 0..MaxHookAttempts]]
  /\ waiting \in [Cores -> [HookJobs -> [stamp : 0..MaxWrites, age : 0..WaitingTicks]]]
  /\ \A c \in Cores : visit[c].job \in HookJobs \cup {"none"}
  /\ module \in HookModules /\ hookSpent \in 0..MaxHookFaults

\* Core stores at most one event for a job, however many ticks see it finished,
\* die, or are taken for dead while they still work (_claim, _expire_stale_claims).
HandedOverOnce == \A j \in HookJobs : Len(stored[j]) <= 1

\* A finished job is settled in the end: handed over, skipped, ignored or given
\* up, unless the state of its module stays unreadable.
FinishedIsSettled ==
  \A j \in HookJobs : file[j].status \in HookTerminal
     ~> (hook[j].state \in (SETTLED \ {"claiming"}) \cup {"old"} \/ module = "unknown")

\* Every Core process keeps ticking, and a claim that stays is found stale.
FairHooks ==
  /\ \A c \in Cores : WF_hookVars(VisitStep(c) /\ UNCHANGED file)
  /\ \A c \in Cores, j \in HookJobs : WF_hookVars(TickStep(c, j) /\ UNCHANGED file)
  /\ \A j \in HookJobs : WF_hookVars(expire_stale_claims(j) /\ UNCHANGED file)
FairSpecHooks == SpecHooks /\ FairHooks

=============================================================================
