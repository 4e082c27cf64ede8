----------------------------- MODULE UpdateCheck -----------------------------
(***************************************************************************)
(* The online update check (system_update.py): saved answers, conditional  *)
(* GitHub requests under a single-flight lock, the saved rate-limit reset, *)
(* and the staging of a commit an administrator saw in a check.            *)
(*                                                                         *)
(* A "source" is a branch or the stable release; its commits are numbered  *)
(* in the order GitHub got them.  A request takes at most RequestTicks.    *)
(***************************************************************************)
EXTENDS Naturals, FiniteSets

CONSTANTS Checkers,       \* web workers
          Sources,        \* "branch" and "release"
          FreshTicks,     \* source -> how long a saved answer is current
          SuppressTicks,  \* source -> how long a forced check is answered from it
          RequestTicks, LastTick, LastCommit,
          Asked,          \* assignments of workers to the source they are asked about
          CheckBudgets    \* [net, cache, lock]: failures that may happen

VARIABLES now,      \* the clock
          since,    \* source -> sequence of times: since[s][c] is when commit c became the head
          saved,    \* source -> the row of the cache file
          etag,     \* source -> the commit of the saved conditional answer
          reset,    \* when GitHub's exhausted limit ends, as saved
          flight,   \* source -> holder of its refresh lock
          chk,      \* the workers
          checkLeft

checkVars == <<now, since, saved, etag, reset, flight, chk, checkLeft>>

NoCommit == 0
NoRow == [head |-> NoCommit, checked |-> 0]
Nobody == "nobody"
Resting == [at |-> "idle", src |-> "branch", force |-> FALSE, pin |-> NoCommit, began |-> 0,
            got |-> NoRow, sent |-> 0, stale |-> TRUE, ok |-> FALSE]

HeadOf(s) == CHOOSE c \in DOMAIN since[s] : \A d \in DOMAIN since[s] : d <= c

InitCheck ==
  /\ now = 1
  /\ since = [s \in Sources |-> [c \in {1} |-> 1]]
  /\ saved = [s \in Sources |-> NoRow]
  /\ etag = [s \in Sources |-> NoCommit]
  /\ reset = 0
  /\ flight = [s \in Sources |-> Nobody]
  /\ chk \in {[w \in Checkers |-> [Resting EXCEPT !.src = f[w]]] : f \in Asked}
  /\ checkLeft \in CheckBudgets

CheckSpend(what) == /\ checkLeft[what] > 0
                    /\ checkLeft' = [checkLeft EXCEPT ![what] = @ - 1]
Goes(w, place) == chk' = [chk EXCEPT ![w].at = place]
Answers(w, row) == chk' = [chk EXCEPT ![w].at = "answer", ![w].got = row,
                                      ![w].force = FALSE, ![w].began = 0, ![w].sent = 0]
Here_(w, place) == chk[w].at = place
Row(w) == saved[chk[w].src]
Age(row) == now - row.checked
Lets(w) == flight' = [flight EXCEPT ![chk[w].src] = IF @ = w THEN Nobody ELSE @]
CacheSame == UNCHANGED <<saved, etag, reset>>
WorldSame == UNCHANGED <<now, since>>

----------------------------------------------------------------------------
\* online_status, or a stage pinned to a commit that a check showed.
online_status(w) ==
  /\ Here_(w, "idle")
  /\ \E f \in BOOLEAN :
       chk' = [chk EXCEPT ![w] = [Resting EXCEPT !.at = "ask", !.src = chk[w].src, !.force = f]]
  /\ WorldSame /\ CacheSame /\ UNCHANGED <<flight, checkLeft>>

\* A pinned release needs no request: it must equal the saved one.  A pinned
\* branch re-resolves the head (_current_branch_head forces a check).
stage_online_package(w) ==
  /\ Here_(w, "idle") /\ chk[w].got # NoRow
  /\ IF chk[w].src = "release"
     THEN chk' = [chk EXCEPT ![w].at = "idle", ![w].pin = chk[w].got.head,
                             ![w].ok = (Row(w).head = chk[w].got.head)]
     ELSE /\ Row(w) # NoRow
          /\ chk' = [chk EXCEPT ![w].at = "ask", ![w].force = TRUE, ![w].pin = chk[w].got.head,
                                ![w].got = NoRow, ![w].ok = FALSE, ![w].stale = TRUE]
  /\ WorldSame /\ CacheSame /\ UNCHANGED <<flight, checkLeft>>

\* The saved answer settles a check that is fresh, or forced again too soon.
Settles(s, row, force) ==
  row # NoRow /\ IF force THEN Age(row) < SuppressTicks[s] ELSE Age(row) < FreshTicks[s]

_branch_head(w) ==
  LET c == chk[w] IN
  /\ Here_(w, "ask")
  /\ IF Settles(c.src, Row(w), c.force) THEN Answers(w, Row(w))
     ELSE chk' = [chk EXCEPT ![w].at = "wait", ![w].began = now]
  /\ WorldSame /\ CacheSame /\ UNCHANGED <<flight, checkLeft>>

\* _refresh_lock: held, or not to be had in time.
RefreshIf(free, w) ==
  /\ Here_(w, "wait")
  /\ \/ /\ free
        /\ flight' = [flight EXCEPT ![chk[w].src] = w]
        /\ Goes(w, "held") /\ UNCHANGED checkLeft
     \/ CheckSpend("lock") /\ Goes(w, "refused") /\ UNCHANGED flight
  /\ WorldSame /\ CacheSame
RefreshShared(w) == RefreshIf(TRUE, w)   \* Mutant: the lock does not exclude.
_refresh_lock(w) == RefreshIf(flight[chk[w].src] = Nobody, w)

\* Another request may have refreshed the row while this one waited.
Shared(w) ==
  LET c == chk[w] IN
  Row(w) # NoRow /\ \/ Row(w).checked > c.began
                    \/ ~c.force /\ Age(Row(w)) < FreshTicks[c.src]

\* Under the lock, or without it, where only the saved answer is left.
Recheck(w) ==
  /\ \/ Here_(w, "held") /\ IF Shared(w) THEN Answers(w, Row(w)) /\ Lets(w)
                            ELSE Goes(w, "fetch") /\ UNCHANGED flight
     \/ Here_(w, "refused") /\ Answers(w, Row(w)) /\ UNCHANGED flight
  /\ WorldSame /\ CacheSame /\ UNCHANGED checkLeft

\* github_get_json up to the request: nothing is sent before a saved reset.
github_get_json(w) ==
  /\ Here_(w, "fetch")
  /\ IF reset > now THEN Answers(w, Row(w)) /\ Lets(w)
     ELSE /\ chk' = [chk EXCEPT ![w].at = "sent", ![w].sent = now, ![w].began = 0,
                                ![w].got = [head |-> HeadOf(chk[w].src), checked |-> now]]
          /\ UNCHANGED flight
  /\ WorldSame /\ CacheSame /\ UNCHANGED checkLeft

\* 304 for the saved conditional answer returns that answer's body.
Body(w) == IF etag[chk[w].src] = chk[w].got.head THEN etag[chk[w].src] ELSE chk[w].got.head

\* _cache_update of the conditional answer and of the source's row; the cache
\* is an optimisation, so a lock that is not had loses the write.
_save_github_result(w) ==
  LET s == chk[w].src
      row == [head |-> Body(w), checked |-> now] IN
  /\ Here_(w, "sent")
  /\ Answers(w, row) /\ Lets(w)
  /\ \/ /\ saved' = [saved EXCEPT ![s] = row]
        /\ etag' = [etag EXCEPT ![s] = row.head]
        /\ UNCHANGED checkLeft
     \/ CheckSpend("cache") /\ UNCHANGED <<saved, etag>>
     \/ /\ CheckSpend("cache") /\ etag' = [etag EXCEPT ![s] = row.head]
        /\ UNCHANGED saved
  /\ UNCHANGED reset /\ WorldSame

\* No answer, or an exhausted limit whose reset is saved: the saved row.
FailsKeeping(row, w) ==
  /\ Here_(w, "sent") /\ CheckSpend("net")
  /\ Answers(w, Row(w)) /\ Lets(w)
  /\ \/ UNCHANGED reset
     \/ reset' = now + 1
  /\ saved' = [saved EXCEPT ![chk[w].src] = row]
  /\ UNCHANGED etag /\ WorldSame
FailsForgetting(w) == FailsKeeping(NoRow, w)   \* Mutant: a failure drops the saved answer.
RequestFails(w) == FailsKeeping(Row(w), w)

\* _branch_status marks an answer past its limit; a pinned stage goes on only
\* when the answer is inside the limit and still the commit that was shown.
Old(w) == chk[w].got = NoRow \/ Age(chk[w].got) >= FreshTicks[chk[w].src]
ShowsAs(stale, old, w) ==
  LET c == chk[w] IN
  /\ Here_(w, "answer")
  /\ chk' = [chk EXCEPT ![w].at = "idle", ![w].stale = stale,
                        ![w].ok = (c.pin # NoCommit /\ ~old /\ c.got.head = c.pin)]
  /\ WorldSame /\ CacheSame /\ UNCHANGED <<flight, checkLeft>>
ShowsAnyAge(w) == ShowsAs(chk[w].got = NoRow, Old(w), w)   \* Mutant: any answer is current.
StagesAnyAge(w) == ShowsAs(Old(w), FALSE, w)               \* Mutant: any age is staged.
_current_branch_head(w) == ShowsAs(Old(w), Old(w), w)

CheckTick ==
  /\ now < LastTick /\ now' = now + 1
  /\ \A w \in Checkers : Here_(w, "sent") => now - chk[w].sent < RequestTicks
  /\ \A w \in Checkers : ~Here_(w, "answer")       \* the answer leaves at once
  /\ chk' = [w \in Checkers |-> [chk[w] EXCEPT !.ok = FALSE, !.stale = TRUE]]
  /\ CacheSame /\ UNCHANGED <<since, flight, checkLeft>>

\* GitHub gets a commit of a source somebody asks about.
HeadMoves(s) ==
  /\ HeadOf(s) < LastCommit /\ \E w \in Checkers : chk[w].src = s
  /\ since' = [since EXCEPT ![s] = [c \in DOMAIN @ \cup {HeadOf(s) + 1} |->
                                      IF c \in DOMAIN @ THEN @[c] ELSE now]]
  /\ CacheSame /\ UNCHANGED <<now, flight, chk, checkLeft>>

AskPart(w) == online_status(w) \/ stage_online_package(w) \/ _branch_head(w)
FetchPart(w) == \/ _refresh_lock(w) \/ Recheck(w) \/ github_get_json(w)
                \/ _save_github_result(w) \/ RequestFails(w) \/ _current_branch_head(w)
NextCheck == \/ \E w \in Checkers : AskPart(w) \/ FetchPart(w)
             \/ CheckTick
             \/ \E s \in Sources : HeadMoves(s)

SpecCheck == InitCheck /\ [][NextCheck]_checkVars

----------------------------------------------------------------------------
\* Types of the check state; a saved row names a commit GitHub has.
CheckTypeOK ==
  /\ now \in 1..LastTick
  /\ \A s \in Sources : saved[s].head \in 0..HeadOf(s) /\ flight[s] \in Checkers \cup {Nobody}
  /\ \A w \in Checkers : chk[w].at \in {"idle", "ask", "wait", "held", "refused", "fetch", "sent", "answer"}

\* Commit c of s was the head at t or later.
HeadSince(s, c, t) == c = HeadOf(s) \/ since[s][c + 1] >= t

\* An answer shown as current really was the head within the limit (plus the
\* time one request may take), whatever mix of saved answers, shared
\* refreshes, 304s, failed requests and lost cache writes produced it.
ShownIsRecent ==
  \A w \in Checkers : Here_(w, "idle") /\ ~chk[w].stale =>
    HeadSince(chk[w].src, chk[w].got.head, (now + 1) - (FreshTicks[chk[w].src] + RequestTicks))

\* A pinned branch stage only starts from a commit that was the head within
\* the limit: a branch that moved between the check and the stage is refused.
StagedIsRecent ==
  \A w \in Checkers : chk[w].ok /\ chk[w].src = "branch" =>
    HeadSince("branch", chk[w].pin, (now + 1) - (FreshTicks["branch"] + RequestTicks))

\* At most one request per source is under way: _refresh_lock is held over the
\* request and given back on every way out.
SingleFlight ==
  \A s \in Sources : Cardinality({w \in Checkers : Here_(w, "sent") /\ chk[w].src = s}) <= 1

\* The cache file never goes back to an older commit of a source, nor loses
\* it: no request that was overtaken, failed or answered 304 writes over a
\* newer row (_save_github_result under _refresh_lock).
SavedNeverGoesBack == \A s \in Sources : saved'[s].head >= saved[s].head

\* The cached online check is sound: what is shown or staged as current was
\* current within the limit, one request per source is under way, and the
\* cache does not go backwards.
CheckIsSound ==
  [][ShownIsRecent' /\ StagedIsRecent' /\ SingleFlight' /\ SavedNeverGoesBack]_checkVars
=============================================================================
