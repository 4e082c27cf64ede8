----------------------- MODULE SchedulerOverlap_proofs ----------------------
(* The SKIP policy as the managed machines see it: when no database or broker *)
(* error follows a successful send, two handlers the tick started for one    *)
(* SKIP schedule never execute at the same time, recovery never gives up on  *)
(* a run that is still executing, and the outcome of a run is final.         *)
EXTENDS SchedulerSafety_proofs

(* The steps that are not calm. *)
LEMMA ElapseLive == ASSUME TypeOK, LiveInv, Elapse PROVE LiveInv'
<1>1. UNCHANGED <<run, worker, queueing, msgs, tick>> /\ now' = now + 1
  BY DEF Elapse, dbVars
<1>2. \A w \in Workers : Executing(w) => now' <= worker[w].since + HardLimit
  <2> SUFFICES ASSUME NEW w \in Workers, Executing(w)
               PROVE  now' <= worker[w].since + HardLimit
    OBVIOUS
  <2>1. worker[w] # Idle
    <3>1. worker[w].phase = "handler" /\ Idle.phase = "idle"
      BY DEF Executing, Idle
    <3> QED
      BY <3>1
  <2>2. worker[w].since \in Nat /\ HardLimit \in Nat /\ now \in Nat
    BY BusyFields, HardLimitNat, Zenon DEF Executing, TypeOK
  <2>3. now < worker[w].since + HardLimit
    BY <2>1 DEF Elapse
  <2> QED
    BY <1>1, <2>2, <2>3
<1> QED
  BY <1>1, <1>2 DEF LiveInv, Sent, Busy, Executing, HardLimit

LEMMA TickStartLive == ASSUME SafeInv, LiveInv, TickStart PROVE LiveInv'
<1> USE DEF SafeInv, TypeOK
<1>1. UNCHANGED <<worker, queueing, msgs, now>>
  BY DEF TickStart, TickStartWith, envVars
<1>2. ASSUME NEW r \in Runs
      PROVE  \/ run'[r] = run[r]
             \/ run[r].status = "queued" /\ run'[r].status = "failed"
  BY RowFields DEF TickStart, TickStartWith, StaleQueued
<1>3. tick'.stale = {r \in Runs : run[r].status = "running" /\ now - run[r].since > HardLimit}
  <2>1. IdleTick(now) \in TickStates
    BY IdleTypes
  <2>2. \A S : [IdleTick(now) EXCEPT !.pc = "recover", !.stale = S].stale = S
    BY <2>1 DEF TickStates
  <2> QED
    BY <2>2 DEF TickStart, TickStartWith
<1>4. ASSUME NEW r \in tick'.stale
      PROVE  /\ r \in Runs /\ run[r].status = "running" /\ run'[r] = run[r]
             /\ \A w \in Workers : Executing(w) => worker[w].run # r
  <2>1. r \in Runs /\ run[r].status = "running" /\ now - run[r].since > HardLimit
    BY <1>3
  <2>2. ASSUME NEW w \in Workers, Executing(w), worker[w].run = r PROVE FALSE
    <3>1. run[r].since = worker[w].since /\ now <= worker[w].since + HardLimit
      BY <2>1, <2>2 DEF LiveInv
    <3>2. worker[w].since \in Nat /\ HardLimit \in Nat /\ now \in Nat
      BY <2>2, BusyFields, HardLimitNat, Zenon DEF Executing
    <3> QED
      BY <2>1, <3>1, <3>2
  <2> QED
    BY <1>2, <2>1, <2>2
<1>5. \A w \in Workers : Executing(w) =>
        worker[w].run \in Runs /\ run'[worker[w].run] = run[worker[w].run]
  BY <1>2, BusyFields, Zenon DEF HandlerInv, Holding, Executing
<1>6. \A r \in Runs : run[r].status # "none" => run'[r].status # "none"
  BY <1>2
<1>7. \A r \in Runs : run'[r].status \in {"none", "queued"} => run'[r] = run[r]
  BY <1>2
<1>8. \A r \in Runs : Sent(r) => Sent(r)'
  BY <1>1, <1>6 DEF Sent
<1>9. (\A x \in msgs : x.run \in Runs) /\ \A w \in Workers : Busy(w) => worker[w].run \in Runs
  BY BusyFields, Zenon DEF Messages, Busy
<1>10. /\ \A x \in msgs' : Sent(x.run)'
       /\ \A w \in Workers : Busy(w)' => Sent(worker[w].run)'
  BY <1>1, <1>8, <1>9 DEF LiveInv, Busy
<1>11. /\ \A r \in Runs : queueing'[r] # "idle" => run'[r].status # "none"
       /\ \A r \in Runs : run'[r].status \in {"none", "queued"} => run'[r].comp \notin {"module", "server"}
  BY <1>1, <1>6, <1>7 DEF LiveInv
<1>12. ASSUME NEW w \in Workers, Executing(w)'
       PROVE  /\ now' <= worker'[w].since + HardLimit
              /\ run'[worker'[w].run].status = "running" =>
                   /\ run'[worker'[w].run].comp \notin {"module", "server"}
                   /\ run'[worker'[w].run].since = worker'[w].since
              /\ run'[worker'[w].run].linked => run'[worker'[w].run].status = "running"
              /\ run'[worker'[w].run].why # "Stale"
  <2>1. Executing(w) /\ worker' = worker /\ now' = now
        /\ run'[worker[w].run] = run[worker[w].run]
    BY <1>1, <1>5, <1>12 DEF Executing
  <2> QED
    BY <2>1 DEF LiveInv
<1>13. \A r \in tick'.stale :
         /\ run'[r].status \notin {"none", "queued"}
         /\ \A w \in Workers : Executing(w)' => worker'[w].run # r
  BY <1>1, <1>4 DEF Executing
<1> QED
  BY <1>10, <1>11, <1>12, <1>13 DEF LiveInv, HardLimit

LEMMA SendLive ==
  ASSUME TypeOK, LiveInv, NoLateFault, NEW r \in Runs, QueueSend(r)
  PROVE  LiveInv'
<1> USE DEF TypeOK
<1>1. UNCHANGED <<run, worker, tick, now>> /\ queueing[r] = "send"
  BY DEF QueueSend, envVars, dbVars
<1>2. \/ /\ queueing' = [queueing EXCEPT ![r] = "saveId"]
         /\ msgs' = msgs \cup {[run |-> r, retries |-> 0, eta |-> now]}
      \/ queueing' = [queueing EXCEPT ![r] = "fail"] /\ msgs' = msgs
  BY NoLateSpend DEF QueueSend, Goto
<1>3. \A q \in Runs : Sent(q) => q # r /\ Sent(q)'
  BY <1>1, <1>2 DEF Sent
<1>4. run[r].status # "none"
  BY <1>1 DEF LiveInv
<1>5. ASSUME NEW x \in msgs' PROVE Sent(x.run)'
  <2>1. CASE x \in msgs
    BY <1>3, <2>1 DEF LiveInv, Messages
  <2>2. CASE x \notin msgs
    <3>1. x.run = r /\ queueing' = [queueing EXCEPT ![r] = "saveId"]
      BY <1>2, <2>2
    <3> QED
      BY <1>1, <1>4, <3>1 DEF Sent
  <2> QED
    BY <2>1, <2>2
<1>6. \A w \in Workers : Busy(w)' => Sent(worker[w].run)'
  <2> SUFFICES ASSUME NEW w \in Workers, Busy(w) PROVE Sent(worker[w].run)'
    BY <1>1 DEF Busy
  <2>1. worker[w].run \in Runs /\ Sent(worker[w].run)
    BY BusyFields, Zenon DEF LiveInv, Busy
  <2> QED
    BY <1>1, <1>3, <2>1 DEF Sent
<1>7. \A q \in Runs : queueing'[q] # "idle" => run'[q].status # "none"
  BY <1>1, <1>2, <1>4 DEF LiveInv
<1> QED
  BY <1>1, <1>5, <1>6, <1>7 DEF LiveInv, Executing, HardLimit

LEMMA StartLive ==
  ASSUME SafeInv, LiveInv, NEW s, NEW kind, NEW due, HasFresh,
         run' = [run EXCEPT ![Fresh] = Queued(s, kind, due)],
         queueing' = [queueing EXCEPT ![Fresh] = "send"],
         tick'.stale = tick.stale, UNCHANGED <<worker, msgs, now>>
  PROVE  LiveInv'
<1> USE DEF SafeInv, TypeOK
<1> DEFINE f == Fresh
           row == Queued(s, kind, due)
<1>1. f \in Runs /\ run[f].status = "none"
  BY FreshType
<1>2. row.status = "queued" /\ row.comp \notin {"module", "server"}
  BY DEF Queued, Blank
<1>3. /\ run' = [run EXCEPT ![f] = row] /\ queueing' = [queueing EXCEPT ![f] = "send"]
      /\ UNCHANGED <<worker, msgs, now>>
  OBVIOUS
<1> HIDE DEF f, row
<1>4. \A r \in Runs \ {f} : run'[r] = run[r] /\ queueing'[r] = queueing[r]
  BY <1>3
<1>5. run'[f].status = "queued" /\ run'[f].comp \notin {"module", "server"}
  BY <1>1, <1>2, <1>3
<1>6. \A r \in Runs : Sent(r) => r \in Runs \ {f}
  BY <1>1 DEF Sent
<1>7. \A w \in Workers : Executing(w) =>
        worker[w].run \in Runs \ {f} /\ run'[worker[w].run] = run[worker[w].run]
  BY <1>4, <1>6, BusyFields, Zenon DEF LiveInv, Executing, Busy
<1>8. \A x \in msgs : x.run \in Runs \ {f}
  BY <1>6 DEF LiveInv, Messages
<1>9. \A w \in Workers : Busy(w) => worker[w].run \in Runs \ {f}
  BY <1>6, BusyFields, Zenon DEF LiveInv, Busy
<1>10. \A r \in Runs \ {f} : Sent(r) => Sent(r)'
  BY <1>4 DEF Sent
<1>11. /\ \A x \in msgs' : Sent(x.run)'
       /\ \A w \in Workers : Busy(w)' => Sent(worker[w].run)'
  BY <1>3, <1>8, <1>9, <1>10 DEF LiveInv, Busy
<1>12. /\ \A r \in Runs : queueing'[r] # "idle" => run'[r].status # "none"
       /\ \A r \in Runs : run'[r].status \in {"none", "queued"} => run'[r].comp \notin {"module", "server"}
  <2>1. \A r \in Runs \ {f} :
          /\ queueing'[r] # "idle" => run'[r].status # "none"
          /\ run'[r].status \in {"none", "queued"} => run'[r].comp \notin {"module", "server"}
    BY <1>4 DEF LiveInv
  <2> QED
    BY <1>5, <2>1
<1>13. \A r \in tick'.stale :
         /\ run'[r].status \notin {"none", "queued"}
         /\ \A w \in Workers : Executing(w)' => worker'[w].run # r
  <2>1. \A r \in tick.stale : r \in Runs \ {f}
    BY <1>1, TickFields DEF LiveInv
  <2> QED
    BY <1>3, <1>4, <2>1, SMTT(30) DEF LiveInv, Executing
<1>14. \A w \in Workers : Executing(w)' =>
         /\ now' <= worker'[w].since + HardLimit
         /\ run'[worker'[w].run].status = "running" =>
              run'[worker'[w].run].comp \notin {"module", "server"} /\ run'[worker'[w].run].since = worker'[w].since
         /\ run'[worker'[w].run].linked => run'[worker'[w].run].status = "running"
         /\ run'[worker'[w].run].why # "Stale"
  <2> SUFFICES ASSUME NEW w \in Workers, Executing(w)'
               PROVE  /\ now' <= worker'[w].since + HardLimit
                      /\ run'[worker'[w].run].status = "running" =>
                           /\ run'[worker'[w].run].comp \notin {"module", "server"}
                           /\ run'[worker'[w].run].since = worker'[w].since
                      /\ run'[worker'[w].run].linked => run'[worker'[w].run].status = "running"
                      /\ run'[worker'[w].run].why # "Stale"
    OBVIOUS
  <2>1. Executing(w) /\ worker' = worker /\ now' = now
    BY <1>3 DEF Executing
  <2>2. run'[worker[w].run] = run[worker[w].run]
    BY <1>7, <2>1
  <2> QED
    BY <2>1, <2>2, SMTT(30) DEF LiveInv
<1> QED
  BY <1>11, <1>12, <1>13, <1>14 DEF LiveInv, HardLimit

LEMMA ClaimKept ==
  ASSUME NEW x \in RunRows, NEW t, NEW n
  PROVE  LET claimed == [x EXCEPT !.status = "running", !.since = t, !.attempt = n,
                                  !.why = ""]
             requeued == [x EXCEPT !.status = "queued", !.since = t, !.why = "Error"]
         IN  /\ claimed.status = "running" /\ claimed.comp = x.comp
             /\ claimed.since = t /\ claimed.why # "Stale"
             /\ requeued.status = "queued" /\ requeued.comp = x.comp
BY Zenon DEF RunRows

(* One row c changes hands; what is left to show about it are the premises. *)
LEMMA HandOver ==
  ASSUME SafeInv, LiveInv, NEW v \in Workers, NEW c \in Runs, Sent(c),
         UNCHANGED <<now, queueing, tick>>, msgs' \subseteq msgs,
         \A r \in Runs \ {c} : run'[r] = run[r],
         \A w \in Workers \ {v} : worker'[w] = worker[w],
         run'[c].status \in {"queued", "running"}, worker'[v].run = c,
         run'[c].comp \notin {"module", "server"},
         \A w \in Workers \ {v} : Executing(w) => worker[w].run # c,
         c \notin tick.stale,
         worker'[v].phase = "handler" =>
           /\ now <= worker'[v].since + HardLimit
           /\ run'[c].status = "running" /\ run'[c].since = worker'[v].since
           /\ run'[c].why # "Stale"
  PROVE  LiveInv'
<1> USE DEF SafeInv, TypeOK
<1>1. \A r \in Runs : Sent(r) => Sent(r)'
  BY DEF Sent
<1>2. \A x \in msgs' : Sent(x.run)'
  BY <1>1 DEF LiveInv, Messages
<1>3. ASSUME NEW w \in Workers, Busy(w)' PROVE Sent(worker[w].run)'
  <2>1. CASE w = v
    <3>1. Sent(c)'
      BY <1>1, Zenon
    <3> QED
      BY <2>1, <3>1, Zenon DEF Sent
  <2>2. CASE w # v
    <3>1. worker'[w] = worker[w] /\ Sent(worker[w].run) /\ worker[w].run \in Runs
      BY <1>3, <2>2, BusyFields, Zenon DEF LiveInv, Busy
    <3> QED
      BY <1>1, <3>1, Zenon DEF Sent
  <2> QED
    BY <2>1, <2>2, Zenon
<1>4. \A r \in Runs : queueing'[r] # "idle" => run'[r].status # "none"
  BY DEF LiveInv
<1>5. \A r \in Runs : run'[r].status \in {"none", "queued"} =>
        run'[r].comp \notin {"module", "server"}
  BY DEF LiveInv
<1>6. ASSUME NEW w \in Workers, Executing(w)'
      PROVE  /\ now' <= worker'[w].since + HardLimit
             /\ run'[worker'[w].run].status = "running" =>
                  /\ run'[worker'[w].run].comp \notin {"module", "server"}
                  /\ run'[worker'[w].run].since = worker'[w].since
             /\ run'[worker'[w].run].linked => run'[worker'[w].run].status = "running"
             /\ run'[worker'[w].run].why # "Stale"
  <2>1. CASE w = v
    BY <1>6, <2>1 DEF Executing
  <2>2. CASE w # v
    <3>1. Executing(w) /\ worker'[w] = worker[w] /\ worker[w].run \in Runs \ {c}
      BY <1>6, <2>2, BusyFields, Zenon DEF Executing
    <3> QED
      BY <3>1, SMTT(30) DEF LiveInv
  <2> QED
    BY <2>1, <2>2
<1>7. ASSUME NEW r \in tick'.stale
      PROVE  /\ run'[r].status \notin {"none", "queued"}
             /\ \A w \in Workers : Executing(w)' => worker'[w].run # r
  <2>1. r \in tick.stale /\ r \in Runs \ {c}
    BY TickFields
  <2> QED
    BY <2>1, SMTT(30) DEF LiveInv, Executing
<1> QED
  BY <1>2, <1>3, <1>4, <1>5, <1>6, <1>7, Zenon DEF LiveInv, HardLimit

LEMMA ClaimLive ==
  ASSUME SafeInv, LiveInv, NEW v \in Workers, NEW x \in msgs, NEW again, NEW ok,
         Claim(v, x, again, ok)
  PROVE  LiveInv'
<1> USE DEF SafeInv, TypeOK
<1> DEFINE c == x.run
           row == [run[c] EXCEPT !.status = "running", !.since = now,
                                 !.attempt = x.retries + 1, !.why = ""]
<1>1. c \in Runs /\ run[c] \in RunRows /\ Sent(c)
  BY DEF Messages, LiveInv
<1>2. run[c].status = "queued" /\ run' = [run EXCEPT ![c] = row]
  BY Zenon DEF Claim, ClaimFrom
<1>3. /\ row.status = "running" /\ row.comp = run[c].comp
      /\ row.since = now /\ row.why # "Stale"
  BY <1>1, ClaimKept
<1> HIDE DEF row
<1>4. /\ worker'[v].run = c /\ worker'[v].since = now
      /\ \A w \in Workers \ {v} : worker'[w] = worker[w]
  BY Zenon DEF Claim, ClaimFrom
<1>5. UNCHANGED <<now, queueing, tick>> /\ msgs' \subseteq msgs
  BY Zenon DEF Claim, ClaimFrom, Deliver, envVars
<1> HIDE DEF c
<1>6. /\ \A r \in Runs \ {c} : run'[r] = run[r]
      /\ run'[c].status = "running" /\ run'[c].comp \notin {"module", "server"}
      /\ run'[c].since = now /\ run'[c].why # "Stale"
  BY <1>1, <1>2, <1>3 DEF LiveInv
<1>7. \A w \in Workers : Executing(w) => worker[w].run # c
  BY <1>2 DEF HandlerInv, Holding, Executing
<1>8. c \notin tick.stale
  BY <1>2, Zenon DEF LiveInv
<1>9. now <= worker'[v].since + HardLimit
  BY <1>4, HardLimitNat
<1> QED
  BY <1>1, <1>4, <1>5, <1>6, <1>7, <1>8, <1>9, HandOver, SMTT(30)

LEMMA RequeueLive ==
  ASSUME SafeInv, LiveInv, NEW v \in Workers, Requeue(v)
  PROVE  LiveInv'
<1> USE DEF SafeInv, TypeOK
<1> DEFINE c == worker[v].run
           row == [run[c] EXCEPT !.status = "queued", !.since = now, !.why = "Error"]
<1>1. Executing(v) /\ c \in Runs /\ run[c].status = "running" /\ run[c] \in RunRows
  BY BusyFields DEF Requeue, Executing, StillRunning
<1>2. Sent(c)
  BY <1>1 DEF LiveInv, Busy, Executing
<1>3. run' = [run EXCEPT ![c] = row]
  BY Zenon DEF Requeue
<1>4. row.status = "queued" /\ row.comp = run[c].comp
  BY <1>1, ClaimKept
<1> HIDE DEF row
<1>5. /\ worker'[v].run = c /\ worker'[v].phase = "retry"
      /\ \A w \in Workers \ {v} : worker'[w] = worker[w]
  <2>1. worker' = [worker EXCEPT ![v] = [worker[v] EXCEPT !.phase = "retry"]]
    BY DEF Requeue
  <2>2. /\ [worker[v] EXCEPT !.phase = "retry"].phase = "retry"
        /\ [worker[v] EXCEPT !.phase = "retry"].run = c
    BY <1>1 DEF WorkerStates, Executing, Idle
  <2> QED
    BY <2>1, <2>2
<1>6. UNCHANGED <<now, queueing, tick, msgs>>
  BY DEF Requeue, envVars
<1>7. \A w \in Workers \ {v} : Executing(w) => worker[w].run # c
  BY <1>1 DEF OneHolderPerRun, Holding, Executing
<1>8. c \notin tick.stale
  BY <1>1 DEF LiveInv
<1>9. /\ \A r \in Runs \ {c} : run'[r] = run[r]
      /\ run'[c].status = "queued" /\ run'[c].comp \notin {"module", "server"}
  BY <1>1, <1>3, <1>4 DEF LiveInv
<1> HIDE DEF c
<1> QED
  BY <1>1, <1>2, <1>5, <1>6, <1>7, <1>8, <1>9, HandOver, SMTT(30)

LEMMA SendRetryLive ==
  ASSUME TypeOK, LiveInv, NEW v \in Workers, SendRetry(v)
  PROVE  LiveInv'
<1> USE DEF TypeOK
<1>1. UNCHANGED <<now, run, queueing, tick>> /\ IdleAgain(v)
  BY DEF SendRetry, envVars, dbVars
<1>2. worker[v].run \in Runs /\ Sent(worker[v].run)
  BY BusyFields, Zenon DEF SendRetry, LiveInv, Busy
<1>3. \A x \in msgs' : x \in msgs \/ x.run = worker[v].run
  BY DEF SendRetry
<1>4. \A r \in Runs : Sent(r) => Sent(r)'
  BY <1>1 DEF Sent
<1>5. \A x \in msgs' : Sent(x.run)'
  BY <1>2, <1>3, <1>4 DEF LiveInv, Messages
<1>6. \A w \in Workers : Busy(w)' => Busy(w) /\ worker'[w] = worker[w] /\ worker[w].run \in Runs
  BY <1>1, BusyFields, Zenon DEF IdleAgain, Idle, Busy
<1>7. \A w \in Workers : Busy(w)' => Sent(worker[w].run)'
  BY <1>4, <1>6 DEF LiveInv
<1>8. \A w \in Workers : Executing(w)' => Executing(w) /\ worker'[w] = worker[w]
  BY <1>6 DEF Executing, Busy
<1> QED
  BY <1>1, <1>5, <1>7, <1>8, Zenon DEF LiveInv, HardLimit

LEMMA LiveStep ==
  ASSUME NoLateFault, SafeInv, LiveInv, [Next]_vars
  PROVE  LiveInv'
<1>0. TypeOK
  BY DEF SafeInv
<1>1. CASE Elapse
  BY <1>0, <1>1, ElapseLive
<1>2. CASE TickStart
  BY <1>2, TickStartLive
<1>3. ASSUME NEW s \in Schedules, DispatchRun(s) PROVE LiveInv'
  <2>1. /\ HasFresh /\ UNCHANGED <<worker, msgs, now>>
        /\ run' = [run EXCEPT ![Fresh] = Queued(s, "scheduled", Occurrence(s))]
        /\ queueing' = [queueing EXCEPT ![Fresh] = "send"]
    BY <1>3 DEF DispatchRun, Dispatching, envVars
  <2>2. tick'.stale = tick.stale
    BY <1>0, <1>3, StaleKept DEF DispatchRun, TypeOK
  <2> QED
    BY <2>1, <2>2, StartLive, Zenon
<1>4. ASSUME NEW s \in Schedules, RunNow(s) \/ StartOneOff(s) PROVE LiveInv'
  <2>1. \E kind \in {"manual", "oneoff"} : Start(s, kind)
    BY <1>4, Zenon DEF RunNow, StartOneOff
  <2>2. PICK kind \in {"manual", "oneoff"} : Start(s, kind)
    BY <2>1
  <2>3. UNCHANGED <<worker, msgs, now, tick>>
    BY <1>4, Zenon DEF RunNow, StartOneOff, envVars
  <2> QED
    BY <2>2, <2>3, StartLive, Zenon DEF Start
<1>5. ASSUME NEW r \in Runs, QueueSend(r) PROVE LiveInv'
  BY <1>0, <1>5, SendLive
<1>6. ASSUME NEW w \in Workers, NEW x \in msgs, NEW again \in BOOLEAN, NEW ok \in BOOLEAN,
             Claim(w, x, again, ok)
      PROVE  LiveInv'
  BY <1>6, ClaimLive
<1>7. ASSUME NEW w \in Workers, Requeue(w) PROVE LiveInv'
  BY <1>7, RequeueLive
<1>8. ASSUME NEW w \in Workers, SendRetry(w) PROVE LiveInv'
  BY <1>0, <1>8, SendRetryLive
<1>9. CASE UNCHANGED vars
  <2>1. Calm
    BY <1>9, StillCalm DEF vars, CalmQueue, CalmTick
  <2> QED
    BY <1>0, <2>1, CalmLive
<1>10. CASE /\ Next /\ ~Elapse /\ ~TickStart
            /\ ~ \E s \in Schedules : DispatchRun(s) \/ RunNow(s) \/ StartOneOff(s)
            /\ ~ \E r \in Runs : QueueSend(r)
            /\ ~ \E w \in Workers, x \in msgs, again, ok \in BOOLEAN : Claim(w, x, again, ok)
            /\ ~ \E w \in Workers : Requeue(w) \/ SendRetry(w)
  <2>1. Calm
    BY <1>0, <1>10, TickCalm, QueueCalm, WorkerCalm, WebCalm DEF Next, QueueStep
  <2> QED
    BY <1>0, <2>1, CalmLive
<1> QED
  BY <1>1, <1>2, <1>3, <1>4, <1>5, <1>6, <1>7, <1>8, <1>9, <1>10

LEMMA InitLive == ASSUME Init PROVE LiveInv
<1>1. \A w \in Workers : ~Busy(w) /\ ~Executing(w)
  BY Zenon DEF Init, Busy, Executing, Idle
<1>2. msgs = {} /\ tick.stale = {} /\ \A r \in Runs : queueing[r] = "idle"
  BY Zenon DEF Init, IdleTick
<1>3. \A r \in Runs : run[r].comp \notin {"module", "server"}
  BY Zenon DEF Init, Blank
<1> QED
  BY <1>1, <1>2, <1>3 DEF LiveInv

LEMMA LiveAlways == NoLateFault => (Spec => [](SafeInv /\ LiveInv))
<1> SUFFICES ASSUME NoLateFault PROVE Spec => [](SafeInv /\ LiveInv)
  OBVIOUS
<1>1. Init => LiveInv
  BY InitLive
<1>2. SafeInv /\ LiveInv /\ [Next]_vars => LiveInv'
  BY LiveStep
<1> QED
  BY <1>1, <1>2, SafeAlways, PTL DEF Spec

LEMMA LiveSkips == ASSUME SafeInv, LiveInv PROVE SkipNeverOverlaps
<1> SUFFICES ASSUME NEW v \in Workers, NEW w \in Workers,
                    Executing(v), Executing(w), worker[v].run # worker[w].run,
                    run[worker[v].run].linked, run[worker[w].run].linked,
                    run[worker[v].run].kind = "scheduled",
                    run[worker[w].run].kind = "scheduled",
                    run[worker[v].run].sched = run[worker[w].run].sched,
                    run[worker[v].run].sched \in SkipPolicy
             PROVE  FALSE
  BY DEF SkipNeverOverlaps
<1>1. worker[v].run \in Runs /\ worker[w].run \in Runs
  BY BusyFields, Zenon DEF SafeInv, TypeOK, Executing
<1>2. run[worker[v].run].status = "running" /\ run[worker[w].run].status = "running"
  BY DEF LiveInv
<1>3. /\ worker[v].run \in ScheduledActive(run[worker[v].run].sched)
      /\ worker[w].run \in ScheduledActive(run[worker[v].run].sched)
  BY <1>1, <1>2 DEF ScheduledActive, ActiveRuns, RunsOf, IsActive
<1> QED
  BY <1>3 DEF SafeInv, SkipAtMostOneActive

(* Policy SKIP on the machines: as long as no database or broker error comes
   after a successful send in _queue_run, two handlers the tick started for
   one SKIP schedule never execute at the same time, whatever crashes,
   duplicates, losses, retries, recoveries, edits and deletes happen.  With
   such an error the except branch can fail a run that is executing.        *)
THEOREM SkipHoldsOnTheMachines == NoLateFault => (Spec => []SkipNeverOverlaps)
<1>1. SafeInv /\ LiveInv => SkipNeverOverlaps
  BY LiveSkips
<1> QED
  BY <1>1, LiveAlways, PTL

(* recover_stale_runs under the same assumption: a run it failed as stale is
   not executing, because Celery's hard limit, timeout plus grace, ends a task
   before its run becomes a candidate.                                      *)
THEOREM RecoveryIsSafe == NoLateFault => (Spec => []StaleRunsAreDead)
<1>1. SafeInv /\ LiveInv => StaleRunsAreDead
  BY DEF LiveInv, StaleRunsAreDead
<1> QED
  BY <1>1, LiveAlways, PTL

----------------------------------------------------------------------------
(* Outcomes.  The one writer that does not look at the status first is the
   except branch of _queue_run: what it may find there has to be known.      *)

Unsent == \A r \in Runs : queueing[r] \in {"send", "fail"} => run[r].status \in {"queued", "failed"}

(* How a status may change. *)
Moves(r, st) ==
  \/ st = run[r].status
  \/ run[r].status = "none" /\ st = "queued"
  \/ run[r].status = "queued" /\ (st = "failed" \/ Sent(r))
  \/ run[r].status = "running"
  \/ queueing[r] = "idle" /\ st = "deleted"
  \/ queueing[r] = "fail" /\ st = "failed"

AllMove == \A r \in Runs : Moves(r, run'[r].status)

LEMMA OneMoves ==
  ASSUME NEW r \in Runs, \A q \in Runs \ {r} : run'[q] = run[q], Moves(r, run'[r].status)
  PROVE  AllMove
BY DEF AllMove, Moves

LEMMA StillMoves == ASSUME UNCHANGED run PROVE AllMove
BY DEF AllMove, Moves

LEMMA ApplyMoves ==
  ASSUME TypeOK, NEW r \in Runs, NEW kind, NEW st, Apply(r, kind, st)
  PROVE  AllMove
<1>1. run[r].status = "running" /\ \A q \in Runs \ {r} : run'[q] = run[q]
  BY DEF Apply, TypeOK
<1> QED
  BY <1>1, OneMoves DEF Moves

LEMMA StartMoves ==
  ASSUME TypeOK, HasFresh, NEW s, NEW kind, NEW due,
         run' = [run EXCEPT ![Fresh] = Queued(s, kind, due)]
  PROVE  AllMove
<1>1. Fresh \in Runs /\ run[Fresh].status = "none" /\ run'[Fresh].status = "queued"
  BY FreshType, QueuedFields DEF TypeOK
<1>2. \A q \in Runs \ {Fresh} : run'[q] = run[q]
  BY DEF TypeOK
<1> QED
  BY <1>1, <1>2, OneMoves DEF Moves

LEMMA TickMoves == ASSUME TypeOK, TickStep PROVE AllMove
<1>1. CASE TickStart
  <2>1. ASSUME NEW q \in Runs PROVE Moves(q, run'[q].status)
    <3>1. CASE q \in StaleQueued
      <4>1. run'[q] = Ended(q, "failed", "Stale") /\ run[q].status = "queued"
        BY <1>1, <3>1 DEF TickStart, TickStartWith, StaleQueued
      <4>2. run'[q].status = "failed"
        BY <4>1, EndedFields DEF TypeOK
      <4> QED
        BY <4>1, <4>2 DEF Moves
    <3>2. CASE q \notin StaleQueued
      BY <1>1, <3>2 DEF TickStart, TickStartWith, Moves
    <3> QED
      BY <3>1, <3>2
  <2> QED
    BY <2>1 DEF AllMove
<1>2. ASSUME NEW r \in Runs, RecoverRunning(r) PROVE AllMove
  <2>1. run' = run \/ (run[r].status = "running" /\ \A q \in Runs \ {r} : run'[q] = run[q])
    BY <1>2 DEF RecoverRunning, TypeOK
  <2> QED
    BY <2>1, StillMoves, OneMoves DEF Moves
<1>3. CASE TickList \/ TickCleanup \/ TickSettle \/ TickEnd \/ \E s \in Schedules : CleanupCheck(s)
  BY <1>3, StillMoves, Zenon DEF TickList, TickCleanup, TickSettle, TickEnd, CleanupCheck, dbVars
<1>4. ASSUME NEW s \in Schedules,
             \/ DispatchGone(s) \/ DispatchError(s) \/ DispatchPaused(s) \/ DispatchInvalidTargets(s)
             \/ DispatchNothingNew(s) \/ DispatchBaseline(s)
             \/ DispatchUnauthorized(s) \/ DispatchMissed(s)
             \/ DispatchUnavailable(s) \/ DispatchOverlap(s)
      PROVE  AllMove
  <2>1. UNCHANGED run
    BY <1>4, Zenon DEF DispatchGone, DispatchError, DispatchPaused, DispatchInvalidTargets,
       DispatchNothingNew, DispatchBaseline, DispatchUnauthorized, DispatchMissed,
       DispatchUnavailable, DispatchOverlap, Dispatching, NoRow, SkipRow
  <2> QED
    BY <2>1, StillMoves
<1>5. ASSUME NEW s \in Schedules, DispatchRun(s) PROVE AllMove
  BY <1>5, StartMoves, Zenon DEF DispatchRun
<1>6. ASSUME NEW s \in Schedules, CleanupDelete(s) PROVE AllMove
  <2>1. \A q \in Runs : run'[q].status = run[q].status
    BY <1>6, UnlinkedKept DEF CleanupDelete, TypeOK
  <2> QED
    BY <2>1 DEF AllMove, Moves
<1>7. ASSUME NEW r \in Runs, CleanupRun(r) PROVE AllMove
  <2>1. run'[r].status = "deleted" /\ queueing[r] = "idle" /\ \A q \in Runs \ {r} : run'[q] = run[q]
    BY <1>7, Zenon DEF CleanupRun, Blank, TypeOK
  <2> QED
    BY <2>1, OneMoves DEF Moves
<1>8. ASSUME NEW r \in Runs, SettleServerJob(r) PROVE AllMove
  BY <1>8, ApplyMoves DEF SettleServerJob
<1> QED
  BY <1>1, <1>2, <1>3, <1>4, <1>5, <1>6, <1>7, <1>8 DEF TickStep

LEMMA QueueMoves == ASSUME TypeOK, NEW r \in Runs, QueueStep(r) PROVE AllMove
<1>1. CASE QueueSend(r) \/ QueueSaveState(r)
  BY <1>1, StillMoves DEF QueueSend, QueueSaveState, dbVars
<1>2. CASE QueueSaveId(r)
  <2> DEFINE row == [run[r] EXCEPT !.taskId = TRUE]
  <2>1. run' = run \/ run' = [run EXCEPT ![r] = row]
    BY <1>2 DEF QueueSaveId
  <2>2. row.status = run[r].status
    BY KeptFields DEF TypeOK
  <2> HIDE DEF row
  <2> QED
    BY <2>1, <2>2, StillMoves, OneMoves DEF Moves, TypeOK
<1>3. CASE QueueFail(r)
  <2> DEFINE failed == [run EXCEPT ![r] = Ended(r, "failed", "DispatchError")]
  <2>1. failed \in [Runs -> RunRows]
    BY RunRowTypes, Zenon DEF Statuses, Reasons, TypeOK
  <2>2. failed[r].status = "failed" /\ \A q \in Runs \ {r} : failed[q] = run[q]
    BY RowFields DEF TypeOK
  <2>3. run' = failed \/ \E s : run' = Unlinked(s, failed)
    BY <1>3 DEF QueueFail
  <2> HIDE DEF failed
  <2>4. \A q \in Runs : run'[q].status = failed[q].status
    BY <2>1, <2>3, UnlinkedKept
  <2>5. queueing[r] = "fail"
    BY <1>3 DEF QueueFail
  <2> QED
    BY <2>2, <2>4, <2>5 DEF AllMove, Moves
<1> QED
  BY <1>1, <1>2, <1>3 DEF QueueStep

LEMMA WorkerMoves == ASSUME TypeOK, LiveInv, WorkerStep \/ \E w \in Workers : TimeLimit(w) PROVE AllMove
<1>1. ASSUME NEW x \in msgs, NEW again \in BOOLEAN,
             SkipBlocked(x, again) \/ \E w \in Workers, ok \in BOOLEAN : Claim(w, x, again, ok)
      PROVE  AllMove
  <2>1. x.run \in Runs /\ Sent(x.run)
    BY DEF TypeOK, Messages, LiveInv
  <2>2. run[x.run].status = "queued"
    BY <1>1, Zenon DEF SkipBlocked, Claim, ClaimFrom
  <2>3. \A q \in Runs \ {x.run} : run'[q] = run[q]
    BY <1>1, <2>1, Zenon DEF SkipBlocked, Claim, ClaimFrom, TypeOK
  <2> QED
    BY <2>1, <2>2, <2>3, OneMoves DEF Moves
<1>2. ASSUME NEW x \in msgs, NEW again \in BOOLEAN, DropMessage(x, again) PROVE AllMove
  BY <1>2, StillMoves DEF DropMessage, dbVars
<1>3. ASSUME NEW w \in Workers, Abandon(w) \/ SendRetry(w) \/ TimeLimit(w) PROVE AllMove
  BY <1>3, StillMoves DEF Abandon, SendRetry, TimeLimit, dbVars
<1>4. ASSUME NEW w \in Workers,
             \/ RefuseOneOff(w) \/ Succeed(w) \/ Fail(w) \/ Requeue(w)
             \/ \E kind \in {"module", "server"} : Park(w, kind)
      PROVE AllMove
  <2>1. worker[w].run \in Runs /\ run[worker[w].run].status = "running"
    BY <1>4, BusyFields, Zenon DEF RefuseOneOff, Succeed, Fail, Requeue, Park, Executing, StillRunning, TypeOK
  <2>2. \A q \in Runs \ {worker[w].run} : run'[q] = run[q]
    BY <1>4, <2>1, Zenon DEF RefuseOneOff, Succeed, Fail, Requeue, Park, TypeOK
  <2> QED
    BY <2>1, <2>2, OneMoves DEF Moves
<1>5. ASSUME NEW r \in Runs, Complete(r) PROVE AllMove
  BY <1>5, ApplyMoves DEF Complete
<1> QED
  BY <1>1, <1>2, <1>3, <1>4, <1>5 DEF WorkerStep

LEMMA WebMoves == ASSUME TypeOK, WebStep \/ FaultStep PROVE AllMove
<1>1. ASSUME NEW s \in Schedules, EditRead(s) \/ EditSave(s) \/ RunNowInvalid(s) PROVE AllMove
  BY <1>1, StillMoves, Zenon DEF EditRead, EditSave, RunNowInvalid, dbVars
<1>2. ASSUME NEW s \in Schedules, RunNow(s) \/ StartOneOff(s) PROVE AllMove
  <2>1. \E kind : Start(s, kind)
    BY <1>2, Zenon DEF RunNow, StartOneOff
  <2>2. PICK kind : Start(s, kind)
    BY <2>1
  <2>3. HasFresh /\ run' = [run EXCEPT ![Fresh] = Queued(s, kind, NoKey)]
    BY <2>2 DEF Start
  <2> QED
    BY <2>3, StartMoves, Zenon
<1>3. ASSUME NEW s \in Schedules, NEW force \in BOOLEAN, Delete(s, force) PROVE AllMove
  <2> DEFINE rows == [r \in Runs |-> IF r \in ActiveRuns(s)
                                    THEN Ended(r, "failed", "ForceDeleted") ELSE run[r]]
  <2>1. rows \in [Runs -> RunRows]
    BY RunRowTypes, Zenon DEF Statuses, Reasons, TypeOK
  <2>2. \A r \in Runs : \/ rows[r] = run[r]
                        \/ run[r].status \in {"queued", "running"} /\ rows[r].status = "failed"
    BY EndedFields DEF ActiveRuns, IsActive, TypeOK
  <2>3. run' = Unlinked(s, rows)
    BY <1>3 DEF Delete
  <2> HIDE DEF rows
  <2>4. \A q \in Runs : run'[q].status = rows[q].status
    BY <2>1, <2>3, UnlinkedKept
  <2> QED
    BY <2>2, <2>4 DEF AllMove, Moves
<1>4. CASE FaultStep
  BY <1>4, StillMoves DEF FaultStep, TickCrash, WebCrash, WorkerCrash, LoseMessage, ModuleChange, dbVars
<1> QED
  BY <1>1, <1>2, <1>3, <1>4 DEF WebStep

LEMMA EveryStepMoves == ASSUME SafeInv, LiveInv, [Next]_vars PROVE AllMove
<1>1. TypeOK
  BY DEF SafeInv
<1>2. CASE Elapse \/ UNCHANGED vars
  BY <1>2, StillMoves, Zenon DEF Elapse, vars, dbVars
<1> QED
  BY <1>1, <1>2, TickMoves, QueueMoves, WorkerMoves, WebMoves DEF Next

(* The queue: a run comes before the send when it is created, and into the
   except branch from there.                                                 *)
QueueKept ==
  \A r \in Runs : queueing'[r] \in {"send", "fail"} =>
    \/ queueing[r] \in {"send", "fail"}
    \/ run[r].status = "none" /\ run'[r].status = "queued"

LEMMA StartsQueue ==
  ASSUME TypeOK, HasFresh, NEW s, NEW kind, NEW due,
         run' = [run EXCEPT ![Fresh] = Queued(s, kind, due)],
         queueing' = [queueing EXCEPT ![Fresh] = "send"]
  PROVE  QueueKept
<1>1. Fresh \in Runs /\ run[Fresh].status = "none" /\ run'[Fresh].status = "queued"
  BY FreshType, QueuedFields DEF TypeOK
<1>2. \A q \in Runs \ {Fresh} : queueing'[q] = queueing[q]
  BY DEF TypeOK
<1> QED
  BY <1>1, <1>2 DEF QueueKept

LEMMA EveryStepQueues == ASSUME NoLateFault, SafeInv, LiveInv, [Next]_vars PROVE QueueKept
<1>0. TypeOK
  BY DEF SafeInv
<1>1. CASE Elapse \/ TickStart \/ UNCHANGED vars
  BY <1>1 DEF Elapse, TickStart, TickStartWith, vars, QueueKept
<1>2. ASSUME NEW s \in Schedules, DispatchRun(s) PROVE QueueKept
  BY <1>0, <1>2, StartsQueue, Zenon DEF DispatchRun
<1>3. ASSUME NEW s \in Schedules, RunNow(s) \/ StartOneOff(s) PROVE QueueKept
  <2>1. \E kind : Start(s, kind)
    BY <1>3, Zenon DEF RunNow, StartOneOff
  <2>2. PICK kind : Start(s, kind)
    BY <2>1
  <2>3. /\ HasFresh /\ run' = [run EXCEPT ![Fresh] = Queued(s, kind, NoKey)]
        /\ queueing' = [queueing EXCEPT ![Fresh] = "send"]
    BY <2>2 DEF Start
  <2> QED
    BY <1>0, <2>3, StartsQueue, Zenon
<1>4. ASSUME NEW r \in Runs, QueueSend(r) PROVE QueueKept
  BY <1>0, <1>4 DEF QueueSend, Goto, QueueKept, TypeOK
<1>5. CASE \/ \E w \in Workers, x \in msgs, again, ok \in BOOLEAN : Claim(w, x, again, ok)
           \/ \E w \in Workers : Requeue(w) \/ SendRetry(w)
  BY <1>5, Zenon DEF Claim, ClaimFrom, Requeue, SendRetry, QueueKept
<1>6. CASE /\ Next /\ ~Elapse /\ ~TickStart
           /\ ~ \E s \in Schedules : DispatchRun(s) \/ RunNow(s) \/ StartOneOff(s)
           /\ ~ \E r \in Runs : QueueSend(r)
           /\ ~ \E w \in Workers, x \in msgs, again, ok \in BOOLEAN : Claim(w, x, again, ok)
           /\ ~ \E w \in Workers : Requeue(w) \/ SendRetry(w)
  <2>1. Calm
    BY <1>0, <1>6, TickCalm, QueueCalm, WorkerCalm, WebCalm DEF Next, QueueStep
  <2> QED
    BY <2>1 DEF Calm, CalmQueue, QueueKept
<1> QED
  BY <1>1, <1>2, <1>3, <1>4, <1>5, <1>6

LEMMA UnsentAlways == NoLateFault => (Spec => [](SafeInv /\ LiveInv /\ Unsent))
<1> SUFFICES ASSUME NoLateFault PROVE Spec => [](SafeInv /\ LiveInv /\ Unsent)
  OBVIOUS
<1>1. Init => Unsent
  BY Zenon DEF Init, Unsent
<1>2. SafeInv /\ LiveInv /\ Unsent /\ [Next]_vars => Unsent'
  <2> SUFFICES ASSUME SafeInv, LiveInv, Unsent, [Next]_vars PROVE Unsent'
    OBVIOUS
  <2>1. AllMove /\ QueueKept
    BY EveryStepMoves, EveryStepQueues
  <2> QED
    BY <2>1 DEF AllMove, Moves, QueueKept, Unsent, Sent
<1> QED
  BY <1>1, <1>2, LiveAlways, PTL DEF Spec

(* A run that is over stays as it ended (execute_schedule_run, _apply_outcome,
   recover_stale_runs, the forced delete): while no error comes after a send in
   _queue_run, nothing but the clean-up of history touches its status again.
   With such an error the except branch may write FAILED over a success.     *)
THEOREM RunOutcomesAreFinal == NoLateFault => (Spec => TerminalStays)
<1> SUFFICES ASSUME NoLateFault PROVE Spec => TerminalStays
  OBVIOUS
<1>1. SafeInv /\ LiveInv /\ Unsent /\ [Next]_vars
        => [\A r \in Runs : IsTerminal(r) => run'[r].status \in {run[r].status, "deleted"}]_vars
  <2> SUFFICES ASSUME SafeInv, LiveInv, Unsent, [Next]_vars, NEW r \in Runs, IsTerminal(r)
               PROVE  run'[r].status \in {run[r].status, "deleted"}
    OBVIOUS
  <2>1. Moves(r, run'[r].status)
    BY EveryStepMoves DEF AllMove
  <2> QED
    BY <2>1 DEF Moves, Unsent, IsTerminal
<1> QED
  BY <1>1, UnsentAlways, PTL DEF Spec, TerminalStays
=============================================================================
