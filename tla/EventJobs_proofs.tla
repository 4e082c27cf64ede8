--------------------------- MODULE EventJobs_proofs ---------------------------
(* Type correctness of event jobs, one handler per key, the owner of a      *)
(* running row and the contract of event jobs, for every number of rows,    *)
(* keys, workers and publishers and every value of the limits.              *)
EXTENDS EventJobs, TLAPS

(* What a pending row and a message waits for is a number of minutes. *)
LEMMA DelayIsNat ==
  ASSUME NEW a, NEW d \in backoff_delay(a)
  PROVE  d \in Nat
<1> DEFINE doubled == Backoff * 2 ^ (a - 1)
           delay == IF doubled \in 0 .. MaxBackoff THEN doubled ELSE MaxBackoff
<1>1. d \in delay .. (delay + (delay + 4) \div 5)
  BY DEF backoff_delay
<1>2. delay \in Nat
  <2> HIDE DEF doubled
  <2> QED BY EventJobConstants
<1> HIDE DEF delay
<1> QED
  BY <1>1, <1>2

LEMMA DelaysAreNat == ASSUME NEW d \in Delays PROVE d \in Nat
BY DelayIsNat DEF Delays

(* The records of rows, publishers, workers and tick, built field by field. *)
LEMMA BlankIsRow ==
  ASSUME NEW st \in {"none", "pruned"} \cup Active \cup Finished
  PROVE  Blank(st) \in JobRows
<1>1. (CHOOSE k \in Keys : TRUE) \in Keys
  BY EventJobConstants
<1> QED
  BY <1>1 DEF Blank, JobRows, Never

LEMMA EndedIsRow ==
  ASSUME row \in [Rows -> JobRows], NEW r \in Rows, NEW st \in Finished, NEW t \in Nat
  PROVE  Ended(r, st, t) \in [Rows -> JobRows]
BY DEF Ended, JobRows

LEMMA IdleTickIsTick == ASSUME NEW t \in Nat PROVE IdleTick(t) \in TickStates
BY DEF IdleTick, TickStates

LEMMA SelectedAreRows ==
  ASSUME NEW pc, NEW t, NEW S \in Select(pc, t)
  PROVE  S \subseteq Rows
<1>1. Candidates(pc, t) \subseteq Rows
  BY DEF Candidates
<1> QED
  BY <1>1 DEF Select

LEMMA AfterIsPc == ASSUME NEW pc PROVE After(pc) \in {"idle", "gate", "recover", "enqueue", "trim", "prune"}
BY DEF After

LEMMA BeginTypes ==
  ASSUME NEW t \in Nat,
         NEW pc \in {"idle", "expire", "gate", "recover", "enqueue", "trim", "prune"},
         Begin(pc, t)
  PROVE  tick' \in TickStates
<1>1. PICK S \in Select(pc, t) : tick' = [IdleTick(t) EXCEPT !.pc = pc, !.todo = S]
  BY DEF Begin
<1>2. S \subseteq Rows
  BY SelectedAreRows
<1> QED
  BY <1>1, <1>2 DEF IdleTick, TickStates

LEMMA SpendTypes ==
  ASSUME used \in [Kinds -> Nat], NEW k \in Kinds, Spend(k)
  PROVE  used' \in [Kinds -> Nat]
BY DEF Spend

LEMMA SentTypes ==
  ASSUME TypeOK, NEW r \in Rows, NEW t \in Nat, NEW d \in Nat,
         Sent(r, t, d) \/ NotSent(r, t, d)
  PROVE  /\ msgs' \subseteq [row : Rows, eta : Nat, expires : Nat]
         /\ used' \in [Kinds -> Nat]
<1>1. row[r].expires \in Nat
  BY DEF TypeOK, JobRows
<1>2. Message(r, t, d) \in [row : Rows, eta : Nat, expires : Nat]
  BY <1>1 DEF Message
<1>3. msgs' \subseteq msgs \cup {Message(r, t, d)}
  BY DEF Sent, NotSent
<1>4. UNCHANGED used \/ Spend("refuse")
  BY DEF Sent, NotSent
<1>5. used' \in [Kinds -> Nat]
  BY <1>4, SpendTypes DEF TypeOK, Kinds
<1> QED
  BY <1>2, <1>3, <1>5 DEF TypeOK

LEMMA DeliverTypes ==
  ASSUME TypeOK, NEW m \in msgs, NEW again \in BOOLEAN, Deliver(m, again)
  PROVE  /\ m.row \in Rows /\ m.expires \in Nat
         /\ msgs' \subseteq [row : Rows, eta : Nat, expires : Nat]
         /\ used' \in [Kinds -> Nat]
<1>1. m \in [row : Rows, eta : Nat, expires : Nat]
  BY DEF TypeOK
<1>2. (UNCHANGED used \/ Spend("dup")) /\ msgs' \subseteq msgs
  BY DEF Deliver
<1>3. used' \in [Kinds -> Nat]
  BY <1>2, SpendTypes DEF TypeOK, Kinds
<1> QED
  BY <1>1, <1>2, <1>3 DEF TypeOK

(* The phases of a publisher and a worker say which of their fields are set. *)
LEMMA PublisherFields ==
  ASSUME TypeOK, NEW p \in Publishers
  PROVE  /\ pub[p].key \in Keys
         /\ pub[p].phase \in {"send", "mark"} => pub[p].row \in Rows
         /\ pub[p].phase = "store" => pub[p].row = NoRow
<1>1. (CHOOSE k \in Keys : TRUE) \in Keys
  BY EventJobConstants
<1>2. pub[p] \in PubStates
  BY DEF TypeOK
<1> QED
  BY <1>1, <1>2 DEF PubStates, Quiet

LEMMA WorkerFields ==
  ASSUME TypeOK, NEW w \in Workers, worker[w].phase \in {"handler", "resend"}
  PROVE  /\ worker[w] \in [phase : {"handler", "resend"}, row : Rows, since : Nat,
                           expires : Nat, delay : Nat]
         /\ worker[w].row \in Rows /\ worker[w].since \in Nat
         /\ worker[w].expires \in Nat /\ worker[w].delay \in Nat
<1>1. worker[w] \in WorkerStates
  BY DEF TypeOK
<1> QED
  BY <1>1 DEF WorkerStates, Idle

LEMMA BusyWorker ==
  ASSUME TypeOK, NEW w \in Workers, worker[w] # Idle
  PROVE  worker[w].phase \in {"handler", "resend"}
BY DEF TypeOK, WorkerStates

LEMMA ReturnTypes ==
  ASSUME TypeOK, NEW w \in Workers, Return(w)
  PROVE  worker' \in [Workers -> WorkerStates]
BY DEF TypeOK, Return, WorkerStates

LEMMA QuietTypes ==
  ASSUME TypeOK, NEW p \in Publishers, pub' = [pub EXCEPT ![p] = Quiet]
  PROVE  pub' \in [Publishers -> PubStates]
BY DEF TypeOK, PubStates

LEMMA RetryTypes ==
  ASSUME TypeOK, NEW r \in Rows, NEW t \in Nat, NEW d \in Nat, Retry(r, t, d)
  PROVE  row' \in [Rows -> JobRows]
<1> DEFINE new == [row[r] EXCEPT !.status = "pending", !.next = t + d, !.enq = t]
<1>1. row[r] \in JobRows /\ t + d \in Nat
  BY DEF TypeOK
<1>2. new \in JobRows
  BY <1>1 DEF JobRows, Active
<1>3. row' = [row EXCEPT ![r] = new]
  BY DEF Retry
<1> HIDE DEF new
<1> QED
  BY <1>2, <1>3 DEF TypeOK

LEMMA GiveUpTypes ==
  ASSUME TypeOK, NEW r \in Rows, NEW t \in Nat, GiveUp(r, t)
  PROVE  row' \in [Rows -> JobRows]
BY EndedIsRow DEF TypeOK, GiveUp, Finished

LEMMA PublishTypes ==
  ASSUME TypeOK, NEW p \in Publishers,
         (\E k \in Keys : Publish(p, k)) \/ PublishStep(p) \/ PublisherCrash(p)
  PROVE  TypeOK'
<1>1. ASSUME NEW k \in Keys, Publish(p, k) PROVE TypeOK'
  <2>1. [Quiet EXCEPT !.phase = "store", !.key = k] \in PubStates
    BY DEF Quiet, PubStates
  <2>2. pub' \in [Publishers -> PubStates]
    BY <1>1, <2>1 DEF Publish, TypeOK
  <2> QED
    BY <1>1, <2>2 DEF Publish, TypeOK, envVars
<1>2. CASE Store(p)
  <2>1. pub[p].phase = "store" /\ pub[p].key \in Keys /\ pub[p] \in PubStates
    BY <1>2, PublisherFields DEF Store, StoreIf, TypeOK
  <2>2. CASE ActiveOf(pub[p].key) = {}
    <3> DEFINE new == [Blank("pending") EXCEPT !.key = pub[p].key, !.next = now,
                         !.enq = now, !.created = now, !.expires = now + Expires]
    <3>1. PICK r \in Rows : /\ row' = [row EXCEPT ![r] = new]
                            /\ pub' = [pub EXCEPT ![p] = [@ EXCEPT !.phase = "send", !.row = r]]
      BY <1>2, <2>2 DEF Store, StoreIf
    <3>2. now \in Nat /\ now + Expires \in Nat
      BY EventJobConstants DEF TypeOK
    <3>3. new \in JobRows
      <4>1. Blank("pending") \in JobRows
        BY BlankIsRow DEF Active
      <4> QED BY <2>1, <3>2, <4>1 DEF JobRows
    <3>4. row' \in [Rows -> JobRows]
      <4> HIDE DEF new
      <4> QED BY <3>1, <3>3 DEF TypeOK
    <3>5. [pub[p] EXCEPT !.phase = "send", !.row = r] \in PubStates
      BY <2>1 DEF PubStates, Quiet
    <3>6. pub' \in [Publishers -> PubStates]
      BY <3>1, <3>5 DEF TypeOK
    <3> QED
      BY <1>2, <3>4, <3>6 DEF Store, StoreIf, TypeOK, envVars
  <2>3. CASE ActiveOf(pub[p].key) # {}
    BY <1>2, <2>3, QuietTypes DEF Store, StoreIf, TypeOK, envVars
  <2> QED
    BY <2>2, <2>3
<1>3. CASE PublishSend(p)
  <2>1. pub[p].phase = "send" /\ pub[p].row \in Rows /\ pub[p] \in PubStates /\ now \in Nat
    BY <1>3, PublisherFields DEF PublishSend, TypeOK
  <2>2. [pub[p] EXCEPT !.phase = "mark"] \in PubStates
    BY <2>1 DEF PubStates, Quiet
  <2>3. pub' \in [Publishers -> PubStates]
    BY <1>3, <2>2, QuietTypes DEF PublishSend, TypeOK
  <2>4. /\ msgs' \subseteq [row : Rows, eta : Nat, expires : Nat]
        /\ used' \in [Kinds -> Nat]
    BY <1>3, <2>1, SentTypes DEF PublishSend
  <2> QED
    BY <1>3, <2>3, <2>4 DEF PublishSend, TypeOK, envVars
<1>4. CASE PublishMark(p)
  <2>1. pub[p].row \in Rows
    BY <1>4, PublisherFields DEF PublishMark
  <2>2. row' \in [Rows -> JobRows]
    BY <1>4, <2>1 DEF PublishMark, TypeOK, JobRows, Never
  <2> QED
    BY <1>4, <2>2, QuietTypes DEF PublishMark, TypeOK, envVars
<1>5. CASE PublisherCrash(p)
  <2>1. used' \in [Kinds -> Nat]
    BY <1>5, SpendTypes DEF PublisherCrash, TypeOK, Kinds
  <2> QED
    BY <1>5, <2>1, QuietTypes DEF PublisherCrash, TypeOK, envVars
<1> QED
  BY <1>1, <1>2, <1>3, <1>4, <1>5 DEF PublishStep

LEMMA RunTypes ==
  ASSUME TypeOK, NEW m \in msgs, NEW again \in BOOLEAN,
         \/ RunNothing(m, again) \/ RunExpired(m, again) \/ RunDeferred(m, again)
         \/ RunSkipped(m, again) \/ \E w \in Workers : Claim(w, m, again)
  PROVE  TypeOK'
<1>1. /\ m.row \in Rows /\ m.expires \in Nat
      /\ msgs' \subseteq [row : Rows, eta : Nat, expires : Nat]
      /\ used' \in [Kinds -> Nat]
  BY DeliverTypes DEF RunNothing, RunExpired, RunDeferred, RunSkipped, Claim, ClaimIf
<1>2. CASE RunNothing(m, again)
  BY <1>1, <1>2 DEF RunNothing, TypeOK, envVars
<1>3. CASE RunExpired(m, again) \/ RunSkipped(m, again)
  <2>1. row' \in [Rows -> JobRows]
    BY <1>1, <1>3, EndedIsRow DEF RunExpired, RunSkipped, Finished, TypeOK
  <2> QED
    BY <1>1, <1>3, <2>1 DEF RunExpired, RunSkipped, TypeOK, envVars
<1>4. CASE RunDeferred(m, again)
  <2> DEFINE new == [row[m.row] EXCEPT !.next = now, !.enq = now]
  <2>1. row' = [row EXCEPT ![m.row] = new]
    BY <1>1, <1>4 DEF RunDeferred
  <2>2. new \in JobRows
    BY <1>1 DEF TypeOK, JobRows
  <2>3. row' \in [Rows -> JobRows]
    <3> HIDE DEF new
    <3> QED BY <2>1, <2>2 DEF TypeOK
  <2> QED
    BY <1>1, <1>4, <2>3 DEF RunDeferred, TypeOK, envVars
<1>5. ASSUME NEW w \in Workers, Claim(w, m, again) PROVE TypeOK'
  <2> DEFINE new == [row[m.row] EXCEPT !.status = "running", !.started = now,
                                       !.attempt = @ + 1]
             busy == [Idle EXCEPT !.phase = "handler", !.row = m.row, !.since = now,
                                  !.expires = m.expires]
  <2>1. row' = [row EXCEPT ![m.row] = new] /\ worker' = [worker EXCEPT ![w] = busy]
    BY <1>1, <1>5 DEF Claim, ClaimIf
  <2>2. new \in JobRows
    <3>1. row[m.row] \in JobRows /\ now \in Nat /\ row[m.row].attempt + 1 \in Nat
      BY <1>1 DEF TypeOK, JobRows
    <3> QED BY <3>1 DEF JobRows, Active
  <2>3. busy \in WorkerStates
    BY <1>1 DEF TypeOK, WorkerStates, Idle
  <2>4. row' \in [Rows -> JobRows] /\ worker' \in [Workers -> WorkerStates]
    <3> HIDE DEF new, busy
    <3> QED BY <2>1, <2>2, <2>3 DEF TypeOK
  <2> QED
    BY <1>1, <1>5, <2>4 DEF Claim, ClaimIf, TypeOK, envVars
<1> QED
  BY <1>2, <1>3, <1>4, <1>5

LEMMA WorkerTypes ==
  ASSUME TypeOK, NEW w \in Workers,
         \/ FinishSuccess(w) \/ FinishFailure(w) \/ Resend(w)
         \/ TimeLimit(w) \/ WorkerCrash(w)
  PROVE  TypeOK'
<1>0. now \in Nat
  BY DEF TypeOK
<1>1. CASE FinishSuccess(w)
  <2>1. worker[w].row \in Rows
    BY <1>1, WorkerFields DEF FinishSuccess, Executing
  <2>2. row' \in [Rows -> JobRows]
    BY <1>0, <1>1, <2>1, EndedIsRow DEF FinishSuccess, Finished, TypeOK
  <2> QED
    BY <1>1, <2>2, ReturnTypes DEF FinishSuccess, TypeOK, envVars
<1>2. CASE FinishFailure(w)
  <2> DEFINE r == worker[w].row
  <2>1. r \in Rows /\ worker[w].phase = "handler"
    BY <1>2, WorkerFields DEF FinishFailure, Executing
  <2>2. CASE GiveUp(r, now) /\ Return(w)
    BY <1>0, <1>2, <2>1, <2>2, GiveUpTypes, ReturnTypes DEF FinishFailure, TypeOK, envVars
  <2>3. ASSUME NEW d \in Delays, Retry(r, now, d),
               worker' = [worker EXCEPT ![w].phase = "resend", ![w].delay = d]
        PROVE  TypeOK'
    <3>1. row' \in [Rows -> JobRows]
      BY <1>0, <2>1, <2>3, DelaysAreNat, RetryTypes
    <3>2. [worker[w] EXCEPT !.phase = "resend", !.delay = d] \in WorkerStates
      BY <2>1, DelaysAreNat, WorkerFields DEF WorkerStates
    <3>3. worker' \in [Workers -> WorkerStates]
      BY <2>3, <3>2 DEF TypeOK
    <3> QED
      BY <1>2, <3>1, <3>3 DEF FinishFailure, TypeOK, envVars
  <2> QED
    BY <1>2, <2>2, <2>3 DEF FinishFailure
<1>3. CASE Resend(w)
  <2>1. worker[w].row \in Rows /\ worker[w].delay \in Nat
    BY <1>3, WorkerFields DEF Resend
  <2>2. /\ msgs' \subseteq [row : Rows, eta : Nat, expires : Nat]
        /\ used' \in [Kinds -> Nat]
    BY <1>0, <1>3, <2>1, SentTypes DEF Resend
  <2> QED
    BY <1>3, <2>2, ReturnTypes DEF Resend, TypeOK, envVars
<1>4. CASE TimeLimit(w)
  BY <1>4, ReturnTypes DEF TimeLimit, TypeOK, envVars
<1>5. CASE WorkerCrash(w)
  <2>1. used' \in [Kinds -> Nat]
    BY <1>5, SpendTypes DEF WorkerCrash, TypeOK, Kinds
  <2>2. worker[w].row \in Rows /\ worker[w].expires \in Nat
    BY <1>5, BusyWorker, WorkerFields DEF WorkerCrash
  <2>3. msgs' \subseteq [row : Rows, eta : Nat, expires : Nat]
    BY <1>0, <1>5, <2>2 DEF WorkerCrash, TypeOK
  <2> QED
    BY <1>5, <2>1, <2>3, ReturnTypes DEF WorkerCrash, TypeOK, envVars
<1> QED
  BY <1>1, <1>2, <1>3, <1>4, <1>5

LEMMA TickRowTypes ==
  ASSUME TypeOK, NEW r \in Rows,
         ExpireRow(r) \/ RecoverRow(r) \/ EnqueueRow(r) \/ PruneRow(r)
  PROVE  TypeOK'
<1>0. tick \in TickStates /\ tick.now \in Nat
  BY DEF TypeOK, TickStates
<1>1. CASE ExpireRow(r)
  <2>1. row' \in [Rows -> JobRows]
    BY <1>0, <1>1, EndedIsRow DEF ExpireRow, ExpireIf, Finished, TypeOK
  <2>2. tick' \in TickStates
    BY <1>0, <1>1 DEF ExpireRow, ExpireIf, TickStates
  <2> QED
    BY <1>1, <2>1, <2>2 DEF ExpireRow, ExpireIf, TypeOK, envVars
<1>2. CASE RecoverRow(r)
  <2>1. row' \in [Rows -> JobRows]
    BY <1>0, <1>2, GiveUpTypes, RetryTypes, DelaysAreNat DEF RecoverRow
  <2>2. tick' \in TickStates
    BY <1>0, <1>2, DelaysAreNat DEF RecoverRow, TickStates
  <2> QED
    BY <1>2, <2>1, <2>2 DEF RecoverRow, TypeOK, envVars
<1>3. CASE EnqueueRow(r)
  <2>1. /\ msgs' \subseteq [row : Rows, eta : Nat, expires : Nat]
        /\ used' \in [Kinds -> Nat]
    BY <1>0, <1>3, SentTypes DEF EnqueueRow
  <2>2. tick' \in TickStates
    BY <1>0, <1>3 DEF EnqueueRow, TickStates
  <2> QED
    BY <1>3, <2>1, <2>2 DEF EnqueueRow, TypeOK, envVars
<1>4. CASE PruneRow(r)
  <2>1. used' \in [Kinds -> Nat]
    BY <1>4, SpendTypes DEF PruneRow, TypeOK, Kinds
  <2>2. row' \in [Rows -> JobRows]
    BY <1>4, BlankIsRow DEF PruneRow, TypeOK
  <2> QED
    BY <1>4, <2>1, <2>2 DEF PruneRow, TypeOK, envVars
<1> QED
  BY <1>1, <1>2, <1>3, <1>4

LEMMA TickTypes ==
  ASSUME TypeOK, TickStep \/ TickStepFails \/ TickCrash
  PROVE  TypeOK'
<1>0. tick \in TickStates /\ tick.now \in Nat /\ now \in Nat
  BY DEF TypeOK, TickStates
<1>1. CASE TickStart
  BY <1>0, <1>1, BeginTypes DEF TickStart, TypeOK, envVars
<1>2. CASE TickNext
  BY <1>0, <1>2, BeginTypes, AfterIsPc DEF TickNext, TypeOK, envVars
<1>3. CASE \E r \in Rows : ExpireRow(r) \/ RecoverRow(r) \/ EnqueueRow(r) \/ PruneRow(r)
  BY <1>3, TickRowTypes
<1>4. CASE RecoverSend
  <2>1. tick.row \in Rows /\ tick.delay \in Nat
    BY <1>0, <1>4 DEF RecoverSend, TickStates
  <2>2. /\ msgs' \subseteq [row : Rows, eta : Nat, expires : Nat]
        /\ used' \in [Kinds -> Nat]
    BY <1>0, <1>4, <2>1, SentTypes DEF RecoverSend
  <2>3. tick' \in TickStates
    BY <1>0, <1>4 DEF RecoverSend, TickStates
  <2> QED
    BY <1>4, <2>2, <2>3 DEF RecoverSend, TypeOK, envVars
<1>5. CASE EnqueueStamp
  <2>1. tick.row \in Rows
    BY <1>0, <1>5 DEF EnqueueStamp, TickStates
  <2>2. row' \in [Rows -> JobRows]
    BY <1>0, <1>5, <2>1 DEF EnqueueStamp, TypeOK, JobRows
  <2>3. tick' \in TickStates
    BY <1>0, <1>5 DEF EnqueueStamp, TickStates
  <2> QED
    BY <1>5, <2>2, <2>3 DEF EnqueueStamp, TypeOK, envVars
<1>6. CASE TickStepFails
  <2>1. used' \in [Kinds -> Nat]
    BY <1>6, SpendTypes DEF TickStepFails, TypeOK, Kinds
  <2>2. tick' \in TickStates
    BY <1>0, <1>6, BeginTypes, AfterIsPc DEF TickStepFails
  <2> QED
    BY <1>6, <2>1, <2>2 DEF TickStepFails, TypeOK, envVars
<1>7. CASE TickCrash
  <2>1. used' \in [Kinds -> Nat]
    BY <1>7, SpendTypes DEF TickCrash, TypeOK, Kinds
  <2> QED
    BY <1>0, <1>7, <2>1, IdleTickIsTick DEF TickCrash, TypeOK, envVars
<1> QED
  BY <1>1, <1>2, <1>3, <1>4, <1>5, <1>6, <1>7 DEF TickStep

LEMMA InitTypes == Init => TypeOK
<1> SUFFICES ASSUME Init PROVE TypeOK
  OBVIOUS
<1>1. row \in [Rows -> JobRows]
  BY BlankIsRow DEF Init
<1>2. tick \in TickStates
  BY IdleTickIsTick DEF Init
<1> QED
  BY <1>1, <1>2 DEF Init, TypeOK, PubStates, WorkerStates

LEMMA NextTypes == ASSUME TypeOK, [Next]_vars PROVE TypeOK'
<1>1. CASE Elapse
  BY <1>1 DEF Elapse, TypeOK
<1>2. CASE \E p \in Publishers : \/ \E k \in Keys : Publish(p, k)
                                 \/ PublishStep(p) \/ PublisherCrash(p)
  BY <1>2, PublishTypes
<1>3. CASE WorkerStep
  BY <1>3, RunTypes, WorkerTypes DEF WorkerStep
<1>4. CASE \E w \in Workers : TimeLimit(w) \/ WorkerCrash(w)
  BY <1>4, WorkerTypes
<1>5. CASE \E m \in msgs : LoseMessage(m)
  <2>1. UNCHANGED used \/ Spend("lost")
    BY <1>5 DEF LoseMessage
  <2>2. used' \in [Kinds -> Nat]
    BY <2>1, SpendTypes DEF TypeOK, Kinds
  <2> QED
    BY <1>5, <2>2 DEF LoseMessage, TypeOK, envVars
<1>6. CASE TickStep \/ TickStepFails \/ TickCrash
  BY <1>6, TickTypes
<1>7. CASE ModuleChange
  <2>1. used' \in [Kinds -> Nat]
    BY <1>7, SpendTypes DEF ModuleChange, TypeOK, Kinds
  <2> QED
    BY <1>7, <2>1 DEF ModuleChange, TypeOK
<1>8. CASE UNCHANGED vars
  BY <1>8 DEF vars, TypeOK
<1> QED
  BY <1>1, <1>2, <1>3, <1>4, <1>5, <1>6, <1>7, <1>8 DEF Next

(* Rows, messages, workers and the tick keep the shape TypeOK gives them, for
   any number of them: no operation of event_jobs.py stores or sends a row
   that does not exist, and every time and delay is a natural number.      *)
THEOREM EventTypesHold == Spec => []TypeOK
<1>1. Init => TypeOK
  BY InitTypes
<1>2. TypeOK /\ [Next]_vars => TypeOK'
  BY NextTypes
<1> QED
  BY <1>1, <1>2, PTL DEF Spec

----------------------------------------------------------------------------
(* Owners, keys and the contract. *)

Held(r) == row[r].status \in Active

(* The partial unique constraint: no two open rows have the same key. *)
OneOpenPerKey ==
  \A q, r \in Rows : Held(q) /\ Held(r) /\ row[q].key = row[r].key => q = r

(* A pending row has an attempt left, and one that was never stored has used
   none: what the claim relies on, as it does not count.                   *)
AttemptsLeft ==
  \A r \in Rows : /\ Pending(r) => row[r].attempt < MaxAttempts
                  /\ row[r].status = "none" => row[r].attempt = 0

OneWorkerPerRow ==
  \A v, w \in Workers :
    Executing(v) /\ Executing(w) /\ worker[v].row = worker[w].row => v = w

(* Celery's hard limit, and the clock the tick took when it started. *)
InLimits ==
  /\ tick.now <= now
  /\ \A w \in Workers : Executing(w) => now <= worker[w].since + HardLimit

(* What the tick listed for recovery was and still is past the hard limit, so
   that no handler is left that could finish it.                           *)
ListedIsDead ==
  tick.pc = "recover" =>
    \A r \in tick.todo : Running(r) /\ tick.now - row[r].started > HardLimit

SafeInv ==
  /\ TypeOK
  /\ HandlerOwnsRow
  /\ OneOpenPerKey
  /\ AttemptsLeft
  /\ OneWorkerPerRow
  /\ InLimits
  /\ ListedIsDead

----------------------------------------------------------------------------
(* What a step does to the rows, as far as status, key, attempt and start.  *)

Kept(q) == /\ row'[q].status = row[q].status /\ row'[q].key = row[q].key
           /\ row'[q].attempt = row[q].attempt /\ row'[q].started = row[q].started
OthersKept(r) == \A q \in Rows \ {r} : Kept(q)
AllKept == \A q \in Rows : Kept(q)

StoresRow(r, k) ==
  /\ row[r].status = "none" /\ ActiveOf(k) = {} /\ OthersKept(r)
  /\ row'[r].status = "pending" /\ row'[r].key = k /\ row'[r].attempt = 0
StartsRow(r) ==
  /\ Pending(r) /\ OthersKept(r)
  /\ row'[r].status = "running" /\ row'[r].key = row[r].key
  /\ row'[r].attempt = row[r].attempt + 1 /\ row'[r].started = now
EndsRow(r) ==
  /\ Held(r) /\ OthersKept(r)
  /\ row'[r].status \in Finished /\ row'[r].key = row[r].key
  /\ row'[r].attempt = row[r].attempt
DelaysRow(r) ==
  /\ Running(r) /\ row[r].attempt < MaxAttempts /\ OthersKept(r)
  /\ row'[r].status = "pending" /\ row'[r].key = row[r].key
  /\ row'[r].attempt = row[r].attempt
PrunesRow(r) ==
  /\ row[r].status \in Finished /\ OthersKept(r)
  /\ row'[r].status = "pruned" /\ row'[r].attempt = 0

(* What it does besides: no worker starts a handler, and the tick lists
   nothing new for recovery.                                               *)
NoneStarts == \A w \in Workers : worker'[w] = worker[w] \/ worker'[w].phase # "handler"
NoneListed ==
  /\ now' = now /\ tick'.now <= now
  /\ tick'.pc = "recover" =>
       tick.pc = "recover" /\ tick'.now = tick.now /\ tick'.todo \subseteq tick.todo

QuietStep == AllKept /\ NoneStarts /\ NoneListed
BeginStep ==
  /\ AllKept /\ UNCHANGED <<now, worker>> /\ tick'.now <= now
  /\ tick'.pc = "recover" =>
       \A r \in tick'.todo : Running(r) /\ tick'.now - row[r].started > HardLimit
TimeStep ==
  /\ UNCHANGED <<row, worker, tick>> /\ now' = now + 1
  /\ \A w \in Workers : worker[w] # Idle => now < worker[w].since + HardLimit
StoreStep(r, k) == StoresRow(r, k) /\ UNCHANGED <<now, worker, tick>>
StartStep(r, w) ==
  /\ StartsRow(r) /\ UNCHANGED <<now, tick>>
  /\ worker'[w].phase = "handler" /\ worker'[w].row = r /\ worker'[w].since = now
  /\ \A v \in Workers \ {w} : worker'[v] = worker[v]
(* A row is let go of: whoever executed or listed it does so no more. *)
ReleaseStep(r) ==
  /\ EndsRow(r) \/ DelaysRow(r)
  /\ NoneStarts /\ NoneListed
  /\ \A w \in Workers : worker'[w].phase = "handler" => worker'[w].row # r
  /\ tick'.pc = "recover" => r \notin tick'.todo
PruneStep(r) == PrunesRow(r) /\ UNCHANGED <<now, worker, tick>>

Step ==
  \/ QuietStep
  \/ BeginStep
  \/ TimeStep
  \/ \E r \in Rows : \/ \E k \in Keys : StoreStep(r, k)
                     \/ \E w \in Workers : StartStep(r, w)
                     \/ ReleaseStep(r)
                     \/ PruneStep(r)

----------------------------------------------------------------------------
(* Each kind of step keeps the invariant.                                   *)

LEMMA QuietIsSafe == ASSUME SafeInv, TypeOK', QuietStep PROVE SafeInv'
<1> USE DEF QuietStep, AllKept, Kept
<1>1. \A w \in Workers : Executing(w)' => Executing(w) /\ worker'[w] = worker[w]
  BY DEF NoneStarts, Executing
<1>2. \A w \in Workers : Executing(w) => worker[w].row \in Rows
  BY WorkerFields DEF SafeInv, Executing
<1>3. HandlerOwnsRow'
  BY <1>1, <1>2 DEF SafeInv, HandlerOwnsRow, Running
<1>4. OneOpenPerKey' /\ AttemptsLeft'
  BY DEF SafeInv, OneOpenPerKey, AttemptsLeft, Held, Pending
<1>5. OneWorkerPerRow'
  BY <1>1 DEF SafeInv, OneWorkerPerRow
<1>6. InLimits'
  BY <1>1 DEF SafeInv, InLimits, NoneListed
<1>7. ListedIsDead'
  BY DEF SafeInv, ListedIsDead, NoneListed, Running, TypeOK, TickStates
<1> QED
  BY <1>3, <1>4, <1>5, <1>6, <1>7 DEF SafeInv

LEMMA BeginIsSafe == ASSUME SafeInv, TypeOK', BeginStep PROVE SafeInv'
<1> USE DEF BeginStep, AllKept, Kept
<1>1. \A w \in Workers : Executing(w) => worker[w].row \in Rows
  BY WorkerFields DEF SafeInv, Executing
<1>2. HandlerOwnsRow'
  BY <1>1 DEF SafeInv, HandlerOwnsRow, Running, Executing
<1>3. OneOpenPerKey' /\ AttemptsLeft'
  BY DEF SafeInv, OneOpenPerKey, AttemptsLeft, Held, Pending
<1>4. OneWorkerPerRow' /\ InLimits'
  BY DEF SafeInv, OneWorkerPerRow, InLimits, Executing
<1>5. ListedIsDead'
  BY DEF ListedIsDead, Running, TypeOK, TickStates
<1> QED
  BY <1>2, <1>3, <1>4, <1>5 DEF SafeInv

LEMMA TimeIsSafe == ASSUME SafeInv, TypeOK', TimeStep PROVE SafeInv'
<1> USE DEF TimeStep
<1>1. HandlerOwnsRow' /\ OneOpenPerKey' /\ AttemptsLeft' /\ OneWorkerPerRow' /\ ListedIsDead'
  BY DEF SafeInv, HandlerOwnsRow, OneOpenPerKey, AttemptsLeft, OneWorkerPerRow, ListedIsDead,
         Running, Pending, Held, Executing
<1>2. \A w \in Workers : Executing(w) => worker[w].since \in Nat /\ worker[w] # Idle
  BY WorkerFields DEF SafeInv, Executing, Idle
<1>3. InLimits'
  BY <1>2, EventJobConstants DEF SafeInv, InLimits, Executing, TypeOK, TickStates
<1> QED
  BY <1>1, <1>3 DEF SafeInv

LEMMA StoreIsSafe ==
  ASSUME SafeInv, TypeOK', NEW r \in Rows, NEW k \in Keys, StoreStep(r, k)
  PROVE  SafeInv'
<1> USE DEF StoreStep, StoresRow, OthersKept, Kept
<1>1. \A w \in Workers : Executing(w) => worker[w].row \in Rows \ {r}
  BY WorkerFields DEF SafeInv, HandlerOwnsRow, Executing, Running
<1>2. HandlerOwnsRow'
  BY <1>1 DEF SafeInv, HandlerOwnsRow, Running, Executing
<1>3. \A q \in Rows : Held(q) => row[q].key # k
  BY DEF ActiveOf, Held
<1>4. OneOpenPerKey'
  BY <1>3 DEF SafeInv, OneOpenPerKey, Held
<1>5. AttemptsLeft'
  BY EventJobConstants DEF SafeInv, AttemptsLeft, Pending
<1>6. OneWorkerPerRow' /\ InLimits'
  BY DEF SafeInv, OneWorkerPerRow, InLimits, Executing
<1>7. ListedIsDead'
  BY DEF SafeInv, ListedIsDead, Running, TypeOK, TickStates
<1> QED
  BY <1>2, <1>4, <1>5, <1>6, <1>7 DEF SafeInv

LEMMA StartIsSafe ==
  ASSUME SafeInv, TypeOK', NEW r \in Rows, NEW w \in Workers, StartStep(r, w)
  PROVE  SafeInv'
<1> USE DEF StartStep, StartsRow, OthersKept, Kept
<1>1. \A v \in Workers : Executing(v) => worker[v].row \in Rows \ {r}
  BY WorkerFields DEF SafeInv, HandlerOwnsRow, Executing, Running, Pending
<1>2. \A v \in Workers \ {w} : worker'[v] = worker[v]
  OBVIOUS
<1>3. HandlerOwnsRow'
  BY <1>1 DEF SafeInv, HandlerOwnsRow, Running, Executing
<1>4. OneOpenPerKey'
  BY DEF SafeInv, OneOpenPerKey, Held, Pending, Active
<1>5. AttemptsLeft'
  BY DEF SafeInv, AttemptsLeft, Pending
<1>6. OneWorkerPerRow'
  BY <1>1 DEF SafeInv, OneWorkerPerRow, Executing
<1>7. InLimits'
  BY EventJobConstants DEF SafeInv, InLimits, Executing, TypeOK
<1>8. ListedIsDead'
  BY DEF SafeInv, ListedIsDead, Running, Pending, TypeOK, TickStates
<1> QED
  BY <1>3, <1>4, <1>5, <1>6, <1>7, <1>8 DEF SafeInv

LEMMA ReleaseIsSafe ==
  ASSUME SafeInv, TypeOK', NEW r \in Rows, ReleaseStep(r)
  PROVE  SafeInv'
<1> USE DEF ReleaseStep, EndsRow, DelaysRow, OthersKept, Kept
<1>1. \A w \in Workers : Executing(w)' => /\ Executing(w) /\ worker'[w] = worker[w]
                                          /\ worker[w].row \in Rows \ {r}
  BY WorkerFields DEF SafeInv, NoneStarts, Executing
<1>2. HandlerOwnsRow'
  BY <1>1 DEF SafeInv, HandlerOwnsRow, Running
<1>3. OneOpenPerKey'
  BY DEF SafeInv, OneOpenPerKey, Held, Running, Active
<1>4. AttemptsLeft'
  BY DEF SafeInv, AttemptsLeft, Pending, Finished
<1>5. OneWorkerPerRow'
  BY <1>1 DEF SafeInv, OneWorkerPerRow
<1>6. InLimits'
  BY <1>1 DEF SafeInv, InLimits, NoneListed
<1>7. ListedIsDead'
  BY DEF SafeInv, ListedIsDead, NoneListed, Running, TypeOK, TickStates
<1> QED
  BY <1>2, <1>3, <1>4, <1>5, <1>6, <1>7 DEF SafeInv

LEMMA PruneIsSafe ==
  ASSUME SafeInv, TypeOK', NEW r \in Rows, PruneStep(r)
  PROVE  SafeInv'
<1> USE DEF PruneStep, PrunesRow, OthersKept, Kept
<1>1. \A w \in Workers : Executing(w) => worker[w].row \in Rows \ {r}
  BY WorkerFields DEF SafeInv, HandlerOwnsRow, Executing, Running, Finished
<1>2. HandlerOwnsRow'
  BY <1>1 DEF SafeInv, HandlerOwnsRow, Running, Executing
<1>3. OneOpenPerKey'
  BY DEF SafeInv, OneOpenPerKey, Held, Active
<1>4. AttemptsLeft'
  BY DEF SafeInv, AttemptsLeft, Pending
<1>5. OneWorkerPerRow' /\ InLimits'
  BY DEF SafeInv, OneWorkerPerRow, InLimits, Executing
<1>6. ListedIsDead'
  BY DEF SafeInv, ListedIsDead, Running, TypeOK, TickStates, Finished
<1> QED
  BY <1>2, <1>3, <1>4, <1>5, <1>6 DEF SafeInv

LEMMA StepIsSafe == ASSUME SafeInv, TypeOK', Step PROVE SafeInv'
BY QuietIsSafe, BeginIsSafe, TimeIsSafe, StoreIsSafe, StartIsSafe, ReleaseIsSafe, PruneIsSafe
   DEF Step

----------------------------------------------------------------------------
(* Each action is a step of one of these kinds.                             *)

LEMMA EndedFields ==
  ASSUME row \in [Rows -> JobRows], NEW r \in Rows, NEW st \in Finished, NEW t,
         Held(r), row' = Ended(r, st, t)
  PROVE  EndsRow(r)
BY DEF Ended, JobRows, EndsRow, OthersKept, Kept

LEMMA RetryFields ==
  ASSUME row \in [Rows -> JobRows], NEW r \in Rows, NEW t, NEW d, Retry(r, t, d)
  PROVE  DelaysRow(r)
<1> DEFINE new == [row[r] EXCEPT !.status = "pending", !.next = t + d, !.enq = t]
<1>1. row' = [row EXCEPT ![r] = new]
  BY DEF Retry
<1>2. /\ new.status = "pending" /\ new.key = row[r].key
      /\ new.attempt = row[r].attempt
  BY DEF JobRows
<1>3. Running(r) /\ row[r].attempt < MaxAttempts
  BY DEF Retry
<1> HIDE DEF new
<1> QED
  BY <1>1, <1>2, <1>3 DEF DelaysRow, OthersKept, Kept

LEMMA StampFields ==
  ASSUME row \in [Rows -> JobRows], NEW r \in Rows, NEW t,
         row' = row \/ row' = [row EXCEPT ![r].enq = t]
  PROVE  AllKept
BY DEF AllKept, Kept, JobRows

LEMMA SameIsKept == ASSUME UNCHANGED row PROVE AllKept
BY DEF AllKept, Kept

LEMMA ReturnStarts ==
  ASSUME TypeOK, NEW w \in Workers, Return(w)
  PROVE  /\ NoneStarts
         /\ worker'[w].phase = "idle"
         /\ \A v \in Workers \ {w} : worker'[v] = worker[v]
BY DEF TypeOK, Return, NoneStarts, Idle

LEMMA TickStays ==
  ASSUME SafeInv, UNCHANGED <<now, tick>>
  PROVE  NoneListed
BY DEF SafeInv, InLimits, NoneListed

LEMMA PublishStepKind ==
  ASSUME SafeInv, NEW p \in Publishers,
         (\E k \in Keys : Publish(p, k)) \/ PublishStep(p) \/ PublisherCrash(p)
  PROVE  Step
<1>0. UNCHANGED <<now, worker, tick>>
  BY DEF Publish, PublishStep, Store, StoreIf, PublishSend, PublishMark, PublisherCrash, envVars
<1>1. NoneStarts /\ NoneListed
  BY <1>0, TickStays DEF NoneStarts
<1>2. CASE UNCHANGED row
  BY <1>1, <1>2, SameIsKept DEF Step, QuietStep
<1>3. CASE Store(p) /\ ActiveOf(pub[p].key) = {}
  <2> DEFINE k == pub[p].key
             new == [Blank("pending") EXCEPT !.key = k, !.next = now,
                       !.enq = now, !.created = now, !.expires = now + Expires]
  <2>1. k \in Keys
    BY PublisherFields DEF SafeInv
  <2>2. PICK r \in Rows : row[r].status = "none" /\ row' = [row EXCEPT ![r] = new]
    BY <1>3 DEF Store, StoreIf
  <2>3. new.status = "pending" /\ new.key = k /\ new.attempt = 0
    BY DEF Blank
  <2>4. StoresRow(r, k)
    <3> HIDE DEF new
    <3> QED BY <1>3, <2>2, <2>3 DEF SafeInv, TypeOK, StoresRow, OthersKept, Kept
  <2> QED
    BY <1>0, <2>1, <2>4 DEF StoreStep, Step
<1>4. CASE PublishMark(p)
  <2>1. pub[p].row \in Rows
    BY <1>4, PublisherFields DEF SafeInv, PublishMark
  <2>2. AllKept
    <3>1. row' = row \/ row' = [row EXCEPT ![pub[p].row].enq = Never]
      BY <1>4 DEF PublishMark
    <3> QED BY <2>1, <3>1, StampFields DEF SafeInv, TypeOK
  <2> QED
    BY <1>1, <2>2 DEF QuietStep, Step
<1> QED
  BY <1>2, <1>3, <1>4 DEF Publish, PublishStep, Store, StoreIf, PublishSend, PublisherCrash

LEMMA RunStepKind ==
  ASSUME SafeInv, NEW m \in msgs, NEW again \in BOOLEAN,
         \/ RunNothing(m, again) \/ RunExpired(m, again) \/ RunDeferred(m, again)
         \/ RunSkipped(m, again) \/ \E w \in Workers : Claim(w, m, again)
  PROVE  Step
<1> DEFINE r == m.row
<1>1. r \in Rows
  BY DEF SafeInv, TypeOK
<1>2. row \in [Rows -> JobRows] /\ worker \in [Workers -> WorkerStates]
  BY DEF SafeInv, TypeOK
<1>3. UNCHANGED <<now, tick>>
  BY DEF RunNothing, RunExpired, RunDeferred, RunSkipped, Claim, ClaimIf, envVars
<1>4. NoneListed
  BY <1>3, TickStays
<1>5. CASE RunNothing(m, again)
  BY <1>4, <1>5, SameIsKept DEF RunNothing, Step, QuietStep, NoneStarts
<1>6. CASE RunExpired(m, again) \/ RunSkipped(m, again)
  <2>1. Pending(r) /\ Held(r)
    BY <1>6 DEF RunExpired, RunSkipped, Due, Pending, Held, Active
  <2>2. EndsRow(r)
    BY <1>1, <1>2, <1>6, <2>1, EndedFields DEF RunExpired, RunSkipped, Finished
  <2>3. UNCHANGED worker
    BY <1>6 DEF RunExpired, RunSkipped
  <2>4. \A w \in Workers : worker[w].phase = "handler" => worker[w].row # r
    BY <2>1 DEF SafeInv, HandlerOwnsRow, Executing, Running, Pending
  <2>5. tick.pc = "recover" => r \notin tick.todo
    BY <2>1 DEF SafeInv, ListedIsDead, Running, Pending
  <2>6. ReleaseStep(r)
    BY <1>3, <1>4, <2>2, <2>3, <2>4, <2>5 DEF ReleaseStep, NoneStarts
  <2> QED
    BY <1>1, <2>6 DEF Step
<1>7. CASE RunDeferred(m, again)
  <2> DEFINE new == [row[r] EXCEPT !.next = now, !.enq = now]
  <2>1. row' = [row EXCEPT ![r] = new] /\ UNCHANGED worker
    BY <1>1, <1>7 DEF RunDeferred
  <2>2. /\ new.status = row[r].status /\ new.key = row[r].key
        /\ new.attempt = row[r].attempt /\ new.started = row[r].started
    BY <1>1, <1>2 DEF JobRows
  <2>3. AllKept
    <3> HIDE DEF new
    <3> QED BY <1>1, <1>2, <2>1, <2>2 DEF AllKept, Kept
  <2> QED
    BY <1>4, <2>1, <2>3 DEF Step, QuietStep, NoneStarts
<1>8. ASSUME NEW w \in Workers, Claim(w, m, again) PROVE Step
  <2> DEFINE new == [row[r] EXCEPT !.status = "running", !.started = now,
                                   !.attempt = @ + 1]
             busy == [Idle EXCEPT !.phase = "handler", !.row = r, !.since = now,
                                  !.expires = m.expires]
  <2>1. /\ row' = [row EXCEPT ![r] = new] /\ worker' = [worker EXCEPT ![w] = busy]
        /\ Pending(r)
    BY <1>1, <1>8 DEF Claim, ClaimIf, Due
  <2>2. /\ new.status = "running" /\ new.key = row[r].key
        /\ new.attempt = row[r].attempt + 1 /\ new.started = now
    BY <1>1, <1>2 DEF JobRows
  <2>3. busy.phase = "handler" /\ busy.row = r /\ busy.since = now
    BY DEF Idle
  <2>4. StartStep(r, w)
    <3> HIDE DEF new, busy
    <3>1. StartsRow(r)
      BY <1>1, <1>2, <2>1, <2>2 DEF StartsRow, OthersKept, Kept
    <3> QED
      BY <1>2, <1>3, <2>1, <2>3, <3>1 DEF StartStep
  <2> QED
    BY <1>1, <2>4 DEF Step
<1> QED
  BY <1>5, <1>6, <1>7, <1>8

LEMMA WorkerStepKind ==
  ASSUME SafeInv, NEW w \in Workers,
         \/ FinishSuccess(w) \/ FinishFailure(w) \/ Resend(w)
         \/ TimeLimit(w) \/ WorkerCrash(w)
  PROVE  Step
<1> DEFINE r == worker[w].row
<1>0. UNCHANGED <<now, tick>>
  BY DEF FinishSuccess, FinishFailure, Resend, TimeLimit, WorkerCrash, envVars
<1>1. NoneListed
  BY <1>0, TickStays
<1>2. row \in [Rows -> JobRows] /\ worker \in [Workers -> WorkerStates] /\ TypeOK
  BY DEF SafeInv, TypeOK
<1>3. CASE Resend(w) \/ TimeLimit(w) \/ WorkerCrash(w)
  <2>1. UNCHANGED row /\ Return(w)
    BY <1>3 DEF Resend, TimeLimit, WorkerCrash
  <2> QED
    BY <1>1, <1>2, <2>1, ReturnStarts, SameIsKept DEF Step, QuietStep
<1>4. CASE FinishSuccess(w) \/ FinishFailure(w)
  <2>1. Executing(w) /\ r \in Rows
    BY <1>2, <1>4, WorkerFields DEF FinishSuccess, FinishFailure, Executing
  <2>2. Running(r) /\ Held(r) /\ row[r].started = worker[w].since
    BY <2>1 DEF SafeInv, HandlerOwnsRow, Running, Held, Active
  <2>3. NoneStarts /\ worker'[w].phase # "handler"
        /\ \A v \in Workers \ {w} : worker'[v] = worker[v]
    <3>1. CASE Return(w)
      BY <1>2, <3>1, ReturnStarts
    <3>2. ASSUME NEW d, worker' = [worker EXCEPT ![w].phase = "resend", ![w].delay = d]
          PROVE  /\ NoneStarts /\ worker'[w].phase # "handler"
                 /\ \A v \in Workers \ {w} : worker'[v] = worker[v]
      <4> DEFINE new == [worker[w] EXCEPT !.phase = "resend", !.delay = d]
      <4>1. new.phase = "resend"
        BY <1>2, <2>1, WorkerFields DEF Executing
      <4>2. worker' = [worker EXCEPT ![w] = new]
        BY <3>2
      <4> HIDE DEF new
      <4> QED BY <1>2, <4>1, <4>2 DEF NoneStarts
    <3> QED
      BY <1>4, <3>1, <3>2 DEF FinishSuccess, FinishFailure
  <2>4. \A v \in Workers : worker'[v].phase = "handler" => worker'[v].row # r
    BY <2>1, <2>3 DEF SafeInv, OneWorkerPerRow, Executing
  <2>5. tick.pc = "recover" => r \notin tick.todo
    <3>1. now \in Nat /\ tick.now \in Nat /\ worker[w].since \in Nat
      BY <1>2, <2>1, WorkerFields DEF TypeOK, TickStates, Executing
    <3>2. tick.now <= now /\ now <= worker[w].since + HardLimit
      BY <2>1 DEF SafeInv, InLimits
    <3>3. ~ (tick.now - row[r].started > HardLimit)
      BY <2>2, <3>1, <3>2, EventJobConstants
    <3> QED
      BY <3>3 DEF SafeInv, ListedIsDead
  <2>6. EndsRow(r) \/ DelaysRow(r)
    <3>1. CASE FinishSuccess(w)
      BY <1>2, <2>1, <2>2, <3>1, EndedFields DEF FinishSuccess, Finished
    <3>2. CASE GiveUp(r, now)
      BY <1>2, <2>1, <2>2, <3>2, EndedFields DEF GiveUp, Finished
    <3>3. CASE \E d \in Delays : Retry(r, now, d)
      BY <1>2, <2>1, <3>3, RetryFields
    <3> QED
      BY <1>4, <3>1, <3>2, <3>3 DEF FinishFailure
  <2>7. ReleaseStep(r)
    BY <1>0, <1>1, <2>3, <2>4, <2>5, <2>6 DEF ReleaseStep
  <2> QED
    BY <2>1, <2>7 DEF Step
<1> QED
  BY <1>3, <1>4

(* What a step of the tick selects for recovery is past the hard limit. *)
LEMMA BeginListsDead ==
  ASSUME SafeInv, NEW pc, NEW t \in Nat, t <= now, Begin(pc, t), UNCHANGED <<now, row, worker>>
  PROVE  BeginStep
<1>1. PICK S \in Select(pc, t) : tick' = [IdleTick(t) EXCEPT !.pc = pc, !.todo = S]
  BY DEF Begin
<1>2. tick'.pc = pc /\ tick'.now = t /\ tick'.todo = S
  BY <1>1 DEF IdleTick
<1>3. ASSUME pc = "recover", NEW r \in S
      PROVE  Running(r) /\ t - row[r].started > HardLimit
  <2>1. r \in Candidates(pc, t) /\ is_stale_running(r, t)
    BY <1>3 DEF Select
  <2>2. Running(r) /\ r \in Rows
    BY <1>3, <2>1 DEF Candidates
  <2>3. row[r].started \in Nat
    BY <2>2 DEF SafeInv, TypeOK, JobRows
  <2> QED
    BY <2>1, <2>2, <2>3, EventJobConstants DEF is_stale_running
<1> QED
  BY <1>2, <1>3, SameIsKept DEF BeginStep

LEMMA TickRowStepKind ==
  ASSUME SafeInv, NEW r \in Rows,
         ExpireRow(r) \/ RecoverRow(r) \/ EnqueueRow(r) \/ PruneRow(r)
  PROVE  Step
<1>0. row \in [Rows -> JobRows] /\ tick \in TickStates /\ tick.now <= now
  BY DEF SafeInv, TypeOK, InLimits
<1>1. UNCHANGED <<now, worker>> /\ NoneStarts
  BY DEF ExpireRow, ExpireIf, RecoverRow, EnqueueRow, PruneRow, envVars, NoneStarts
<1>2. CASE ExpireRow(r)
  <2>1. tick' = [tick EXCEPT !.todo = @ \ {r}] /\ tick.pc # "recover"
    BY <1>2 DEF ExpireRow, ExpireIf
  <2>2. tick'.pc = tick.pc /\ tick'.now = tick.now
    BY <1>0, <2>1 DEF TickStates
  <2>3. NoneListed
    BY <1>0, <1>1, <2>1, <2>2 DEF NoneListed
  <2>4. CASE Pending(r)
    <3>1. EndsRow(r)
      BY <1>0, <1>2, <2>4, EndedFields DEF ExpireRow, ExpireIf, Finished, Held, Active, Pending
    <3>2. \A w \in Workers : worker[w].phase = "handler" => worker[w].row # r
      BY <2>4 DEF SafeInv, HandlerOwnsRow, Executing, Running, Pending
    <3> QED
      BY <1>1, <2>1, <2>2, <2>3, <3>1, <3>2 DEF ReleaseStep, Step
  <2>5. CASE ~Pending(r)
    BY <1>1, <1>2, <2>3, <2>5, SameIsKept DEF ExpireRow, ExpireIf, QuietStep, Step
  <2> QED
    BY <2>4, <2>5
<1>3. CASE RecoverRow(r)
  <2>1. Running(r) /\ Held(r) /\ tick.now - row[r].started > HardLimit
    BY <1>3 DEF RecoverRow, SafeInv, ListedIsDead, Running, Held, Active
  <2>2. tick'.todo = tick.todo \ {r} /\ tick'.pc = tick.pc /\ tick'.now = tick.now
    BY <1>0, <1>3 DEF RecoverRow, TickStates
  <2>3. NoneListed
    BY <1>0, <1>1, <2>2 DEF NoneListed
  <2>4. \A w \in Workers : worker[w].phase = "handler" => worker[w].row # r
    <3> SUFFICES ASSUME NEW w \in Workers, Executing(w), worker[w].row = r PROVE FALSE
      BY DEF Executing
    <3>1. worker[w].since \in Nat /\ now \in Nat /\ tick.now \in Nat
      BY <1>0, WorkerFields DEF SafeInv, Executing, TypeOK, TickStates
    <3>2. row[r].started = worker[w].since /\ now <= worker[w].since + HardLimit
      BY DEF SafeInv, HandlerOwnsRow, InLimits
    <3> QED
      BY <1>0, <2>1, <3>1, <3>2, EventJobConstants
  <2>5. EndsRow(r) \/ DelaysRow(r)
    <3>1. CASE GiveUp(r, tick.now)
      BY <1>0, <2>1, <3>1, EndedFields DEF GiveUp, Finished
    <3>2. CASE \E d \in Delays : Retry(r, tick.now, d)
      BY <1>0, <3>2, RetryFields
    <3> QED
      BY <1>3, <3>1, <3>2 DEF RecoverRow
  <2> QED
    BY <1>1, <2>2, <2>3, <2>4, <2>5 DEF ReleaseStep, Step
<1>4. CASE EnqueueRow(r)
  <2>1. tick.pc = "enqueue" /\ tick'.pc = tick.pc /\ tick'.now = tick.now /\ UNCHANGED row
    BY <1>0, <1>4 DEF EnqueueRow, TickStates
  <2> QED
    BY <1>0, <1>1, <2>1, SameIsKept DEF NoneListed, QuietStep, Step
<1>5. CASE PruneRow(r)
  <2>1. row[r].status \in Finished /\ row' = [row EXCEPT ![r] = Blank("pruned")]
        /\ UNCHANGED tick
    BY <1>5 DEF PruneRow
  <2>2. Blank("pruned").status = "pruned" /\ Blank("pruned").attempt = 0
    BY DEF Blank
  <2>3. PrunesRow(r)
    BY <1>0, <2>1, <2>2 DEF PrunesRow, OthersKept, Kept
  <2> QED
    BY <1>1, <2>1, <2>3 DEF PruneStep, Step
<1> QED
  BY <1>2, <1>3, <1>4, <1>5

LEMMA TickStepKind ==
  ASSUME SafeInv, TickStep \/ TickStepFails \/ TickCrash
  PROVE  Step
<1>0. /\ row \in [Rows -> JobRows] /\ tick \in TickStates /\ tick.now <= now
      /\ tick.now \in Nat /\ now \in Nat
  BY DEF SafeInv, TypeOK, InLimits, TickStates
<1>1. CASE TickStart
  BY <1>0, <1>1, BeginListsDead DEF TickStart, envVars, Step
<1>2. CASE TickNext \/ TickStepFails
  BY <1>0, <1>2, BeginListsDead DEF TickNext, TickStepFails, envVars, Step
<1>3. CASE \E r \in Rows : ExpireRow(r) \/ RecoverRow(r) \/ EnqueueRow(r) \/ PruneRow(r)
  BY <1>3, TickRowStepKind
<1>4. CASE RecoverSend
  <2>1. tick' = [tick EXCEPT !.row = NoRow] /\ UNCHANGED <<now, row, worker>>
    BY <1>4 DEF RecoverSend, envVars
  <2>2. tick'.pc = tick.pc /\ tick'.now = tick.now /\ tick'.todo = tick.todo
    BY <1>0, <2>1 DEF TickStates
  <2> QED
    BY <1>0, <2>1, <2>2, SameIsKept DEF NoneListed, NoneStarts, QuietStep, Step
<1>5. CASE EnqueueStamp
  <2>1. tick' = [tick EXCEPT !.row = NoRow] /\ UNCHANGED <<now, worker>>
    BY <1>5 DEF EnqueueStamp, envVars
  <2>2. tick'.pc = tick.pc /\ tick'.now = tick.now /\ tick'.todo = tick.todo
    BY <1>0, <2>1 DEF TickStates
  <2>3. AllKept
    <3>1. tick.row \in Rows
      BY <1>0, <1>5 DEF EnqueueStamp, TickStates
    <3>2. row' = row \/ row' = [row EXCEPT ![tick.row].enq = tick.now]
      BY <1>5 DEF EnqueueStamp
    <3> QED BY <1>0, <3>1, <3>2, StampFields
  <2> QED
    BY <1>0, <2>1, <2>2, <2>3 DEF NoneListed, NoneStarts, QuietStep, Step
<1>6. CASE TickCrash
  <2>1. tick' = IdleTick(tick.now) /\ UNCHANGED <<now, row, worker>>
    BY <1>6 DEF TickCrash, envVars
  <2>2. tick'.pc = "idle" /\ tick'.now = tick.now
    BY <2>1 DEF IdleTick
  <2> QED
    BY <1>0, <2>1, <2>2, SameIsKept DEF NoneListed, NoneStarts, QuietStep, Step
<1> QED
  BY <1>1, <1>2, <1>3, <1>4, <1>5, <1>6 DEF TickStep

LEMMA NextIsStep == ASSUME SafeInv, [Next]_vars PROVE Step
<1>1. CASE Elapse
  BY <1>1 DEF Elapse, TimeStep, Step
<1>2. CASE \E p \in Publishers : \/ \E k \in Keys : Publish(p, k)
                                 \/ PublishStep(p) \/ PublisherCrash(p)
  BY <1>2, PublishStepKind
<1>3. CASE WorkerStep \/ \E w \in Workers : TimeLimit(w) \/ WorkerCrash(w)
  BY <1>3, RunStepKind, WorkerStepKind DEF WorkerStep
<1>4. CASE TickStep \/ TickStepFails \/ TickCrash
  BY <1>4, TickStepKind
<1>5. CASE (\E m \in msgs : LoseMessage(m)) \/ ModuleChange \/ UNCHANGED vars
  <2>1. UNCHANGED <<now, row, worker, tick>>
    BY <1>5 DEF LoseMessage, ModuleChange, vars, envVars
  <2> QED
    BY <2>1, SameIsKept, TickStays DEF NoneStarts, QuietStep, Step
<1> QED
  BY <1>1, <1>2, <1>3, <1>4, <1>5 DEF Next

LEMMA InitIsSafe == Init => SafeInv
<1> SUFFICES ASSUME Init PROVE SafeInv
  OBVIOUS
<1>1. TypeOK
  BY InitTypes
<1>2. \A r \in Rows : row[r].status = "none" /\ row[r].attempt = 0
  BY DEF Init, Blank
<1>3. \A w \in Workers : ~Executing(w)
  BY DEF Init, Idle, Executing
<1>4. tick.now = 0 /\ now = 0 /\ tick.pc = "idle"
  BY DEF Init, IdleTick
<1> QED
  BY <1>1, <1>2, <1>3, <1>4 DEF SafeInv, HandlerOwnsRow, OneOpenPerKey, AttemptsLeft,
     OneWorkerPerRow, InLimits, ListedIsDead, Held, Active, Pending

LEMMA SafeInvHolds == Spec => []SafeInv
<1>1. Init => SafeInv
  BY InitIsSafe
<1>2. SafeInv /\ [Next]_vars => SafeInv'
  <2> SUFFICES ASSUME SafeInv, [Next]_vars PROVE SafeInv'
    OBVIOUS
  <2>1. TypeOK'
    BY NextTypes DEF SafeInv
  <2> QED
    BY <2>1, NextIsStep, StepIsSafe
<1> QED
  BY <1>1, <1>2, PTL DEF Spec

(* The tick never recovers a row whose handler still runs, and no message
   claims it: recovery waits for the hard limit, which Celery enforces.    *)
THEOREM HandlersOwnTheirRows == Spec => []HandlerOwnsRow
<1>1. SafeInv => HandlerOwnsRow
  BY DEF SafeInv
<1> QED
  BY <1>1, SafeInvHolds, PTL

(* Two handlers never run for one idempotency key: the unique constraint keeps
   two rows of the key from being open, the claim two workers from one row. *)
THEOREM KeysHaveOneHandler == Spec => []OneHandlerPerKey
<1>1. SafeInv => OneHandlerPerKey
  <2> SUFFICES ASSUME SafeInv, NEW v \in Workers, NEW w \in Workers,
                      Executing(v), Executing(w), v # w
               PROVE  row[worker[v].row].key # row[worker[w].row].key
    BY DEF OneHandlerPerKey
  <2>1. worker[v].row \in Rows /\ worker[w].row \in Rows
    BY WorkerFields DEF SafeInv, Executing
  <2>2. Held(worker[v].row) /\ Held(worker[w].row)
    BY DEF SafeInv, HandlerOwnsRow, Held, Running, Active
  <2>3. worker[v].row # worker[w].row
    BY DEF SafeInv, OneWorkerPerRow
  <2> QED
    BY <2>1, <2>2, <2>3 DEF SafeInv, OneOpenPerKey
<1> QED
  BY <1>1, SafeInvHolds, PTL

----------------------------------------------------------------------------
(* The contract.                                                            *)

(* What a step does to the rows, without what it does to workers and tick. *)
LEMMA StepMovesOneRow ==
  ASSUME Step
  PROVE  \/ AllKept
         \/ \E r \in Rows : \/ \E k \in Keys : StoresRow(r, k)
                            \/ StartsRow(r) \/ EndsRow(r) \/ DelaysRow(r) \/ PrunesRow(r)
BY DEF Step, QuietStep, BeginStep, TimeStep, StoreStep, StartStep, ReleaseStep, PruneStep,
       AllKept, Kept

stage == [r \in Rows |-> Stage(row[r].status)]
key == [r \in Rows |-> row[r].key]
tries == [r \in Rows |-> row[r].attempt]

LEMMA Stages ==
  /\ Stage("none") = "none" /\ Stage("pending") = "waiting"
  /\ Stage("running") = "trying" /\ Stage("pruned") = "forgotten"
  /\ \A st \in Finished : Stage(st) = "over"
BY DEF Stage, Finished

LEMMA StepKeepsContract ==
  ASSUME SafeInv, TypeOK', Step
  PROVE  [Contract!Next]_(Contract!vars)
<1>1. CASE AllKept
  <2>1. stage' = stage /\ key' = key /\ tries' = tries
    BY <1>1 DEF AllKept, Kept, stage, key, tries
  <2> QED
    BY <2>1 DEF Contract!vars, stage, key, tries
<1>2. ASSUME NEW r \in Rows, NEW k \in Keys, StoresRow(r, k)
      PROVE  Contract!Accept(r, k)
  <2>1. stage[r] = "none" /\ stage' = [stage EXCEPT ![r] = "waiting"]
    BY <1>2, Stages DEF StoresRow, OthersKept, Kept, stage
  <2>2. key' = [key EXCEPT ![r] = k]
    BY <1>2 DEF StoresRow, OthersKept, Kept, key
  <2>3. tries' = tries
    BY <1>2 DEF StoresRow, OthersKept, Kept, tries, SafeInv, AttemptsLeft
  <2>4. \A q \in Rows : stage[q] \in {"waiting", "trying"} => key[q] # k
    BY <1>2 DEF StoresRow, ActiveOf, Active, stage, key, Stage
  <2> QED
    BY <2>1, <2>2, <2>3, <2>4 DEF Contract!Accept, Contract!Open, stage, key, tries
<1>3. ASSUME NEW r \in Rows, StartsRow(r) PROVE Contract!Try(r)
  <2>1. stage[r] = "waiting" /\ stage' = [stage EXCEPT ![r] = "trying"]
    BY <1>3, Stages DEF StartsRow, OthersKept, Kept, stage, Pending
  <2>2. key' = key
    BY <1>3 DEF StartsRow, OthersKept, Kept, key
  <2>3. tries[r] < MaxAttempts /\ tries' = [tries EXCEPT ![r] = tries[r] + 1]
    BY <1>3 DEF StartsRow, OthersKept, Kept, tries, SafeInv, AttemptsLeft
  <2> QED
    BY <2>1, <2>2, <2>3 DEF Contract!Try, stage, key, tries
<1>4. ASSUME NEW r \in Rows, DelaysRow(r) PROVE Contract!Wait(r)
  <2>1. stage[r] = "trying" /\ stage' = [stage EXCEPT ![r] = "waiting"]
    BY <1>4, Stages DEF DelaysRow, OthersKept, Kept, stage, Running
  <2>2. key' = key /\ tries' = tries /\ tries[r] < MaxAttempts
    BY <1>4 DEF DelaysRow, OthersKept, Kept, key, tries
  <2> QED
    BY <2>1, <2>2 DEF Contract!Wait, stage, key, tries
<1>5. ASSUME NEW r \in Rows, EndsRow(r) PROVE Contract!End(r)
  <2>1. stage[r] \in {"waiting", "trying"}
    BY <1>5, Stages DEF EndsRow, Held, Active, stage
  <2>2. stage' = [stage EXCEPT ![r] = "over"]
    BY <1>5, Stages DEF EndsRow, OthersKept, Kept, stage
  <2>3. key' = key /\ tries' = tries
    BY <1>5 DEF EndsRow, OthersKept, Kept, key, tries
  <2> QED
    BY <2>1, <2>2, <2>3 DEF Contract!End, Contract!Open, stage, key, tries
<1>6. ASSUME NEW r \in Rows, PrunesRow(r) PROVE Contract!Forget(r)
  <2>1. stage[r] = "over" /\ stage' = [stage EXCEPT ![r] = "forgotten"]
    BY <1>6, Stages DEF PrunesRow, OthersKept, Kept, stage
  <2>2. key' \in [Rows -> Keys]
    BY DEF TypeOK, JobRows, key
  <2>3. \A q \in Rows \ {r} : key'[q] = key[q]
    BY <1>6 DEF PrunesRow, OthersKept, Kept, key
  <2>4. tries' = [tries EXCEPT ![r] = 0]
    BY <1>6 DEF PrunesRow, OthersKept, Kept, tries
  <2> QED
    BY <2>1, <2>2, <2>3, <2>4 DEF Contract!Forget, stage, key, tries
<1> QED
  BY <1>1, <1>2, <1>3, <1>4, <1>5, <1>6, StepMovesOneRow DEF Contract!Next

LEMMA InitKeepsContract == Init => Contract!Init
<1> SUFFICES ASSUME Init PROVE Contract!Init
  OBVIOUS
<1>1. TypeOK
  BY InitTypes
<1>2. stage = [r \in Rows |-> "none"] /\ tries = [r \in Rows |-> 0]
  BY Stages DEF Init, Blank, stage, tries
<1>3. key \in [Rows -> Keys]
  BY <1>1 DEF TypeOK, JobRows, key
<1> QED
  BY <1>2, <1>3 DEF Contract!Init, stage, key, tries

(* Event jobs implement their contract: whatever processes crash and messages
   are lost or repeated, a row is tried one attempt at a time, at most
   MaxAttempts times, ends once and is the only open one of its key.       *)
THEOREM EventJobsKeepContract == Spec => KeepsContract
<1>1. Init => Contract!Init
  BY InitKeepsContract
<1>2. SafeInv /\ SafeInv' /\ [Next]_vars => [Contract!Next]_(Contract!vars)
  <2> SUFFICES ASSUME SafeInv, SafeInv', [Next]_vars
               PROVE  [Contract!Next]_(Contract!vars)
    OBVIOUS
  <2>1. TypeOK'
    BY DEF SafeInv
  <2> QED
    BY <2>1, NextIsStep, StepKeepsContract
<1> QED
  BY <1>1, <1>2, SafeInvHolds, PTL DEF Spec, KeepsContract, Contract!Spec

(* A row that ended keeps its outcome until it is pruned: no late worker,
   message or tick step of run_event_job or recover_event_jobs changes it. *)
THEOREM OutcomesAreFinal == Spec => TerminalStays
<1> DEFINE A == \A r \in Rows : row[r].status \in Finished
                  => row'[r].status \in {row[r].status, "pruned"}
<1>1. SafeInv /\ [Next]_vars => A
  <2> SUFFICES ASSUME SafeInv, [Next]_vars PROVE A
    OBVIOUS
  <2> QED
    BY NextIsStep, StepMovesOneRow DEF AllKept, OthersKept, Kept, StoresRow, StartsRow, EndsRow,
       DelaysRow, PrunesRow, Held, Active, Finished, Pending, Running
<1> HIDE DEF A
<1>2. Spec => [][A]_vars
  BY <1>1, SafeInvHolds, PTL DEF Spec
<1> QED
  BY <1>2 DEF TerminalStays, A
===============================================================================
